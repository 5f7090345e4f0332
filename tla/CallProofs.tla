------------------------------ MODULE CallProofs ------------------------------
(***************************************************************************)
(* Theorems about what a caller of the client meets: single operations and *)
(* the session they go out on, the converters of a streaming client, the   *)
(* confirmation of a deal, the pace of requests, the setup of clients and  *)
(* the catalogue.                                                          *)
(***************************************************************************)
EXTENDS OAuthSession, ClientOperations, StreamerClient, DealConfirmation, RatePacing,
        ClientSetup, MarketCatalog, StoreProofs

-----------------------------------------------------------------------------
(* The session of a v3 client: what IG has left of a token and what the    *)
(* client believes.                                                        *)

OAuthNext == OAuthStep \/ Want \/ OthersStep

OAuthSpec == OAuthInit /\ [][OAuthNext]_oas

\* The client counts as much more than IG as the answer of the login was late, less the
\* second expire_at takes off.
Timed(t) == t # NoToken => t.keeps = 0 \/ t.keeps + 1 <= t.lives + t.late

\* What IG has left of a token, with the delay of its answer and the time it has been in
\* hand, is more than the margin, or all its life.
Lasts(t, w) ==
  t.lives + t.late + w >= Margin + 2 \/ t.lives + t.late + w >= t.life

\* The task has taken a token for its call.
InHand == stage \in {"ready", "paced", "sent", "backoff"}

OAuthInv ==
  /\ OAuthTypeOK
  /\ Timed(cached)
  /\ chosen \in since
  /\ stage \in {"get", "refresh", "login", "forced", "ready"} => waited = 0
  /\ stage \in {"idle", "ok", "error"} => waited = 0
  /\ InHand => token # NoToken /\ Lasts(token, waited)
  /\ stage \in {"paced", "sent", "backoff"} =>
       /\ purpose # "stream" => named \in since
       /\ purpose = "stream" => named = token.account
  /\ stage = "backoff" => pause > 0

\* A token is none, or has the fields of a session.
LEMMA TokenFields ==
  ASSUME NEW t, IsToken(t), t # NoToken
  PROVE  /\ t \in OAuthTokens
         /\ t.life \in Nat /\ t.late \in Nat /\ t.late <= Delay /\ t.lives \in Nat
         /\ t.keeps \in Nat /\ t.account = Pinned /\ t.account \in Names
         /\ t.life \in Lives /\ t.lives <= t.life /\ t.keeps <= t.life
  <1>1. t \in OAuthTokens /\ t.lives <= t.life /\ t.keeps <= t.life
    BY DEF IsToken
  <1>2. /\ t.life \in Lives /\ t.late \in 0 .. Delay /\ t.lives \in Nat /\ t.keeps \in Nat
        /\ t.account = Pinned
    BY <1>1 DEF OAuthTokens
  <1>3. Lives \subseteq Nat /\ Delay \in Nat /\ Pinned \in Names
    BY OAuthAssumption
  <1>4. t.life \in Nat
    BY <1>2, <1>3
  <1>5. t.late \in Nat /\ t.late <= Delay
    BY <1>2, <1>3
  <1> QED BY <1>1, <1>2, <1>3, <1>4, <1>5

\* A token that was granted is timed, and has all of its life.
LEMMA GrantedFacts ==
  ASSUME NEW life \in Lives, NEW d \in 0 .. Delay
  PROVE  /\ IsToken(Granted(life, d)) /\ Timed(Granted(life, d))
         /\ Granted(life, d) # NoToken /\ Lasts(Granted(life, d), 0)
  <1>1. life \in Nat /\ d \in Nat /\ Margin \in Nat BY OAuthAssumption
  <1>2. Granted(life, d) \in
          OAuthTokens
        BY <1>1 DEF Granted, Less, OAuthTokens
  <1>3. Granted(life, d) # NoToken BY <1>2, OAuthAssumption
  <1> QED BY <1>1, <1>2, <1>3 DEF Granted, Less, IsToken, Timed, Lasts

\* A token that the client takes for good has more than the margin.
LEMMA UnexpiredLasts ==
  ASSUME NEW t, IsToken(t), t # NoToken, Timed(t), ~Expired(t)
  PROVE  Lasts(t, 0)
  BY TokenFields, OAuthAssumption DEF Timed, Expired, Lasts

\* A second later it has a second less.
LEMMA OlderFacts ==
  ASSUME NEW t, IsToken(t), t # NoToken
  PROVE  /\ IsToken(Older(t))
         /\ Timed(t) => Timed(Older(t))
         /\ \A w \in Nat : Lasts(t, w) => Lasts(Older(t), w + 1)
         /\ Older(t) # NoToken /\ Older(t).account = t.account
  <1>1. /\ t \in OAuthTokens
        /\ t.life \in Nat /\ t.late \in Nat /\ t.lives \in Nat /\ t.keeps \in Nat
        /\ t.lives <= t.life /\ t.keeps <= t.life
    BY TokenFields
  <1>2. /\ Less(t.lives, 1) \in Nat /\ Less(t.lives, 1) <= t.life
        /\ Less(t.keeps, 1) \in Nat /\ Less(t.keeps, 1) <= t.life
        /\ Less(t.lives, 1) + 1 >= t.lives
        /\ t.keeps > 0 => Less(t.keeps, 1) + 1 = t.keeps
        /\ t.keeps = 0 => Less(t.keeps, 1) = 0
    BY <1>1 DEF Less
  <1> DEFINE u == [t EXCEPT !.lives = Less(@, 1), !.keeps = Less(@, 1)]
  <1>3. /\ u \in OAuthTokens
        /\ u.life = t.life /\ u.late = t.late /\ u.account = t.account
        /\ u.lives = Less(t.lives, 1) /\ u.keeps = Less(t.keeps, 1)
    BY <1>1, <1>2 DEF OAuthTokens
  <1>4. Older(t) = u
    BY DEF Older
  <1> HIDE DEF u
  <1>5. IsToken(u)
    BY <1>1, <1>2, <1>3 DEF IsToken
  <1>6. Timed(t) => Timed(u)
    BY <1>1, <1>2, <1>3 DEF Timed
  <1>7. ASSUME NEW w \in Nat, Lasts(t, w)
        PROVE  Lasts(u, w + 1)
    BY <1>1, <1>2, <1>3, <1>7, OAuthAssumption DEF Lasts
  <1>8. u # NoToken
    BY <1>3, OAuthAssumption
  <1> QED BY <1>3, <1>4, <1>5, <1>6, <1>7, <1>8

LEMMA OlderToken ==
  ASSUME NEW t, IsToken(t), Timed(t)
  PROVE  IsToken(Older(t)) /\ Timed(Older(t))
  <1>1. CASE t = NoToken BY <1>1 DEF Older
  <1>2. CASE t # NoToken BY <1>2, OlderFacts
  <1> QED BY <1>1, <1>2

LEMMA OAuthBegins == OAuthInit => OAuthInv
  <1> SUFFICES ASSUME OAuthInit PROVE OAuthInv
    OBVIOUS
  <1>1. IsToken(cached) /\ IsToken(token) /\ Timed(cached)
    BY DEF OAuthInit, IsToken, Timed
  <1>2. spare \in 0 .. MaxRetries /\ pause \in Nat /\ waited \in Nat /\ Pinned \in Names
    BY OAuthAssumption DEF OAuthInit
  <1> QED BY <1>1, <1>2 DEF OAuthInit, OAuthInv, InHand, OAuthTypeOK, Stages, Purposes

\* Time passes for the session in the cache and for the one in hand.
LEMMA AgesInv ==
  ASSUME OAuthInv, Ages
  PROVE  /\ IsToken(cached') /\ Timed(cached') /\ IsToken(token')
         /\ InHand => /\ token' # NoToken /\ Lasts(token', waited + 1)
                      /\ token'.account = token.account
  <1>1. IsToken(cached') /\ Timed(cached')
    BY OlderToken DEF OAuthInv, OAuthTypeOK, Ages
  <1>2. CASE token = NoToken
    BY <1>1, <1>2 DEF Ages, Older, OAuthInv, OAuthTypeOK
  <1>3. CASE token # NoToken
    BY <1>1, <1>3, OlderFacts DEF Ages, OAuthInv, OAuthTypeOK
  <1> QED BY <1>2, <1>3

\* The steps of the followed task: it takes a session ...
LEMMA TakesInv ==
  ASSUME OAuthInv, Get \/ Refresh \/ LoggedIn \/ LoginFails \/ Prepare
  PROVE  OAuthInv'
  <1> USE DEF OAuthInv, OAuthTypeOK, InHand, Stages
  <1>1. CASE Get \/ Refresh
    <2>1. CASE stage' = "ready"
      <3>1. cached # NoToken /\ ~Expired(cached) /\ token' = cached /\ cached' = cached
        BY <1>1, <2>1 DEF Get, Refresh
      <3>2. Lasts(token', 0) /\ waited' = 0
        BY <1>1, <3>1, UnexpiredLasts DEF Get, Refresh
      <3> QED BY <1>1, <2>1, <3>1, <3>2 DEF Get, Refresh
    <2>2. CASE stage' # "ready"
      BY <1>1, <2>2 DEF Get, Refresh
    <2> QED BY <2>1, <2>2
  <1>2. CASE LoggedIn
    <2>1. PICK life \in Lives, d \in 0 .. Delay : cached' = Granted(life, d)
      BY <1>2 DEF LoggedIn
    <2>2. /\ IsToken(cached') /\ Timed(cached') /\ cached' # NoToken
          /\ Lasts(cached', 0) /\ waited' = 0
      BY <1>2, <2>1, GrantedFacts DEF LoggedIn
    <2> QED BY <1>2, <2>2 DEF LoggedIn
  <1>3. CASE LoginFails
    BY <1>3 DEF LoginFails, Replays, GivesUp
  <1>4. CASE Prepare
    <2>1. token.account \in Names
      BY <1>4, TokenFields DEF Prepare
    <2>2. spare' \in 0 .. MaxRetries
      BY <1>4, OAuthAssumption DEF Prepare, RetryBudget
    <2> QED BY <1>4, <2>1, <2>2 DEF Prepare, NamesAccount
  <1> QED BY <1>1, <1>2, <1>3, <1>4

\* ... and sends on it.
LEMMA SendsInv ==
  ASSUME OAuthInv,
         Dispatch \/ Served \/ Unauthorized \/ AttemptFails \/ RetryLater \/ Sleep
  PROVE  OAuthInv'
  <1> USE DEF OAuthInv, OAuthTypeOK, InHand, Stages
  <1>1. CASE Dispatch
    BY <1>1 DEF Dispatch
  <1>2. CASE Served \/ Unauthorized \/ AttemptFails
    <2>1. token' = NoToken /\ IsToken(token') /\ spare' \in 0 .. MaxRetries /\ waited' = 0
      BY <1>2, OAuthAssumption
      DEF Served, Unauthorized, AttemptFails, AttemptEnds, IsToken
    <2>2. stage' \in {"ok", "error", "forced"} /\ refused' \in BOOLEAN
      BY <1>2 DEF Served, Unauthorized, AttemptFails, Replays, GivesUp
    <2> QED BY <1>2, <2>1, <2>2 DEF Served, Unauthorized, AttemptFails, AttemptEnds
  <1>3. CASE RetryLater
    <2>1. spare' \in 0 .. MaxRetries /\ pause' \in Nat /\ pause' > 0
      BY <1>3, OAuthAssumption DEF RetryLater
    <2> QED BY <1>3, <2>1 DEF RetryLater
  <1>4. CASE Sleep
    <2>1. /\ IsToken(cached') /\ Timed(cached') /\ IsToken(token')
          /\ token' # NoToken /\ Lasts(token', waited + 1) /\ token'.account = token.account
      BY <1>4, AgesInv DEF Sleep
    <2>2. /\ pause' \in Nat /\ waited' \in Nat /\ waited' = waited + 1
          /\ stage' \in {"paced", "backoff"} /\ (stage' = "backoff" => pause' > 0)
      BY <1>4 DEF Sleep
    <2> QED BY <1>4, <2>1, <2>2 DEF Sleep
  <1> QED BY <1>1, <1>2, <1>3, <1>4

\* Other tasks, time, and the next call.
LEMMA OthersInv ==
  ASSUME OAuthInv, OthersStep \/ Want
  PROVE  OAuthInv'
  <1> USE DEF OAuthInv, OAuthTypeOK, InHand, Stages
  <1>1. CASE OthersLogin
    <2>1. PICK life \in Lives, d \in 0 .. Delay : cached' = Granted(life, d)
      BY <1>1 DEF OthersLogin
    <2>2. IsToken(cached') /\ Timed(cached')
      BY <2>1, GrantedFacts
    <2> QED BY <1>1, <2>2 DEF OthersLogin, Others
  <1>2. CASE OthersLogout
    BY <1>2 DEF OthersLogout, Others, IsToken, Timed
  <1>3. CASE OthersSwitch
    BY <1>3 DEF OthersSwitch, Others
  <1>4. CASE Elapse
    <2>1. /\ IsToken(cached') /\ Timed(cached') /\ IsToken(token')
          /\ InHand => /\ token' # NoToken /\ Lasts(token', waited + 1)
                       /\ token'.account = token.account
      BY <1>4, AgesInv DEF Elapse
    <2>2. /\ waited' \in Nat
          /\ InHand => waited' = waited + 1
          /\ ~InHand => waited' = waited
      BY <1>4 DEF Elapse
    <2> QED BY <1>4, <2>1, <2>2 DEF Elapse
  <1>5. CASE Want
    BY <1>5, OAuthAssumption DEF Want
  <1> QED BY <1>1, <1>2, <1>3, <1>4, <1>5 DEF OthersStep

\* Any step of the client, of other tasks, or of time.
LEMMA OAuthGoesOn == OAuthInv /\ [OAuthNext]_oas => OAuthInv'
  <1> SUFFICES ASSUME OAuthInv, [OAuthNext]_oas
               PROVE  OAuthInv'
      OBVIOUS
  <1>1. CASE UNCHANGED oas
        BY <1>1 DEF oas, OAuthInv, OAuthTypeOK, InHand, IsToken, Timed, Lasts
  <1> QED BY <1>1, TakesInv, SendsInv, OthersInv DEF OAuthNext, OAuthStep

\* What is left of the token of an attempt on the wire.
LEMMA OAuthImplies == OAuthInv => TokenServes
  <1> SUFFICES ASSUME OAuthInv, stage = "sent",
                      token.late + waited <= Margin + 1, token.late + waited < token.life
               PROVE  token.lives > 0
      BY DEF OAuthInv, TokenServes
  <1>1. /\ token # NoToken /\ IsToken(token) /\ Lasts(token, waited)
        /\ waited \in Nat /\ Margin \in Nat
        BY OAuthAssumption DEF OAuthInv, OAuthTypeOK, InHand
  <1>2. token.lives \in Nat /\ token.late \in Nat /\ token.life \in Nat
        BY <1>1, TokenFields
  <1> QED BY <1>1, <1>2 DEF Lasts

\* What the refresh margin is worth, in every attempt of a call on a v3 session: IG still
\* serves its token as long as the delay of the login and the time since the session was
\* read add up to no more than the margin and a second, and to less than the token's life;
\* and the account named is one in force while the call was made.  For every lifetime, delay,
\* backoff and number of retries, and with no bound on any of them.
THEOREM TokensServe == OAuthSpec => []TokenServes
  BY OAuthBegins, OAuthGoesOn, OAuthImplies, PTL DEF OAuthSpec

-----------------------------------------------------------------------------
(* The single operations, however often a request may be sent.             *)

OpsSpec == OpsInit /\ [][CallOperation \/ OpsStep]_ops

\* A request that may not be repeated has been sent once at most; IG has not done more
\* than it was asked.
OpsInv ==
  /\ calling \in {"idle", "send", "sent", "ok", "error"}
  /\ operation \in Operations
  /\ sends \in Nat /\ applied \in Nat /\ applied <= sends
  /\ calling = "send" /\ Policy(operation) = "SingleAttempt" => sends = 0
  /\ Policy(operation) = "SingleAttempt" => sends <= 1
  /\ calling = "sent" /\ reply = "success" => applied > 0
  /\ calling = "ok" /\ sends > 0 => applied > 0

\* The operations on the two order paths are the mutations of the order service.
LEMMA OrdersMutate ==
  ASSUME NEW o \in Operations, o.path \in {"positions/otc", "workingorders/otc"}
  PROVE  Mutation(o)
  <1>1. o \in OrderService
    <2> DEFINE others == MarketService \cup AccountService \cup WatchlistService
                         \cup SentimentService \cup CostsService \cup OperationsService
    <2>1. \A q \in others : q.path \in {"prices/", "watchlists", "other"}
          BY DEF MarketService, AccountService, WatchlistService, SentimentService,
             CostsService, OperationsService, MarketReads, PriceReads, CatalogReads,
             AccountReads, AccountSettings, Watchlists, Sentiment, Costs, Application, Requests
    <2>2. o \notin others BY <2>1
    <2> QED BY <2>2 DEF Operations
  <1> QED BY <1>1 DEF OrderService, OrderPlacement, PositionChanges, WorkingOrderChanges,
             Requests, Mutation

\* So they are sent once, and so are the mutations on an escaped path.
LEMMA OrdersOnce ==
  ASSUME NEW o \in Operations,
         o.path \in {"positions/otc", "workingorders/otc"} \/ (Mutation(o) /\ escaped)
  PROVE  Policy(o) = "SingleAttempt"
  BY OrdersMutate DEF Policy, Class

\* Whatever adds at IG is on one of the order paths, create_watchlist apart.
LEMMA AddingOrders ==
  ASSUME NEW o \in Operations, o.name \in Adding \ {"create_watchlist"}
  PROVE  o.path \in {"positions/otc", "workingorders/otc"}
  <1>1. o \in OrderService
    <2> DEFINE others == MarketService \cup AccountService \cup WatchlistService
                         \cup SentimentService \cup CostsService \cup OperationsService
    <2>1. \A q \in others :
            q.name \notin {"create_order", "close_position", "create_working_order"}
          BY DEF MarketService, AccountService, WatchlistService, SentimentService,
             CostsService, OperationsService, MarketReads, PriceReads, CatalogReads,
             AccountReads, AccountSettings, Watchlists, Sentiment, Costs, Application, Requests
    <2>2. o \notin others BY <2>1 DEF Adding
    <2> QED BY <2>2 DEF Operations
  <1> QED BY <1>1 DEF OrderService, OrderPlacement, PositionChanges, WorkingOrderChanges,
             Requests, Adding

\* Before a call nothing has been sent.
LEMMA OpsBegin == OpsInit => OpsInv
  <1> SUFFICES ASSUME OpsInit
               PROVE  OpsInv
      OBVIOUS
  <1>1. \E o \in Operations : o.name = "get_accounts"
    <2> DEFINE o == [name |-> "get_accounts", method |-> "GET", path |-> "other",
                     policy |-> "Standard"]
    <2>1. o \in AccountReads BY DEF AccountReads, Requests
    <2> QED BY <2>1 DEF Operations, AccountService
  <1>2. operation \in Operations
        BY <1>1 DEF OpsInit
  <1> QED BY <1>2 DEF OpsInit, OpsInv

\* A call and its steps.
LEMMA OpsStepInv ==
  ASSUME OpsInv, CallOperation \/ OpsStep
  PROVE  OpsInv'
  <1>1. CASE CallOperation
        BY <1>1 DEF CallOperation, OpsInv
  <1>2. CASE NotSent
        BY <1>2 DEF NotSent, OpsInv, Policy, Class, Mutation
  <1>3. CASE Exchange
        BY <1>3 DEF Exchange, OpsInv, Policy, Class, Mutation
  <1>4. CASE Repeat
    <2>1. Policy(operation) # "SingleAttempt" /\ Policy(operation)' = Policy(operation)
          BY <1>4 DEF Repeat, MayRepeat, Policy, Class, Mutation
    <2> QED BY <1>4, <2>1 DEF Repeat, OpsInv
  <1>5. CASE Return
        BY <1>5 DEF Return, OpsInv, Policy, Class, Mutation
  <1> QED BY <1>1, <1>2, <1>3, <1>4, <1>5 DEF OpsStep

\* Any step of a call.
LEMMA OpsGoOn == OpsInv /\ [CallOperation \/ OpsStep]_ops => OpsInv'
  <1> SUFFICES ASSUME OpsInv, [CallOperation \/ OpsStep]_ops
               PROVE  OpsInv'
      OBVIOUS
  <1>1. CASE UNCHANGED ops
        BY <1>1 DEF ops, OpsInv, Policy, Class, Mutation
  <1> QED BY <1>1, OpsStepInv

\* What is sent at most once is applied at most once.
LEMMA OpsImply == OpsInv => EffectsOnce
  <1> SUFFICES ASSUME OpsInv
               PROVE  EffectsOnce
      OBVIOUS
  <1>1. operation.path \in {"positions/otc", "workingorders/otc"} => applied <= 1
        BY OrdersOnce DEF OpsInv
  <1>2. operation.name \in Adding \ {"create_watchlist"} => applied <= 1
        BY <1>1, AddingOrders DEF OpsInv
  <1>3. escaped /\ Mutation(operation) => sends <= 1
        BY OrdersOnce DEF OpsInv
  <1> QED BY <1>1, <1>2, <1>3 DEF OpsInv, EffectsOnce

\* No call changes orders or positions twice, whatever answers are lost and however often
\* retries, rotation and the replay may repeat a request; only create_watchlist can add
\* twice, and what is reported done was done.
THEOREM AppliedOnce == OpsSpec => []EffectsOnce
  BY OpsBegin, OpsGoOn, OpsImply, PTL DEF OpsSpec

\* A request goes out again only while the bound lets it.
OpsTyped ==
  /\ OpsInv /\ OpsTypeOK
  /\ calling = "send" => sends < MaxSends

LEMMA OpsTypesBegin == OpsInit => OpsTyped
  <1> SUFFICES ASSUME OpsInit PROVE OpsTyped
    OBVIOUS
  <1>1. OpsInv
    BY OpsBegin
  <1>2. MaxSends \in Nat \ {0} /\ sends = 0 /\ applied = 0
    BY OperationsAssumption DEF OpsInit
  <1>3. sends \in 0 .. MaxSends /\ applied \in 0 .. sends
    BY <1>2
  <1> QED BY <1>1, <1>2, <1>3 DEF OpsInit, OpsInv, OpsTyped, OpsTypeOK

LEMMA OpsKeepTypes == OpsTyped /\ [CallOperation \/ OpsStep]_ops => OpsTyped'
  <1> SUFFICES ASSUME OpsTyped, [CallOperation \/ OpsStep]_ops
               PROVE  (OpsTypeOK /\ (calling = "send" => sends < MaxSends))'
    BY OpsGoOn DEF OpsTyped
  <1> USE OperationsAssumption DEF OpsTyped, OpsTypeOK
  <1>1. CASE UNCHANGED ops
    BY <1>1 DEF ops
  <1>2. CASE CallOperation
    <2>1. MaxSends \in Nat \ {0} /\ sends' = 0 /\ applied' = 0
      BY <1>2 DEF CallOperation
    <2>2. sends' \in 0 .. MaxSends /\ applied' \in 0 .. sends' /\ sends' < MaxSends
      BY <2>1
    <2>3. calling' \in {"send", "ok", "error"}
      BY <1>2 DEF CallOperation
    <2> QED BY <1>2, <2>2, <2>3 DEF CallOperation
  <1>3. CASE NotSent
    BY <1>3 DEF NotSent
  <1>4. CASE Exchange
    BY <1>4 DEF Exchange
  <1>5. CASE Repeat
    BY <1>5 DEF Repeat, MayRepeat
  <1>6. CASE Return
    BY <1>6 DEF Return
  <1> QED BY <1>1, <1>2, <1>3, <1>4, <1>5, <1>6 DEF OpsStep

-----------------------------------------------------------------------------
(* The converters of a streaming client.                                   *)

StreamerNext ==
  \/ StreamerCall \/ StreamerStep
  \/ \E t \in Tasks : ConverterStep(t) \/ Stopped(t)

StreamerSpec == StreamerInit /\ [][StreamerNext]_str

Tellings == [session : Nat, at : Places, receiver : BOOLEAN]

StreamerInv ==
  /\ pc \in {"idle", "opening", "subscribing", "connect", "join", "close", "dropped"}
  /\ client \in Nat /\ opened \in Nat /\ started \in 0 .. MaxTasks
  /\ task \in [Tasks -> Tellings]
  /\ alive \subseteq {client} \ {NoSession}
  /\ converter_tasks \subseteq Tasks /\ detached \subseteq Tasks
  /\ told \subseteq 1 .. started
  /\ pc \in {"opening", "subscribing"} => started < MaxTasks
  \* Who can stop a converter that runs, and who has been told to wait for it.
  /\ Running \subseteq converter_tasks \cup told
  /\ pc # "dropped" => Running \subseteq converter_tasks \cup detached
  /\ pc = "join" => Running \subseteq told
  /\ pc = "close" => Running \subseteq detached
  /\ client = NoSession => converter_tasks = {}
  /\ pc = "opening" => client = NoSession
  /\ \A t \in Running : task[t].session # NoSession
  \* Only the signal of a session that is given up stops a converter of it.
  /\ \A t \in Running : task[t].session # client => task[t].session \in left
  /\ \A t \in told : task[t].session \in left
  /\ \A t \in 1 .. started : task[t].at = "signal" => task[t].session \in left
  /\ pc = "join" /\ client # NoSession => client \in left

\* The client begins without a session.
LEMMA StreamerBegins == StreamerInit => StreamerInv
  BY StreamerAssumption
  DEF StreamerInit, StreamerInv, Tellings, Places, NoSession, Tasks, Running

\* A converter ends or goes on: none begins, and one that ends was told, or was not.
LEMMA ConverterInv ==
  ASSUME StreamerInv, NEW t \in Running, NEW place \in Places, NEW receiver \in BOOLEAN,
         task' = [task EXCEPT ![t].at = place, ![t].receiver = receiver],
         place = "signal" => t \in told,
         told' = told \/ (place \notin {"wait", "busy"} /\ told' = told \ {t}),
         UNCHANGED <<pc, session, watched, started, converter_tasks, detached, left>>
  PROVE  StreamerInv'
  <1>1. t \in 1 .. started /\ t \in Tasks
        BY StreamerAssumption DEF StreamerInv, Running, Tasks
  <1>2. /\ task' \in [Tasks -> Tellings]
        /\ \A u \in Tasks : task'[u].session = task[u].session
        /\ task'[t].at = place /\ \A u \in Tasks \ {t} : task'[u] = task[u]
        BY <1>1 DEF StreamerInv, Tellings
  <1>3. Running' \subseteq Running /\ (place \notin {"wait", "busy"} => t \notin Running')
        BY <1>1, <1>2, StreamerAssumption DEF StreamerInv, Running, Tasks
  <1>4. started \in 0 .. MaxTasks /\ 1 .. started \subseteq Tasks
        BY StreamerAssumption DEF StreamerInv, Tasks
  <1>5. \A u \in 1 .. started : task'[u].at = "signal" => task'[u].session \in left
    <2> TAKE u \in 1 .. started
    <2>1. CASE u = t BY <1>1, <1>2, <2>1 DEF StreamerInv
    <2>2. CASE u # t BY <1>2, <1>4, <2>2 DEF StreamerInv
    <2> QED BY <2>1, <2>2
  <1>6. Running \subseteq Tasks /\ (told' = told \/ told' = told \ {t})
        BY <1>4 DEF Running
  <1>7. /\ Running' \subseteq converter_tasks \cup told'
        /\ pc = "join" => Running' \subseteq told'
        BY <1>3 DEF StreamerInv
  <1>8. /\ \A u \in Running' : task'[u].session # client => task'[u].session \in left
        /\ \A u \in told' : task'[u].session \in left
        BY <1>2, <1>3, <1>4, <1>6 DEF StreamerInv
  <1>9. UNCHANGED <<pc, client, opened, alive, started, converter_tasks, detached, left>>
        BY DEF session
  <1>10. /\ pc # "dropped" => Running' \subseteq converter_tasks \cup detached
         /\ pc = "close" => Running' \subseteq detached
         /\ \A u \in Running' : task'[u].session # NoSession
        BY <1>2, <1>3, <1>6 DEF StreamerInv
  <1>11. told' \subseteq 1 .. started
        BY <1>6 DEF StreamerInv
  <1> QED BY <1>2, <1>5, <1>7, <1>8, <1>9, <1>10, <1>11 DEF StreamerInv

\* The steps of the converters, of their receivers and of IG.
LEMMA ConvertersInv ==
  ASSUME StreamerInv, NEW t \in Tasks,
         \/ DropReceiver(t) \/ Update(t) \/ Rejected(t) \/ ConverterStep(t) \/ Stopped(t)
  PROVE  StreamerInv'
  <1>1. t \in Running /\ task[t] \in Tellings
        /\ task[t].at \in Places /\ task[t].receiver \in BOOLEAN
        BY DEF StreamerInv, Tellings, DropReceiver, Update, Rejected, ConverterStep, Convert,
           StreamEnds, Stopped
  <1>2. \E place \in Places, receiver \in BOOLEAN :
          /\ task' = [task EXCEPT ![t].at = place, ![t].receiver = receiver]
          /\ place = "signal" => t \in told
          /\ told' = told \/ (place \notin {"wait", "busy"} /\ told' = told \ {t})
    <2>1. \A place \in Places :
            [task EXCEPT ![t].at = place] =
              [task EXCEPT ![t].at = place, ![t].receiver = task[t].receiver]
          BY <1>1 DEF StreamerInv, Tellings
    <2>2. CASE DropReceiver(t)
      <3>1. [task EXCEPT ![t].receiver = FALSE] =
              [task EXCEPT ![t].at = task[t].at, ![t].receiver = FALSE]
            BY <1>1 DEF StreamerInv, Tellings
      <3>2. task[t].at # "signal"
            BY <1>1 DEF Running
      <3> QED BY <1>1, <2>2, <3>1, <3>2 DEF DropReceiver
    <2>3. CASE Update(t)
          BY <1>1, <2>1, <2>3 DEF Update, Places
    <2>4. CASE Convert(t)
          BY <1>1, <2>1, <2>4 DEF Convert, Ended, Places
    <2>5. CASE StreamEnds(t) \/ Rejected(t)
          BY <1>1, <2>1, <2>5 DEF StreamEnds, Rejected, Ended, Places
    <2>6. CASE Stopped(t)
          BY <1>1, <2>1, <2>6 DEF Stopped, Ended, Places
    <2> QED BY <2>2, <2>3, <2>4, <2>5, <2>6 DEF ConverterStep
  <1>3. UNCHANGED <<pc, session, watched, started, converter_tasks, detached, left>>
        BY DEF DropReceiver, Update, Rejected, ConverterStep, Convert, StreamEnds, Stopped, Ended
  <1> QED BY <1>1, <1>2, <1>3, ConverterInv

\* The operations that open a session and subscribe, and connect.
LEMMA OpeningInv ==
  ASSUME StreamerInv,
         \/ Subscribe \/ SessionOpened \/ SubscribeFailed \/ Connect \/ Shutdown \/ Closed
         \/ SessionClosed \/ SessionDies
  PROVE  StreamerInv'
  <1>1. CASE SessionOpened
    <2>1. /\ client = NoSession /\ client' = opened + 1 /\ client' # NoSession
          /\ alive' = alive \cup {opened + 1} /\ opened' = opened + 1 /\ alive = {}
          /\ pc = "opening" /\ pc' = "subscribing"
          BY <1>1 DEF SessionOpened, StreamerInv, NoSession
    <2>2. UNCHANGED <<task, started, converter_tasks, told, detached, left>>
          BY <1>1 DEF SessionOpened, tasks
    <2>3. Running' = Running
          BY <2>2 DEF Running
    <2> QED BY <2>1, <2>2, <2>3 DEF StreamerInv, NoSession
  <1>2. CASE \/ Subscribe \/ SubscribeFailed \/ Connect \/ Shutdown \/ Closed
             \/ SessionClosed \/ SessionDies
        BY <1>2
        DEF Subscribe, SubscribeFailed, Connect, Shutdown, Closed, ConnectReturns, SessionClosed,
            SessionDies, StreamerInv, session, tasks, Running
  <1> QED BY <1>1, <1>2

\* A converter starts on the session of the client.
LEMMA SubscribedInv ==
  ASSUME StreamerInv, Subscribed
  PROVE  StreamerInv'
  <1> DEFINE t == started + 1
  <1>1. /\ pc = "subscribing" /\ pc' = "idle" /\ client # NoSession /\ client \in Nat
        /\ task' = [task EXCEPT ![t] = [session |-> client, at |-> "wait", receiver |-> TRUE]]
        /\ started' = t /\ converter_tasks' = converter_tasks \cup {t} /\ told' = told
        /\ UNCHANGED <<client, opened, alive, detached, left>>
        BY DEF Subscribed, HearingNew, session, StreamerInv
  <1>2. t \in Tasks /\ t \notin 1 .. started /\ 1 .. t = (1 .. started) \cup {t}
        /\ 1 .. started \subseteq Tasks /\ started' \in 0 .. MaxTasks
        /\ told \subseteq 1 .. started'
        BY <1>1, StreamerAssumption DEF StreamerInv, Tasks
  <1> HIDE DEF t
  <1>3. /\ task' \in [Tasks -> Tellings]
        /\ task'[t].session = client /\ task'[t].at = "wait"
        /\ \A u \in Tasks \ {t} : task'[u] = task[u]
        BY <1>1, <1>2 DEF StreamerInv, Tellings, Places
  <1>4. Running' = Running \cup {t} /\ Running \subseteq Tasks \ {t}
        BY <1>1, <1>2, <1>3 DEF Running
  <1>5. \A u \in told : task'[u].session \in left
    <2>1. t \notin told BY <1>2, <1>4 DEF StreamerInv
    <2> QED BY <1>2, <1>3, <2>1 DEF StreamerInv
  <1>6. \A u \in 1 .. t : task'[u].at = "signal" => task'[u].session \in left
        BY <1>2, <1>3 DEF StreamerInv
  <1>7. \A u \in Running' :
          /\ task'[u].session # client => task'[u].session \in left
          /\ task'[u].session # NoSession
        BY <1>1, <1>3, <1>4 DEF StreamerInv
  <1>8. /\ Running' \subseteq converter_tasks' \cup told'
        /\ Running' \subseteq converter_tasks' \cup detached'
        BY <1>1, <1>4 DEF StreamerInv
  <1> QED BY <1>1, <1>2, <1>3, <1>5, <1>6, <1>7, <1>8 DEF StreamerInv

\* The operations that give converters up.
LEMMA LeavingInv ==
  ASSUME StreamerInv, Disconnect \/ Joined \/ Cancel \/ DropClient
  PROVE  StreamerInv'
  <1>1. UNCHANGED <<task, started, opened>> /\ Running' = Running
        BY DEF Disconnect, Joined, Cancel, DropClient, session, tasks, Running
  <1>2. 1 .. started \subseteq Tasks /\ Running \subseteq 1 .. started
        BY StreamerAssumption DEF StreamerInv, Tasks, Running
  <1>3. CASE Disconnect
        BY <1>1, <1>2, <1>3 DEF Disconnect, Hearing, StreamerInv, session
  <1>4. CASE Joined
        BY <1>1, <1>2, <1>4 DEF Joined, StreamerInv, NoSession
  <1>5. CASE Cancel
        BY <1>1, <1>2, <1>5 DEF Cancel, StreamerInv, session
  <1>6. CASE DropClient
        BY <1>1, <1>2, <1>6 DEF DropClient, Hearing, StreamerInv, NoSession
  <1> QED BY <1>3, <1>4, <1>5, <1>6

\* Any step of the client or of its converters.
LEMMA StreamerGoesOn == StreamerInv /\ [StreamerNext]_str => StreamerInv'
  <1> SUFFICES ASSUME StreamerInv, [StreamerNext]_str
               PROVE  StreamerInv'
      OBVIOUS
  <1>1. CASE UNCHANGED str
        BY <1>1 DEF str, StreamerInv, Running
  <1> QED BY <1>1, ConvertersInv, OpeningInv, SubscribedInv, LeavingInv
          DEF StreamerNext, StreamerCall, StreamerStep

\* No converter outlives its client unnoticed: disconnects that are given up half way,
\* sessions that end and busy converters included, for any number of either.
THEOREM StayOwned == StreamerSpec => []ConvertersOwned
  <1>1. StreamerInv => ConvertersOwned
        BY DEF StreamerInv, ConvertersOwned
  <1> QED BY <1>1, StreamerBegins, StreamerGoesOn, PTL DEF StreamerSpec

\* Sessions and converters are numbered as they come, and a client speaks of its own session.
StreamerTyped ==
  /\ StreamerInv
  /\ client \in 0 .. opened /\ opened \in 0 .. MaxSessions
  /\ pc = "opening" => opened < MaxSessions
  /\ session_events \in {client, NoSession} /\ watched \in {client, NoSession}
  /\ watched # NoSession => pc = "connect"
  /\ task \in [Tasks -> [session : 0 .. opened, at : Places, receiver : BOOLEAN]]
  /\ converter_tasks \subseteq 1 .. started /\ detached \subseteq 1 .. started
  /\ told \subseteq Running
  /\ left \subseteq 1 .. opened

LEMMA StreamerTypesBegin == StreamerInit => StreamerTyped
  <1> SUFFICES ASSUME StreamerInit PROVE StreamerTyped
    OBVIOUS
  <1>1. MaxSessions \in Nat
    BY StreamerAssumption
  <1>2. StreamerInv
    BY StreamerBegins
  <1>3. client = 0 /\ opened = 0 /\ session_events = 0 /\ watched = 0 /\ pc = "idle"
    BY DEF StreamerInit, NoSession
  <1>4. task \in [Tasks -> [session : 0 .. opened, at : Places, receiver : BOOLEAN]]
    BY <1>3 DEF StreamerInit, NoSession, Places
  <1> QED BY <1>1, <1>2, <1>3, <1>4 DEF StreamerInit, StreamerTyped, NoSession

LEMMA StreamerKeepsTypes == StreamerTyped /\ [StreamerNext]_str => StreamerTyped'
  <1> SUFFICES ASSUME StreamerTyped, [StreamerNext]_str PROVE StreamerTyped'
    OBVIOUS
  <1>0. /\ StreamerInv' /\ MaxSessions \in Nat /\ MaxTasks \in Nat /\ opened \in Nat /\ client \in Nat
        /\ started \in 0 .. MaxTasks
    BY StreamerGoesOn, StreamerAssumption DEF StreamerTyped, StreamerInv
  <1> USE <1>0 DEF StreamerTyped, NoSession, session, tasks
  <1>1. CASE UNCHANGED str
    BY <1>1 DEF str, Running
  <1>2. CASE Subscribe
    BY <1>2 DEF Subscribe, Running
  <1>3. CASE SessionOpened
    <2>1. /\ client = 0 /\ opened < MaxSessions /\ watched = 0 /\ pc' = "subscribing"
          /\ opened' = opened + 1 /\ client' = opened + 1 /\ session_events' = opened + 1
      BY <1>3 DEF SessionOpened, StreamerInv
    <2>2. 0 .. opened \subseteq 0 .. opened' /\ 1 .. opened \subseteq 1 .. opened'
      BY <2>1
    <2>3. task' \in [Tasks -> [session : 0 .. opened', at : Places, receiver : BOOLEAN]]
      BY <1>3, <2>2 DEF SessionOpened
    <2> QED BY <1>3, <2>1, <2>2, <2>3 DEF SessionOpened, Running
  <1>4. CASE Subscribed
    <2> DEFINE t == started + 1
    <2>1. started < MaxTasks
      BY <1>4 DEF Subscribed, StreamerInv
    <2>2. t \in Tasks /\ started' = t /\ 1 .. started \subseteq 1 .. started'
      BY <1>4, <2>1 DEF Subscribed, Tasks
    <2>3. task' = [task EXCEPT ![t] = [session |-> client, at |-> "wait", receiver |-> TRUE]]
      BY <1>4 DEF Subscribed
    <2>4. task' \in [Tasks -> [session : 0 .. opened, at : Places, receiver : BOOLEAN]]
      BY <2>2, <2>3 DEF Places
    <2>5. told' = told
      BY <1>4 DEF Subscribed, HearingNew
    <2>6. \A u \in 1 .. started : u # t /\ u \in Tasks /\ task'[u] = task[u]
      BY <2>1, <2>3 DEF Tasks
    <2>7. told' \subseteq Running'
      BY <2>2, <2>5, <2>6 DEF Running
    <2> HIDE DEF t
    <2>8. t \in 1 .. started'
      BY <2>2 DEF t
    <2>9. converter_tasks' \subseteq 1 .. started' /\ detached' \subseteq 1 .. started'
      BY <1>4, <2>2, <2>8 DEF Subscribed, t
    <2>10. UNCHANGED <<client, session_events, opened, alive, watched, left>> /\ pc' = "idle" /\ pc # "connect"
      BY <1>4 DEF Subscribed
    <2> QED BY <2>4, <2>7, <2>9, <2>10
  <1>5. CASE SubscribeFailed
    BY <1>5 DEF SubscribeFailed, Running
  <1>6. CASE Connect
    BY <1>6 DEF Connect, Running
  <1>7. CASE Shutdown \/ Closed
    BY <1>7 DEF Shutdown, Closed, ConnectReturns, Running
  <1>8. CASE Disconnect
    <2>1. told' \subseteq Running'
      BY <1>8 DEF Disconnect, Hearing, Running
    <2>2. left' \subseteq 1 .. opened
      BY <1>8 DEF Disconnect
    <2> QED BY <1>8, <2>1, <2>2 DEF Disconnect
  <1>9. CASE Joined
    BY <1>9 DEF Joined, Running
  <1>10. CASE SessionClosed
    BY <1>10 DEF SessionClosed, Running
  <1>11. CASE Cancel
    BY <1>11 DEF Cancel, Running
  <1>12. CASE DropClient
    <2>1. told' \subseteq Running'
      BY <1>12 DEF DropClient, Hearing, Running
    <2>2. left' \subseteq 1 .. opened
      BY <1>12 DEF DropClient
    <2> QED BY <1>12, <2>1, <2>2 DEF DropClient
  <1>13. CASE SessionDies
    BY <1>13 DEF SessionDies, Running
  <1>14. ASSUME NEW t \in Running, NEW place \in Places, NEW receiver \in BOOLEAN,
                task' = [task EXCEPT ![t].at = place, ![t].receiver = receiver],
                told' \subseteq told, place \notin {"wait", "busy"} => t \notin told',
                UNCHANGED <<pc, session, watched, started, converter_tasks, detached, left>>
         PROVE  StreamerTyped'
    <2>1. t \in Tasks
      BY <1>14 DEF Running, Tasks
    <2>2. task' \in [Tasks -> [session : 0 .. opened, at : Places, receiver : BOOLEAN]]
      BY <1>14, <2>1
    <2>3. \A u \in told' : u \in 1 .. started /\ u \in Tasks /\ task[u].at \in {"wait", "busy"}
      BY <1>14 DEF Running, Tasks
    <2>4. \A u \in Tasks : u # t => task'[u].at = task[u].at
      BY <1>14, <2>1
    <2>5. task'[t].at = place
      BY <1>14, <2>1
    <2>6. told' \subseteq Running'
      BY <1>14, <2>3, <2>4, <2>5 DEF Running
    <2> QED BY <1>14, <2>2, <2>6
  <1> HIDE DEF StreamerTyped
  <1>15. ASSUME NEW t \in Tasks, DropReceiver(t) \/ Update(t) \/ Rejected(t) \/ ConverterStep(t) \/ Stopped(t)
         PROVE  StreamerTyped'
    <2>0. task \in [Tasks -> [session : 0 .. opened, at : Places, receiver : BOOLEAN]]
      BY DEF StreamerTyped
    <2>1. CASE DropReceiver(t)
      <3>1. task' = [task EXCEPT ![t].at = task[t].at, ![t].receiver = FALSE]
        BY <2>0, <2>1 DEF DropReceiver
      <3>2. t \in Running /\ task[t].at \in Places /\ task[t].at \in {"wait", "busy"}
        BY <2>0, <2>1 DEF DropReceiver, Running
      <3> QED BY <1>14, <2>1, <3>1, <3>2 DEF DropReceiver
    <2>2. CASE Update(t)
      <3>1. task' = [task EXCEPT ![t].at = "busy", ![t].receiver = task[t].receiver]
        BY <2>0, <2>2 DEF Update
      <3> QED BY <1>14, <2>0, <2>2, <3>1 DEF Update, Places
    <2>3. ASSUME NEW why \in {"stream", "signal", "receiver"}, t \in Running, Ended(t, why)
          PROVE  StreamerTyped'
      <3>1. task' = [task EXCEPT ![t].at = why, ![t].receiver = task[t].receiver]
        BY <2>0, <2>3 DEF Ended
      <3>2. told' \subseteq told /\ t \notin told'
        BY <2>3 DEF Ended
      <3> QED BY <1>14, <2>0, <2>3, <3>1, <3>2 DEF Ended, Places
    <2>4. CASE Convert(t) /\ task[t].receiver
      <3>1. task' = [task EXCEPT ![t].at = "wait", ![t].receiver = task[t].receiver] \/ Ended(t, "receiver")
        BY <2>0, <2>4 DEF Convert
      <3> QED BY <1>14, <2>0, <2>3, <2>4, <3>1 DEF Convert, Places
    <2>5. CASE Convert(t) /\ ~task[t].receiver
      BY <2>3, <2>5 DEF Convert
    <2> QED BY <1>15, <2>1, <2>2, <2>3, <2>4, <2>5 DEF Rejected, Stopped, StreamEnds, ConverterStep
  <1> QED BY <1>1, <1>2, <1>3, <1>4, <1>5, <1>6, <1>7, <1>8, <1>9, <1>10, <1>11, <1>12, <1>13, <1>15
       DEF StreamerNext, StreamerCall, StreamerStep

LEMMA StreamerTypesHold == StreamerTyped => StreamerTypeOK
  <1> SUFFICES ASSUME StreamerTyped PROVE StreamerTypeOK
    OBVIOUS
  <1>1. 0 .. opened \subseteq Sessions \cup {NoSession} /\ client \in Sessions \cup {NoSession}
    BY StreamerAssumption DEF StreamerTyped, Sessions, NoSession
  <1>2. task \in [Tasks -> [session : Sessions \cup {NoSession}, at : Places, receiver : BOOLEAN]]
    BY <1>1 DEF StreamerTyped
  <1> QED BY <1>1, <1>2 DEF StreamerTyped, StreamerInv, StreamerTypeOK

-----------------------------------------------------------------------------
(* What the powers of two need: they are the numbers of subsets.            *)

\* Each subset of 1 .. n is one of 1 .. n + 1, alone and with n + 1.
LEMMA PowerDoubles ==
  ASSUME NEW n \in Nat
  PROVE  2 ^ n \in Nat /\ 2 ^ (n + 1) = 2 * 2 ^ n
  <1> DEFINE A == SUBSET (1 .. n)
             B == SUBSET (1 .. n + 1)
             C == B \ A
             f == [T \in A |-> T \cup {n + 1}]
  <1>1. /\ IsFiniteSet(1 .. n) /\ Cardinality(1 .. n) = n
        /\ IsFiniteSet(1 .. n + 1) /\ Cardinality(1 .. n + 1) = n + 1
    BY FS_Interval
  <1>2. IsFiniteSet(A) /\ Cardinality(A) = 2 ^ n
    BY <1>1, FS_SUBSET
  <1>3. IsFiniteSet(B) /\ Cardinality(B) = 2 ^ (n + 1)
    BY <1>1, FS_SUBSET
  <1>4. ExistsBijection(A, C)
    <2>1. ASSUME NEW T \in A, NEW U \in A, f[T] = f[U] PROVE T = U
      <3>1. n + 1 \notin T /\ n + 1 \notin U
        OBVIOUS
      <3>2. T \cup {n + 1} = U \cup {n + 1}
        BY <2>1
      <3> QED BY <3>1, <3>2
    <2>2. ASSUME NEW T \in C PROVE \E U \in A : f[U] = T
      <3>1. T \ {n + 1} \in A /\ (T \ {n + 1}) \cup {n + 1} = T
        OBVIOUS
      <3> QED BY <3>1
    <2>3. f \in [A -> C]
      OBVIOUS
    <2> QED BY <2>1, <2>2, <2>3 DEF ExistsBijection, Bijection, Injection, IsInjective, Surjection
  <1>5. IsFiniteSet(C) /\ Cardinality(C) = Cardinality(A)
    BY <1>2, <1>4, FS_Bijection
  <1>6. A \cup C = B /\ A \cap C = {}
    OBVIOUS
  <1> HIDE DEF A, B, C
  <1>7. Cardinality(B) = Cardinality(A) + Cardinality(C) - Cardinality({})
    BY <1>2, <1>5, <1>6, FS_Union
  <1>8. Cardinality(A) \in Nat /\ Cardinality({}) = 0
    BY <1>2, FS_CardinalityType, FS_EmptySet
  <1> QED BY <1>2, <1>3, <1>5, <1>7, <1>8

\* A power of two is a positive number, and no smaller for a larger exponent.
LEMMA PowersGrow ==
  /\ \A n \in Nat : 2 ^ n \in Nat \ {0}
  /\ \A m \in Nat, k \in Nat : 2 ^ m <= 2 ^ (m + k)
  <1>1. \A n \in Nat : 2 ^ n \in Nat
    BY PowerDoubles
  <1>2. \A n \in Nat : 2 ^ n \in Nat \ {0}
    <2> DEFINE S == {n \in Nat : 2 ^ n \in Nat \ {0}}
    <2>1. 0 \in S
      OBVIOUS
    <2>2. ASSUME NEW n \in S PROVE n + 1 \in S
      <3>1. n \in Nat /\ 2 ^ n \in Nat \ {0}
        OBVIOUS
      <3>2. 2 ^ (n + 1) = 2 * 2 ^ n
        BY <3>1, PowerDoubles
      <3>3. 2 ^ (n + 1) \in Nat \ {0}
        BY <3>1, <3>2
      <3> QED BY <3>1, <3>3
    <2> HIDE DEF S
    <2>3. S \in SUBSET Nat
      BY DEF S
    <2>4. S = Nat
      BY <2>1, <2>2, <2>3, FromZeroOn
    <2> QED BY <2>4 DEF S
  <1>3. ASSUME NEW m \in Nat PROVE \A k \in Nat : 2 ^ m <= 2 ^ (m + k)
    <2> DEFINE S == {k \in Nat : 2 ^ m <= 2 ^ (m + k)}
    <2>1. 0 \in S
      <3>1. m + 0 = m
        OBVIOUS
      <3>2. 2 ^ m \in Nat
        BY <1>1
      <3> QED BY <3>1, <3>2
    <2>2. ASSUME NEW k \in S PROVE k + 1 \in S
      <3>1. k \in Nat /\ 2 ^ m <= 2 ^ (m + k)
        OBVIOUS
      <3>2. m + k \in Nat /\ m + (k + 1) = (m + k) + 1
        BY <3>1
      <3>3. 2 ^ ((m + k) + 1) = 2 * 2 ^ (m + k)
        BY <3>2, PowerDoubles
      <3>4. 2 ^ m \in Nat /\ 2 ^ (m + k) \in Nat
        BY <1>1, <3>2
      <3>5. 2 ^ m <= 2 ^ (m + (k + 1))
        BY <3>1, <3>2, <3>3, <3>4
      <3> QED BY <3>1, <3>5
    <2> HIDE DEF S
    <2>3. S \in SUBSET Nat
      BY DEF S
    <2>4. S = Nat
      BY <2>1, <2>2, <2>3, FromZeroOn
    <2> QED BY <2>4 DEF S
  <1> QED BY <1>2, <1>3

-----------------------------------------------------------------------------
(* The confirmation of a deal.                                              *)

ConfirmNext == Confirm \/ ConfirmStep

ConfirmSpec == ConfirmInit /\ [][ConfirmNext]_cnf

Planned(n) == Least(base * 2 ^ n, Cap)

ConfirmInv ==
  /\ ConfirmTypeOK
  /\ ConfirmPolls
  /\ confirming = "poll" => polls = attempt
  /\ confirming = "sleep" => polls = attempt + 1 /\ attempt < retries /\ attempt + 1 < 2 ^ AttemptWidth
  /\ confirming = "poll" => attempt <= retries

LEMMA WidthFacts ==
  /\ Largest \in Nat \ {0} /\ Cap \in Nat /\ Cap <= Largest
  /\ 2 ^ AttemptWidth \in Nat \ {0} /\ 2 ^ Width = Largest + 1
  /\ \A d \in Delays : d \in Nat /\ d <= Largest
  /\ \A l \in Limits : l \in Nat
  <1>1. 2 ^ Width \in Nat \ {0} /\ 2 ^ AttemptWidth \in Nat \ {0}
    BY PowersGrow, ConfirmationAssumption
  <1>2. 2 ^ Width > 1
    <2>1. Width - 1 \in Nat /\ (Width - 1) + 1 = Width
      BY ConfirmationAssumption
    <2>2. 2 ^ (Width - 1) \in Nat \ {0} /\ 2 ^ ((Width - 1) + 1) = 2 * 2 ^ (Width - 1)
      BY <2>1, PowersGrow, PowerDoubles
    <2>3. 2 ^ Width = 2 * 2 ^ (Width - 1)
      BY <2>1, <2>2
    <2> QED BY <2>2, <2>3
  <1> QED BY <1>1, <1>2, ConfirmationAssumption DEF Largest

\* The doubled delay is the planned one, however far the shift.
LEMMA ScaledAsPlanned ==
  ASSUME base \in Nat, base <= Largest, NEW n \in Nat
  PROVE  Scaled(n) = Planned(n) /\ Planned(n) \in 0 .. Cap
  <1>1. 2 ^ n \in Nat \ {0}
    BY PowersGrow
  <1> DEFINE p == 2 ^ n
  <1>2. base * p \in Nat
    BY <1>1
  <1>3. CASE n < Width
    <2>1. Factor(n) = p
      BY <1>3 DEF Factor
    <2> HIDE DEF p
    <2>2. Scaled(n) = Least(Least(base * p, Largest), Cap)
      BY <2>1 DEF Scaled
    <2>3. Planned(n) = Least(base * p, Cap)
      BY DEF Planned, p
    <2> QED BY <1>2, <2>2, <2>3, WidthFacts DEF Least
  <1>4. CASE ~(n < Width)
    <2>1. Factor(n) = Largest
      BY <1>4 DEF Factor
    <2>2. p >= Largest
      <3>1. Width \in Nat /\ n - Width \in Nat /\ Width + (n - Width) = n
        BY <1>4, ConfirmationAssumption
      <3>2. 2 ^ Width <= 2 ^ (Width + (n - Width))
        BY <3>1, PowersGrow
      <3> QED BY <1>1, <3>1, <3>2, WidthFacts
    <2> HIDE DEF p
    <2>3. Scaled(n) = Least(Least(base * Largest, Largest), Cap)
      BY <2>1 DEF Scaled
    <2>4. Planned(n) = Least(base * p, Cap)
      BY DEF Planned, p
    <2>5. CASE base = 0
      <3>1. base * p = 0 /\ base * Largest = 0
        BY <1>1, <2>5, WidthFacts DEF p
      <3> QED BY <2>3, <2>4, <3>1, WidthFacts DEF Least
    <2>6. CASE base > 0
      <3>1. base * p >= p /\ base * Largest >= Largest /\ base * Largest \in Nat
        <4>1. \A a, b \in Nat : a > 0 => a * b >= b /\ a * b \in Nat
          OBVIOUS
        <4>2. p \in Nat /\ Largest \in Nat
          BY <1>1, WidthFacts DEF p
        <4> QED BY <2>6, <4>1, <4>2
      <3>2. p \in Nat
        BY <1>1 DEF p
      <3> QED BY <1>2, <2>2, <2>3, <2>4, <3>1, <3>2, WidthFacts DEF Least
    <2> QED BY <2>5, <2>6
  <1> QED BY <1>3, <1>4

\* A pause is the planned one and up to a quarter more; nothing overflows.
LEMMA BackoffAsPlanned ==
  ASSUME base \in Nat, base <= Largest, NEW n \in Nat, NEW w \in Backoff(n)
  PROVE  w \in Planned(n) .. Planned(n) + Planned(n) \div 4 /\ w \in 0 .. Largest
  <1>1. Scaled(n) = Planned(n) /\ Planned(n) \in 0 .. Cap
    BY ScaledAsPlanned
  <1> DEFINE q == Planned(n)
  <1>2. PICK jitter \in 0 .. q \div 4 : w = Least(q + jitter, Largest)
    BY <1>1 DEF Backoff
  <1>3. q \in Nat /\ q <= Largest /\ Largest \in Nat
    BY <1>1, WidthFacts
  <1> HIDE DEF q
  <1>4. q \div 4 \in Nat /\ jitter \in Nat /\ jitter <= q \div 4
    BY <1>2, <1>3
  <1>5. w = IF q + jitter < Largest THEN q + jitter ELSE Largest
    BY <1>2 DEF Least
  <1>6. w \in q .. q + q \div 4 /\ w \in 0 .. Largest
    BY <1>3, <1>4, <1>5
  <1> QED BY <1>6 DEF q

LEMMA ConfirmBegins == ConfirmInit => ConfirmInv
  BY WidthFacts DEF ConfirmInit, ConfirmInv, ConfirmTypeOK, ConfirmPolls

LEMMA ConfirmGoesOn == ConfirmInv /\ [ConfirmNext]_cnf => ConfirmInv'
  <1> SUFFICES ASSUME ConfirmInv, [ConfirmNext]_cnf
               PROVE  ConfirmInv'
    OBVIOUS
  <1> DEFINE top == 2 ^ AttemptWidth
  <1>a. top \in Nat \ {0} /\ Largest \in Nat
    BY WidthFacts
  <1>b. attempt \in Nat /\ attempt < top /\ retries \in Nat /\ base \in Nat /\ base <= Largest
    BY <1>a, WidthFacts DEF ConfirmInv, ConfirmTypeOK
  <1>c. 0 \in 0 .. 2 ^ AttemptWidth - 1 /\ 0 \in 0 .. Largest
    BY <1>a
  <1>1. CASE Confirm
    BY <1>1, <1>c, WidthFacts DEF Confirm, ConfirmInv, ConfirmTypeOK, ConfirmPolls
  <1>2. CASE Confirmed
    BY <1>2, <1>b DEF Confirmed, ConfirmInv, ConfirmTypeOK, ConfirmPolls
  <1>3. CASE GaveUp
    <2>1. PICK error \in Errors :
            /\ ~Transient(error) \/ attempt >= retries \/ attempt + 1 >= top
            /\ answer' = error
      BY <1>3 DEF GaveUp
    <2>2. /\ confirming = "poll" /\ confirming' = "error" /\ polls' = polls + 1
          /\ UNCHANGED <<base, retries, attempt, wait>>
      BY <1>3 DEF GaveUp
    <2>3. polls = attempt /\ attempt <= retries
      BY <2>2 DEF ConfirmInv
    <2>4. attempt >= retries \/ attempt + 1 >= top => attempt + 1 = Least(retries + 1, top)
      <3> HIDE DEF top
      <3> QED BY <1>a, <1>b, <2>3 DEF Least
    <2>5. Transient(answer)' => polls' = Least(retries' + 1, top)
      BY <2>1, <2>2, <2>3, <2>4 DEF Transient
    <2>6. ConfirmTypeOK'
      BY <1>b, <2>1, <2>2, <2>3 DEF ConfirmInv, ConfirmTypeOK
    <2> QED BY <2>2, <2>5, <2>6 DEF ConfirmInv, ConfirmPolls
  <1>4. CASE PollAgain
    <2>1. /\ Transient(answer') /\ answer' \in Errors
          /\ attempt < retries /\ attempt + 1 < top
          /\ confirming = "poll" /\ confirming' = "sleep" /\ polls' = polls + 1
          /\ wait' \in Backoff(attempt)
          /\ UNCHANGED <<base, retries, attempt>>
      BY <1>4 DEF PollAgain
    <2>2. polls = attempt
      BY <2>1 DEF ConfirmInv
    <2>3. /\ wait' \in Planned(attempt) .. Planned(attempt) + Planned(attempt) \div 4
          /\ wait' \in 0 .. Largest
      BY <1>b, <2>1, BackoffAsPlanned
    <2>4. polls' - 1 = attempt /\ polls' = attempt + 1
      BY <1>b, <2>1, <2>2
    <2>5. Planned(attempt) = Least(base' * 2 ^ (polls' - 1), Cap)
      BY <2>1, <2>4 DEF Planned
    <2>6. LET planned == Least(base' * 2 ^ (polls' - 1), Cap) IN
            wait' \in planned .. planned + planned \div 4
      BY <2>3, <2>5
    <2>7. ConfirmTypeOK'
      BY <1>b, <2>1, <2>3, <2>4 DEF ConfirmInv, ConfirmTypeOK
    <2>8. ConfirmPolls'
      BY <2>1, <2>6 DEF ConfirmPolls, Transient
    <2> QED BY <2>1, <2>4, <2>7, <2>8 DEF ConfirmInv
  <1>5. CASE Wake
    <2>1. /\ confirming = "sleep" /\ confirming' = "poll" /\ attempt' = attempt + 1
          /\ UNCHANGED <<base, retries, polls, answer, wait>>
      BY <1>5 DEF Wake
    <2>2. polls = attempt + 1 /\ attempt < retries /\ attempt + 1 < top
      BY <2>1 DEF ConfirmInv
    <2>3. attempt' \in 0 .. 2 ^ AttemptWidth - 1 /\ attempt' <= retries
      <3> HIDE DEF top
      <3>1. attempt' \in 0 .. top - 1 /\ attempt' <= retries
        BY <1>a, <1>b, <2>1, <2>2
      <3> QED BY <3>1 DEF top
    <2>4. Transient(answer)
      BY <1>b, <2>1, <2>2 DEF ConfirmInv, ConfirmPolls
    <2>5. ConfirmTypeOK'
      BY <2>1, <2>3 DEF ConfirmInv, ConfirmTypeOK
    <2>6. ConfirmPolls'
      BY <2>1, <2>4 DEF ConfirmPolls, Transient
    <2> QED BY <2>1, <2>2, <2>3, <2>5, <2>6 DEF ConfirmInv
  <1>6. CASE UNCHANGED cnf
    BY <1>6 DEF cnf, ConfirmInv, ConfirmTypeOK, ConfirmPolls, Transient
  <1> QED BY <1>1, <1>2, <1>3, <1>4, <1>5, <1>6 DEF ConfirmNext, ConfirmStep

\* A call polls as often as it may and no more, and the pauses double up to the cap without
\* overflow; for any width of the milliseconds and of the counter, any delay and any limit.
THEOREM DealsAreConfirmed == ConfirmSpec => []ConfirmPolls
  <1>1. ConfirmInv => ConfirmPolls
    BY DEF ConfirmInv
  <1> QED BY <1>1, ConfirmBegins, ConfirmGoesOn, PTL DEF ConfirmSpec

-----------------------------------------------------------------------------
(* The pace of the requests of one class.                                   *)

PacingNext == NewLimiter \/ PacingStep

PacingSpec == PacingInit /\ [][PacingNext]_pac

Interval == Bucket[followed].interval
Allowed == Bucket[followed].burst

\* The bucket has counted every request since any moment, and is never ahead of the clock by
\* more than a burst and one.
PacingInv ==
  /\ PacingTypeOK
  /\ (\A class \in RateClasses : tat[class] = 0) => admitted[0] = 0
  /\ tat[followed] <= now + Interval * Allowed + Interval
  /\ \A a \in 0 .. now : Sent(a, now) > 0 => tat[followed] >= a + Sent(a, now) * Interval
  /\ \A a \in 0 .. now : \A b \in a .. now :
       Sent(a, b) > 0 => Sent(a, b) * Interval <= (b - a) + (Interval * Allowed + Interval)

\* Rounded up, an interval is long enough for the requests of a period.
LEMMA RoundedUp ==
  ASSUME NEW p \in Nat, NEW m \in Nat \ {0}
  PROVE  (p + m - 1) \div m \in Nat /\ ((p + m - 1) \div m) * m >= p
  <1> DEFINE x == p + m - 1
             q == x \div m
             r == x % m
  <1>1. x \in Nat
    OBVIOUS
  <1>2. q \in Nat /\ r \in Nat /\ r < m /\ x = m * q + r
    <2> HIDE DEF x
    <2> QED BY <1>1
  <1>3. m * q \in Nat /\ q * m = m * q
    BY ONLY <1>2, m \in Nat \ {0}
  <1>4. m * q >= p
    <2> DEFINE y == m * q
    <2> HIDE DEF y, q, r
    <2>1. x = y + r
      BY <1>2 DEF y
    <2> QED BY <1>2, <1>3, <2>1 DEF y
  <1> QED BY <1>2, <1>3, <1>4

\* Where the rate divides the second the interval is exact.
LEMMA DividedExactly ==
  ASSUME NEW s \in Nat \ {0}, NEW m \in Nat \ {0}, s % m = 0
  PROVE  s \div m \in Nat /\ (s \div m) * m = s /\ s \div m >= 1
  <1> DEFINE q == s \div m
  <1>1. q \in Nat /\ s = m * q + (s % m)
    OBVIOUS
  <1>2. s = m * q
    BY <1>1
  <1>3. q # 0
    BY <1>2
  <1>4. q * m = m * q
    BY <1>1
  <1> QED BY <1>1, <1>2, <1>3, <1>4

\* A bucket has an interval and a burst.
LEMMA BucketTypes ==
  budget \in Budgets => \A class \in RateClasses : /\ Bucket[class].interval \in Nat \ {0}
                                                 /\ Bucket[class].burst \in Nat
  <1> SUFFICES ASSUME budget \in Budgets, NEW class \in RateClasses
               PROVE  Bucket[class].interval \in Nat \ {0} /\ Bucket[class].burst \in Nat
    OBVIOUS
  <1>1. \A n \in Int : AtLeast(n, 1) \in Nat \ {0}
    BY DEF AtLeast
  <1>2. \A n \in Nat : Burst(n) \in Nat
    BY PacingAssumption DEF Burst
  <1>3. budget.max_requests \in Nat /\ budget.period_seconds \in Nat /\ budget.burst_size \in Nat
    BY PacingAssumption
  <1>4. CASE class = "NonTrading"
    <2> DEFINE m == AtLeast(budget.max_requests, 1)
    <2>1. m \in Nat \ {0}
      BY <1>1, <1>3
    <2>2. Period \in Nat
      BY <1>3, PacingAssumption DEF Period
    <2>3. (Period + m - 1) \div m \in Nat
      <3> HIDE DEF m
      <3> QED BY <2>1, <2>2, RoundedUp
    <2>4. ReplenishPeriod \in Nat \ {0}
      BY <1>1, <2>3 DEF ReplenishPeriod
    <2>5. Bucket[class] = [interval |-> ReplenishPeriod, burst |-> Burst(budget.burst_size)]
      BY <1>4 DEF Bucket
    <2> QED BY <1>2, <1>3, <2>4, <2>5
  <1>5. CASE class # "NonTrading"
    <2>1. AtLeast(FixedRate, 1) = FixedRate
      BY PacingAssumption DEF AtLeast
    <2>2. Second \div FixedRate \in Nat
      BY DividedExactly, PacingAssumption
    <2>3. PerSecondPeriod(FixedRate) \in Nat \ {0}
      BY <1>1, <2>1, <2>2 DEF PerSecondPeriod
    <2>4. Bucket[class] = [interval |-> PerSecondPeriod(FixedRate), burst |-> Burst(FixedBurst)]
      BY <1>5 DEF Bucket
    <2> QED BY <1>2, <2>3, <2>4, PacingAssumption
  <1> QED BY <1>4, <1>5

\* What a bucket makes of a budget keeps the promise.
LEMMA BucketKeeps ==
  ASSUME budget \in Budgets, followed \in RateClasses
  PROVE  /\ Interval \in Nat \ {0} /\ Allowed \in Nat
         /\ Promised.burst = Allowed /\ Promised.period \in Nat /\ Promised.requests \in Nat
         /\ Promised.period <= Interval * Promised.requests
  <1>1. CASE followed = "NonTrading"
    <2> DEFINE m == AtLeast(budget.max_requests, 1)
               q == (Period + m - 1) \div m
    <2>1. budget.max_requests \in Nat /\ budget.period_seconds \in Nat /\ budget.burst_size \in Nat
      BY PacingAssumption
    <2>2. m \in Nat \ {0}
      BY <2>1 DEF AtLeast
    <2>3. Period \in Nat
      BY <2>1, PacingAssumption DEF Period
    <2>4. q \in Nat /\ q * m >= Period
      <3> HIDE DEF m
      <3> QED BY <2>2, <2>3, RoundedUp
    <2>5. Interval = AtLeast(q, 1) /\ Allowed = Burst(budget.burst_size)
      BY <1>1 DEF Interval, Allowed, Bucket, ReplenishPeriod
    <2>6. /\ Promised.burst = Burst(budget.burst_size) /\ Promised.period = Period
          /\ Promised.requests = m
      BY <1>1 DEF Promised
    <2>7. Burst(budget.burst_size) \in Nat
      BY <2>1, PacingAssumption DEF Burst
    <2>8. Interval \in Nat \ {0} /\ Interval >= q
      <3> HIDE DEF q
      <3> QED BY <2>4, <2>5 DEF AtLeast
    <2>9. Interval * m >= q * m
      <3> HIDE DEF q, m
      <3> QED BY ONLY <2>2, <2>4, <2>8
    <2>10. Interval * m \in Nat /\ q * m \in Nat
      <3> HIDE DEF q, m
      <3> QED BY ONLY <2>2, <2>4, <2>8
    <2> HIDE DEF q, m
    <2> QED BY <2>2, <2>3, <2>4, <2>5, <2>6, <2>7, <2>8, <2>9, <2>10
  <1>2. CASE followed # "NonTrading"
    <2> DEFINE q == Second \div FixedRate
    <2>1. q \in Nat /\ q * FixedRate = Second /\ q >= 1
      BY DividedExactly, PacingAssumption
    <2>2. Interval = PerSecondPeriod(FixedRate) /\ Allowed = Burst(FixedBurst)
      BY <1>2 DEF Interval, Allowed, Bucket
    <2>3. AtLeast(FixedRate, 1) = FixedRate
      BY PacingAssumption DEF AtLeast
    <2>4. Interval = q
      <3>1. Interval = AtLeast(q, 1)
        BY <2>2, <2>3 DEF PerSecondPeriod
      <3> HIDE DEF q
      <3> QED BY <2>1, <3>1 DEF AtLeast
    <2>5. Allowed = FixedBurst /\ FixedBurst \in Nat
      BY <2>2, PacingAssumption DEF Burst
    <2>6. /\ Promised.burst = FixedBurst /\ Promised.period = Second
          /\ Promised.requests = FixedRate
      BY <1>2 DEF Promised
    <2>7. Second \in Nat /\ FixedRate \in Nat
      BY PacingAssumption
    <2> HIDE DEF q
    <2> QED BY <2>1, <2>4, <2>5, <2>6, <2>7
  <1> QED BY <1>1, <1>2

\* More requests than a burst and one are within the rate.
LEMMA WithinRate ==
  ASSUME NEW beyond \in Nat, NEW interval \in Nat, NEW period \in Nat, NEW requests \in Nat,
         NEW length \in Nat, beyond * interval <= length, period <= interval * requests
  PROVE  beyond * period <= length * requests
  <1>1. beyond * period <= beyond * (interval * requests)
    <2> DEFINE ir == interval * requests
    <2>1. ir \in Nat
      OBVIOUS
    <2> HIDE DEF ir
    <2>2. period <= ir
      BY DEF ir
    <2>3. beyond * period <= beyond * ir
      BY ONLY <2>1, <2>2, beyond \in Nat, period \in Nat
    <2> QED BY <2>3 DEF ir
  <1>2. beyond * (interval * requests) = (beyond * interval) * requests
    OBVIOUS
  <1>3. (beyond * interval) * requests <= length * requests
    <2> DEFINE bi == beyond * interval
    <2>1. bi \in Nat /\ bi <= length
      OBVIOUS
    <2> HIDE DEF bi
    <2>2. bi * requests <= length * requests
      BY ONLY <2>1, length \in Nat, requests \in Nat
    <2> QED BY <2>2 DEF bi
  <1>4. beyond * period \in Nat /\ (beyond * interval) * requests \in Nat /\ length * requests \in Nat
    OBVIOUS
  <1> QED BY ONLY <1>1, <1>2, <1>3, <1>4

\* The invariant says that the pace is kept.
LEMMA PacingImplies == PacingInv => BudgetKept
  <1> SUFFICES ASSUME PacingInv, NEW a \in 0 .. now, NEW b \in a .. now,
                      Sent(a, b) - Promised.burst - 1 > 0
               PROVE  (Sent(a, b) - Promised.burst - 1) * Promised.period
                        <= (b - a) * Promised.requests
    BY DEF BudgetKept
  <1> DEFINE s == Sent(a, b)
             i == Interval
             m == Allowed
             beyond == s - m - 1
  <1>1. /\ i \in Nat \ {0} /\ m \in Nat /\ Promised.burst = m
        /\ Promised.period \in Nat /\ Promised.requests \in Nat
        /\ Promised.period <= i * Promised.requests
    BY BucketKeeps DEF PacingInv, PacingTypeOK
  <1>2. now \in Nat /\ a \in Nat /\ b \in Nat /\ a <= b /\ b <= now /\ now <= Horizon
    BY PacingAssumption DEF PacingInv, PacingTypeOK
  <1>3. s \in Int
    BY <1>2, PacingAssumption, SMTT(30) DEF PacingInv, PacingTypeOK, Sent
  <1>4. s > 0 => s * i <= (b - a) + (i * m + i)
    BY DEF PacingInv
  <1> HIDE DEF s, i, m
  <1>5. beyond \in Nat /\ b - a \in Nat /\ s > 0
    BY <1>1, <1>2, <1>3 DEF s
  <1>6. beyond * i <= b - a
    <2>1. beyond * i = s * i - (i * m + i)
      BY ONLY <1>1, <1>3
    <2>2. s * i \in Int /\ i * m + i \in Int
      BY ONLY <1>1, <1>3
    <2>3. s * i <= (b - a) + (i * m + i)
      BY <1>4, <1>5
    <2> QED BY ONLY <2>1, <2>2, <2>3, <1>2
  <1>7. beyond * Promised.period <= (b - a) * Promised.requests
    <2> HIDE DEF beyond
    <2> QED BY <1>1, <1>5, <1>6, WithinRate
  <1> QED BY <1>1, <1>7 DEF s

LEMMA PacingBegins == PacingInit => PacingInv
  <1> SUFFICES ASSUME PacingInit
               PROVE  PacingInv
    OBVIOUS
  <1>1. /\ budget \in Budgets /\ now = 0 /\ followed = "NonTrading" /\ followed \in RateClasses
        /\ tat = [class \in RateClasses |-> 0] /\ admitted = [t \in 0 .. Horizon |-> 0]
        /\ 0 \in 0 .. Horizon
    BY PacingAssumption DEF PacingInit, RateClasses
  <1>2. Interval \in Nat /\ Allowed \in Nat
    BY <1>1, BucketKeeps
  <1>3. tat[followed] <= now + Interval * Allowed + Interval
    <2>1. Interval * Allowed \in Nat
      BY <1>2
    <2> QED BY <1>1, <1>2, <2>1
  <1>4. \A a \in 0 .. now : \A b \in a .. now : a = 0 /\ b = 0 /\ Sent(a, b) = 0
    BY <1>1 DEF Sent
  <1>5. \A a \in 0 .. now : Sent(a, now) = 0
    BY <1>1, <1>4
  <1>6. PacingTypeOK
    BY <1>1 DEF PacingTypeOK
  <1> QED BY <1>1, <1>3, <1>4, <1>5, <1>6 DEF PacingInv

\* A new limiter has admitted nothing.
LEMMA NewLimiterInv ==
  ASSUME PacingInv, NewLimiter
  PROVE  PacingInv'
  <1>1. /\ now = 0 /\ now' = 0 /\ budget' \in Budgets /\ followed' \in RateClasses
        /\ tat' = [class \in RateClasses |-> Bucket'[class].interval]
        /\ admitted' = admitted /\ admitted[0] = 0
        /\ admitted \in [0 .. Horizon -> Nat] /\ 0 \in 0 .. Horizon
    BY DEF NewLimiter, PacingInv, PacingTypeOK
  <1>2. \A class \in RateClasses : /\ Bucket'[class].interval \in Nat \ {0}
                                   /\ Bucket'[class].burst \in Nat
    <2>1. (budget \in Budgets => \A class \in RateClasses : /\ Bucket[class].interval \in Nat \ {0}
                                                          /\ Bucket[class].burst \in Nat)'
      BY BucketTypes, PTL
    <2> QED BY <1>1, <2>1
  <1>3. Interval' \in Nat \ {0} /\ Allowed' \in Nat /\ tat'[followed'] = Interval'
    BY <1>1, <1>2 DEF Interval, Allowed
  <1>4. tat'[followed'] <= now' + Interval' * Allowed' + Interval'
    <2>1. \A i, m \in Nat : i * m \in Nat
      OBVIOUS
    <2>2. Interval' * Allowed' \in Nat
      BY <1>3, <2>1
    <2> QED BY <1>1, <1>3, <2>2
  <1>5. \A a \in 0 .. now' : \A b \in a .. now' : Sent(a, b)' = 0
    BY <1>1 DEF Sent
  <1>6. \A a \in 0 .. now' : a = 0 /\ Sent(a, now)' = 0
    BY <1>1 DEF Sent
  <1>7. tat' \in [RateClasses -> Nat] /\ \E class \in RateClasses : tat'[class] # 0
    BY <1>1, <1>2
  <1>8. PacingTypeOK'
    BY <1>1, <1>7 DEF PacingTypeOK
  <1> QED BY <1>1, <1>4, <1>5, <1>6, <1>7, <1>8 DEF PacingInv

\* What the invariant says, in numbers.
LEMMA PacingFacts ==
  ASSUME PacingInv
  PROVE  /\ Interval \in Nat \ {0} /\ Allowed \in Nat
         /\ now \in Nat /\ now <= Horizon /\ tat \in [RateClasses -> Nat]
         /\ followed \in RateClasses /\ tat[followed] \in Nat
         /\ admitted \in [0 .. Horizon -> Nat]
         /\ \A a \in 0 .. now : \A b \in a .. now : Sent(a, b) \in Int
  <1>1. Interval \in Nat \ {0} /\ Allowed \in Nat
    BY BucketTypes DEF PacingInv, PacingTypeOK, Interval, Allowed
  <1>2. /\ now \in Nat /\ now <= Horizon /\ tat \in [RateClasses -> Nat]
        /\ followed \in RateClasses /\ tat[followed] \in Nat
        /\ admitted \in [0 .. Horizon -> Nat] /\ Horizon \in Nat
    BY PacingAssumption DEF PacingInv, PacingTypeOK
  <1>3. ASSUME NEW a \in 0 .. now, NEW b \in a .. now PROVE Sent(a, b) \in Int
    <2>1. b \in 0 .. Horizon /\ (a # 0 => a - 1 \in 0 .. Horizon)
      BY <1>2
    <2>2. admitted[b] \in Nat /\ (a # 0 => admitted[a - 1] \in Nat)
      BY <1>2, <2>1
    <2> QED BY <2>2 DEF Sent
  <1> QED BY <1>1, <1>2, <1>3

\* Time that passes is nothing sent.
LEMMA TickInv ==
  ASSUME PacingInv, Tick
  PROVE  PacingInv'
  <1>1. /\ now < Horizon /\ now' = now + 1 /\ tat' = tat /\ followed' = followed
        /\ budget' = budget /\ \A class \in RateClasses : tat[class] > 0
        /\ admitted' = [admitted EXCEPT ![now + 1] = admitted[now]]
    BY DEF Tick
  <1>2. /\ Interval \in Nat \ {0} /\ Allowed \in Nat
        /\ now \in Nat /\ now <= Horizon /\ tat \in [RateClasses -> Nat]
        /\ followed \in RateClasses /\ tat[followed] \in Nat
        /\ admitted \in [0 .. Horizon -> Nat]
    BY PacingFacts
  <1>3. \A a \in 0 .. now : \A b \in a .. now : Sent(a, b) \in Int
    BY PacingFacts
  <1>4. Interval' = Interval /\ Allowed' = Allowed
    BY <1>1 DEF Interval, Allowed, Bucket, ReplenishPeriod, Period
  <1>5. \A t \in 0 .. now : admitted'[t] = admitted[t]
    BY <1>1, <1>2, PacingAssumption
  <1>6. admitted'[now + 1] = admitted[now] /\ admitted[now] \in Nat
    BY <1>1, <1>2, PacingAssumption
  <1>7. PICK k \in Nat : k = now
    BY <1>2
  <1> DEFINE n == k + 1
  <1>8. ASSUME NEW a \in 0 .. k, NEW b \in a .. k PROVE Sent(a, b)' = Sent(a, b)
    <2>1. b \in 0 .. now /\ (a # 0 => a - 1 \in 0 .. now)
      BY <1>7
    <2> QED BY <1>5, <2>1 DEF Sent
  <1>9. ASSUME NEW a \in 0 .. k PROVE Sent(a, n)' = Sent(a, k)
    <2>1. a # 0 => a - 1 \in 0 .. now
      BY <1>7
    <2> QED BY <1>5, <1>6, <1>7, <2>1 DEF Sent
  <1>10. Sent(n, n)' = 0
    <2>1. n # 0 /\ n - 1 = now /\ now \in 0 .. now
      BY <1>2, <1>7
    <2> QED BY <1>2, <1>5, <1>6, <1>7, <2>1 DEF Sent
  <1>11. now' = n /\ n \in Nat
    BY <1>1, <1>7
  <1>12. tat'[followed'] <= now' + Interval' * Allowed' + Interval'
    <2> DEFINE reach == Interval * Allowed
    <2>1. reach \in Nat
      BY <1>2
    <2> HIDE DEF reach
    <2>2. tat[followed] <= now + reach + Interval
      BY DEF PacingInv, reach
    <2>3. tat'[followed'] <= now' + reach + Interval
      BY <1>1, <1>2, <2>1, <2>2
    <2> QED BY <1>4, <2>3 DEF reach
  <1>13. ASSUME NEW a \in 0 .. n, Sent(a, n)' > 0
         PROVE  tat'[followed'] >= a + Sent(a, n)' * Interval'
    <2>1. a \in 0 .. k
      BY <1>10, <1>13
    <2>2. Sent(a, n)' = Sent(a, now) /\ Sent(a, now) > 0
      BY <1>7, <1>9, <1>13, <2>1
    <2>3. tat[followed] >= a + Sent(a, now) * Interval
      BY <1>7, <2>1, <2>2 DEF PacingInv
    <2> QED BY <1>1, <1>4, <2>2, <2>3
  <1>14. ASSUME NEW a \in 0 .. n, NEW b \in a .. n, Sent(a, b)' > 0
         PROVE  Sent(a, b)' * Interval' <= (b - a) + (Interval' * Allowed' + Interval')
    <2> DEFINE most == Interval * Allowed + Interval
    <2>1. most \in Nat
      BY <1>2
    <2>2. CASE b \in a .. k
      <3>1. a \in 0 .. k /\ a \in 0 .. now /\ b \in a .. now
        BY <1>7, <2>2
      <3>2. Sent(a, b)' = Sent(a, b)
        BY <1>8, <2>2, <3>1
      <3>3. Sent(a, b) * Interval <= (b - a) + (Interval * Allowed + Interval)
        BY <1>14, <3>1, <3>2 DEF PacingInv
      <3> QED BY <1>4, <3>2, <3>3
    <2>3. CASE b = n
      <3>1. a \in 0 .. k /\ a \in 0 .. now /\ now \in a .. now
        BY <1>7, <1>10, <1>14, <2>3
      <3>2. Sent(a, b)' = Sent(a, now)
        BY <1>7, <1>9, <2>3, <3>1
      <3>3. Sent(a, now) * Interval <= (now - a) + most
        BY <1>14, <3>1, <3>2 DEF PacingInv
      <3>4. Sent(a, now) * Interval \in Int
        BY <1>2, <1>3, <3>1
      <3> HIDE DEF most
      <3>5. Sent(a, now) * Interval <= (b - a) + most
        BY <1>7, <2>1, <2>3, <3>1, <3>3, <3>4
      <3> QED BY <1>4, <3>2, <3>5 DEF most
    <2>4. b \in a .. k \/ b = n
      OBVIOUS
    <2> QED BY <2>2, <2>3, <2>4
  <1>15. PacingTypeOK'
    BY <1>1, <1>2, PacingAssumption DEF PacingInv, PacingTypeOK
  <1>16. (\A class \in RateClasses : tat[class] = 0)' => admitted'[0] = 0
    BY <1>1, <1>2
  <1> HIDE DEF n
  <1> QED BY <1>11, <1>12, <1>13, <1>14, <1>15, <1>16 DEF PacingInv

\* A request that is admitted puts the bucket on by one interval.
LEMMA AdmitInv ==
  ASSUME PacingInv, NEW class \in RateClasses, Admit(class)
  PROVE  PacingInv'
  <1>1. /\ tat[class] > 0 /\ tat[class] <= now + Bucket[class].interval * Bucket[class].burst
        /\ tat' = [tat EXCEPT ![class] = AtLeast(@, now) + Bucket[class].interval]
        /\ admitted' = IF class = followed THEN [admitted EXCEPT ![now] = @ + 1] ELSE admitted
        /\ budget' = budget /\ now' = now /\ followed' = followed
    BY DEF Admit, LimiterFor
  <1>2. /\ Interval \in Nat \ {0} /\ Allowed \in Nat
        /\ now \in Nat /\ now <= Horizon /\ tat \in [RateClasses -> Nat]
        /\ followed \in RateClasses /\ tat[followed] \in Nat
        /\ admitted \in [0 .. Horizon -> Nat]
    BY PacingFacts
  <1>3. \A a \in 0 .. now : \A b \in a .. now : Sent(a, b) \in Int
    BY PacingFacts
  <1>4. Interval' = Interval /\ Allowed' = Allowed
    BY <1>1 DEF Interval, Allowed, Bucket, ReplenishPeriod, Period
  <1>5. Bucket[class].interval \in Nat \ {0} /\ AtLeast(tat[class], now) \in Nat
    BY <1>2, BucketTypes DEF PacingInv, PacingTypeOK, AtLeast
  <1>6. tat' \in [RateClasses -> Nat] /\ tat'[class] # 0
    BY <1>1, <1>2, <1>5
  <1>7. admitted' \in [0 .. Horizon -> Nat]
    BY <1>1, <1>2
  <1>8. PacingTypeOK'
    BY <1>1, <1>6, <1>7 DEF PacingInv, PacingTypeOK
  <1>9. CASE class # followed
    <2>1. admitted' = admitted /\ tat'[followed'] = tat[followed]
      BY <1>1, <1>2, <1>9
    <2>2. \A a, b : Sent(a, b)' = Sent(a, b)
      BY <2>1 DEF Sent
    <2>3. \A a : Sent(a, now)' = Sent(a, now)
      BY <1>1, <2>1 DEF Sent
    <2> QED BY <1>1, <1>4, <1>6, <1>8, <2>1, <2>2, <2>3 DEF PacingInv
  <1>10. CASE class = followed
    <2> DEFINE reach == Interval * Allowed
    <2>1. reach \in Nat
      BY <1>2
    <2>2. /\ tat[followed] <= now + reach
          /\ tat'[followed'] = AtLeast(tat[followed], now) + Interval
          /\ admitted' = [admitted EXCEPT ![now] = @ + 1]
      BY <1>1, <1>2, <1>10 DEF Interval, Allowed
    <2>3. /\ tat'[followed'] \in Nat
          /\ tat'[followed'] <= now + (reach + Interval)
          /\ tat'[followed'] >= tat[followed] + Interval /\ tat'[followed'] >= now + Interval
      <3> HIDE DEF reach
      <3> QED BY <1>2, <2>1, <2>2 DEF AtLeast
    <2>4. PICK k \in Nat : k = now
      BY <1>2
    <2>5. ASSUME NEW a \in 0 .. k PROVE Sent(a, k)' = Sent(a, k) + 1
      <3>1. a # 0 => a - 1 \in 0 .. Horizon /\ a - 1 # now
        BY <1>2, <2>4, PacingAssumption
      <3>2. now \in 0 .. Horizon
        BY <1>2, PacingAssumption
      <3> QED BY <1>2, <2>2, <2>4, <3>1, <3>2 DEF Sent
    <2>6. ASSUME NEW a \in 0 .. k, NEW b \in a .. k, b # k PROVE Sent(a, b)' = Sent(a, b)
      <3>1. b \in 0 .. Horizon /\ b # now /\ (a # 0 => a - 1 \in 0 .. Horizon /\ a - 1 # now)
        BY <1>2, <2>4, <2>6, PacingAssumption
      <3> QED BY <1>2, <2>2, <3>1 DEF Sent
    <2>7. ASSUME NEW a \in 0 .. k, Sent(a, k)' > 0
          PROVE  /\ tat'[followed'] >= a + Sent(a, k)' * Interval
                 /\ Sent(a, k)' * Interval <= (k - a) + (reach + Interval)
      <3> DEFINE s == Sent(a, now)
      <3>1. Sent(a, k)' = s + 1 /\ s \in Int /\ s >= 0
        BY <1>2, <1>3, <2>4, <2>5, <2>7
      <3>2. s > 0 => tat[followed] >= a + s * Interval
        BY <2>4 DEF PacingInv
      <3> HIDE DEF s, reach
      <3>3. (s + 1) * Interval = s * Interval + Interval /\ s * Interval \in Nat
        BY ONLY <1>2, <3>1
      <3>4. CASE s > 0
        <4>1. tat'[followed'] >= a + (s + 1) * Interval
          BY ONLY <1>2, <2>3, <3>2, <3>3, <3>4, a \in 0 .. k, k \in Nat
        <4>2. (s + 1) * Interval <= (k - a) + (reach + Interval)
          BY ONLY <1>2, <2>1, <2>3, <2>4, <3>3, <4>1, a \in 0 .. k, k \in Nat
        <4> QED BY <3>1, <4>1, <4>2
      <3>5. CASE s = 0
        <4>1. (s + 1) * Interval = Interval
          BY ONLY <1>2, <3>5
        <4>2. tat'[followed'] >= a + (s + 1) * Interval
          BY ONLY <1>2, <2>3, <2>4, <4>1, a \in 0 .. k, k \in Nat
        <4>3. (s + 1) * Interval <= (k - a) + (reach + Interval)
          BY ONLY <1>2, <2>1, <4>1, a \in 0 .. k, k \in Nat
        <4> QED BY <3>1, <4>2, <4>3
      <3> QED BY <3>1, <3>4, <3>5
    <2>8. ASSUME NEW a \in 0 .. k, NEW b \in a .. k, Sent(a, b)' > 0
          PROVE  Sent(a, b)' * Interval <= (b - a) + (reach + Interval)
      <3>1. CASE b = k
        BY <2>7, <2>8, <3>1
      <3>2. CASE b # k
        BY <2>4, <2>6, <2>8, <3>2 DEF PacingInv
      <3> QED BY <3>1, <3>2
    <2>9. now' = k
      BY <1>1, <2>4
    <2>10. tat'[followed'] <= now' + Interval' * Allowed' + Interval'
      <3> HIDE DEF reach
      <3>1. tat'[followed'] <= now' + reach + Interval
        BY <1>1, <1>2, <2>1, <2>3
      <3> QED BY <1>4, <3>1 DEF reach
    <2> QED BY <1>4, <1>6, <1>8, <2>7, <2>8, <2>9, <2>10 DEF PacingInv
  <1> QED BY <1>9, <1>10

LEMMA PacingGoesOn == PacingInv /\ [PacingNext]_pac => PacingInv'
  <1> SUFFICES ASSUME PacingInv, [PacingNext]_pac
               PROVE  PacingInv'
    OBVIOUS
  <1>1. CASE UNCHANGED pac
    <2>1. UNCHANGED <<budget, now, tat, followed, admitted>>
      BY <1>1 DEF pac
    <2>2. Interval' = Interval /\ Allowed' = Allowed
      BY <2>1 DEF Interval, Allowed, Bucket, ReplenishPeriod, Period
    <2>3. \A a, b : Sent(a, b)' = Sent(a, b)
      BY <2>1 DEF Sent
    <2>4. \A a : Sent(a, now)' = Sent(a, now)
      BY <2>1 DEF Sent
    <2>5. PacingTypeOK'
      BY <2>1 DEF PacingInv, PacingTypeOK
    <2> QED BY <2>1, <2>2, <2>3, <2>4, <2>5 DEF PacingInv
  <1> QED BY <1>1, NewLimiterInv, TickInv, AdmitInv DEF PacingNext, PacingStep

\* No class of requests exceeds its rate beyond one burst and one request, from any moment on;
\* for any budget, rates, bursts and unit of the clock the rate divides.
THEOREM BudgetsAreKept == PacingSpec => []BudgetKept
  BY PacingBegins, PacingGoesOn, PacingImplies, PTL DEF PacingSpec

-----------------------------------------------------------------------------
(* The setup of clients.                                                    *)

SetupNext == \E c \in Clients : BuildClient(c) \/ SetupStep(c) \/ SelectAccount(c)

SetupSpec == SetupInit /\ [][SetupNext]_stp

Holding == {h \in Holders : registry[h] # 0}

\* The buckets are numbered in the order in which accounts came by one.
Numbered ==
  /\ registry \in [Holders -> Nat]
  /\ \A h \in Holders : registry[h] <= Cardinality(Holding)
  /\ \A h, k \in Holders : registry[h] = registry[k] /\ registry[h] # 0 => h = k

\* What a client says of itself.
ClientTells(c) ==
  /\ built[c] = "no" => logins[c] = {} /\ spent[c] = {}
  /\ built[c] # "no" => Len(pool[c]) \in Nat \ {0} /\ DOMAIN pool[c] = 1 .. Len(pool[c])
  /\ built[c] \in {"no", "login"} => holder[c] = configured[c]
  /\ built[c] = "login" =>
       /\ trying[c] \in 1 .. Len(pool[c])
       /\ spent[c] = 1 .. trying[c] - 1 /\ logins[c] = 1 .. trying[c] - 1
  /\ built[c] = "exhausted" => spent[c] = DOMAIN pool[c]
  /\ built[c] = "error" => trying[c] \notin spent[c]
  /\ built[c] = "ready" /\ logins[c] # {} =>
       /\ logins[c] = 1 .. primary_slot[c]
       /\ spent[c] = logins[c] \ {primary_slot[c]}
  /\ built[c] = "ready" /\ version[c] = "2" /\ Len(pool[c]) > 1 => holder[c] = configured[c]

SetupInv ==
  /\ built \in [Clients -> {"no", "login", "ready", "exhausted", "error"}]
  /\ configured \in [Clients -> Holders] /\ holder \in [Clients -> Holders]
  /\ bucket \in [Clients -> Nat] /\ trying \in [Clients -> Nat]
  /\ session_bucket \in [Clients -> Nat]
  /\ DOMAIN pool = Clients /\ DOMAIN version = Clients /\ DOMAIN spent = Clients
  /\ DOMAIN logins = Clients /\ DOMAIN primary_slot = Clients
  /\ Numbered
  /\ \A c \in Clients :
       /\ ClientTells(c)
       /\ built[c] # "no" => bucket[c] = registry[holder[c]] /\ bucket[c] # 0
       /\ built[c] # "no" =>
            session_bucket[c] = registry[configured[c]] /\ session_bucket[c] # 0

\* A function on the numbers up to n is a sequence.
LEMMA NumberedIsSeq ==
  ASSUME NEW n \in Nat, NEW f, DOMAIN f = 1 .. n, f = [i \in DOMAIN f |-> f[i]]
  PROVE  Len(f) = n
  <1> DEFINE S == {f[i] : i \in 1 .. n}
  <1>1. f \in [1 .. n -> S]
    OBVIOUS
  <1>2. f \in Seq(S)
    BY <1>1
  <1>3. Len(f) \in Nat /\ DOMAIN f = 1 .. Len(f)
    BY <1>2, LenProperties
  <1> QED BY <1>3

\* There is a slot for every usable key, or one for the whole list.
LEMMA SlotsFacts ==
  ASSUME NEW list \in KeyLists \cup {Unset}
  PROVE  LET slots == Slots(EnvOrDefault(list, <<DefaultKey>>)) IN
           Len(slots) \in Nat \ {0} /\ DOMAIN slots = 1 .. Len(slots)
  <1> DEFINE l == EnvOrDefault(list, <<DefaultKey>>)
             kept == {i \in DOMAIN l : l[i] # BlankKey}
             u == UsableKeys(l)
  <1>1. PICK n \in Nat : DOMAIN l = 1 .. n
    <2>1. CASE list = Unset
      <3>1. l = <<DefaultKey>>
        BY <2>1 DEF EnvOrDefault
      <3>2. DOMAIN <<DefaultKey>> = 1 .. 1
        OBVIOUS
      <3> QED BY <3>1, <3>2
    <2>2. CASE list # Unset
      <3>1. l = list /\ list \in Seq(ApiKeys \cup {BlankKey})
        BY <2>2, SetupAssumption DEF EnvOrDefault
      <3> QED BY <3>1, LenProperties
    <2> QED BY <2>1, <2>2
  <1>2. IsFiniteSet(kept) /\ Cardinality(kept) \in Nat
    <2>1. kept \subseteq 1 .. n
      BY <1>1
    <2> HIDE DEF kept
    <2>2. IsFiniteSet(1 .. n)
      BY FS_Interval
    <2>3. IsFiniteSet(kept)
      BY <2>1, <2>2, FS_Subset
    <2> QED BY <2>3, FS_CardinalityType
  <1> DEFINE m == Cardinality(kept)
  <1>3. u = [k \in 1 .. m |-> l[CHOOSE i \in kept : Cardinality(kept \cap (1 .. i)) = k]]
    BY DEF UsableKeys
  <1> HIDE DEF l, u, kept, m
  <1>4. m \in Nat
    BY <1>2 DEF m
  <1>5. DOMAIN u = 1 .. m /\ u = [i \in DOMAIN u |-> u[i]]
    BY <1>3
  <1>6. Len(u) = m
    BY <1>4, <1>5, NumberedIsSeq
  <1>7. CASE u = <<>>
    <2>1. Slots(l) = <<Raw>>
      BY <1>7 DEF Slots, u
    <2>2. Len(<<Raw>>) = 1 /\ DOMAIN <<Raw>> = 1 .. 1
      OBVIOUS
    <2> QED BY <2>1, <2>2 DEF l
  <1>8. CASE u # <<>>
    <2>1. Slots(l) = u
      BY <1>8 DEF Slots, u
    <2>2. m # 0
      <3>1. ASSUME m = 0 PROVE FALSE
        <4>1. DOMAIN u = {}
          BY <1>5, <3>1
        <4>2. u = <<>>
          BY <1>5, <4>1
        <4> QED BY <1>8, <4>2
      <3> QED BY <3>1
    <2> QED BY <1>4, <1>5, <1>6, <2>1, <2>2 DEF l
  <1> QED BY <1>7, <1>8

\* An account comes by a bucket of its own, and keeps the one it has.
LEMMA RegisteredFacts ==
  ASSUME Numbered, NEW h \in Holders, registry' = Registered(h)
  PROVE  /\ Numbered' /\ registry'[h] # 0 /\ registry'[h] \in Nat
         /\ \A k \in Holders : registry[k] # 0 => registry'[k] = registry[k]
  <1>1. IsFiniteSet(Holding) /\ Cardinality(Holding) \in Nat
    BY SetupAssumption, FS_Subset, FS_CardinalityType DEF Holding
  <1>2. CASE registry[h] # 0
    BY <1>2 DEF Registered, Numbered, Holding
  <1>3. CASE registry[h] = 0
    <2> DEFINE m == Cardinality(Holding)
    <2>1. registry' = [registry EXCEPT ![h] = 1 + m]
      BY <1>3 DEF Registered, FreshBucket, Holding
    <2>2. registry' \in [Holders -> Nat] /\ registry'[h] = 1 + m
          /\ \A k \in Holders : k # h => registry'[k] = registry[k]
      BY <1>1, <2>1 DEF Numbered
    <2>3. Holding' = Holding \cup {h} /\ h \notin Holding
      BY <1>1, <1>3, <2>2 DEF Holding
    <2>4. Cardinality(Holding') = m + 1
      BY <1>1, <2>3, FS_AddElement
    <2> HIDE DEF m
    <2>5. \A k \in Holders : registry[k] \in Nat /\ registry[k] <= m
      BY DEF Numbered, m
    <2>6. \A k \in Holders : registry'[k] <= Cardinality(Holding')
      BY <1>1, <2>2, <2>4, <2>5 DEF m
    <2>7. \A j, k \in Holders : registry'[j] = registry'[k] /\ registry'[j] # 0 => j = k
      <3> SUFFICES ASSUME NEW j \in Holders, NEW k \in Holders,
                          registry'[j] = registry'[k], registry'[j] # 0, j # k
                   PROVE  FALSE
        OBVIOUS
      <3>a. m \in Nat
        BY <1>1 DEF m
      <3>1. CASE j = h
        <4>1. registry[k] = 1 + m
          BY <2>2, <3>1
        <4> QED BY <2>5, <3>a, <4>1
      <3>2. CASE k = h
        <4>1. registry[j] = 1 + m
          BY <2>2, <3>2
        <4> QED BY <2>5, <3>a, <4>1
      <3>3. CASE j # h /\ k # h
        BY <2>2, <3>3 DEF Numbered
      <3> QED BY <3>1, <3>2, <3>3
    <2> QED BY <1>1, <1>3, <2>2, <2>6, <2>7 DEF Numbered, m
  <1> QED BY <1>2, <1>3

\* A client at which nothing happens says what it said.
LEMMA StillTells ==
  ASSUME NEW d, ClientTells(d),
         built'[d] = built[d], pool'[d] = pool[d], version'[d] = version[d],
         configured'[d] = configured[d], holder'[d] = holder[d], trying'[d] = trying[d],
         spent'[d] = spent[d], primary_slot'[d] = primary_slot[d], logins'[d] = logins[d]
  PROVE  ClientTells(d)'
  BY DEF ClientTells

\* A login begins at the first slot.
LEMMA FromTheFirst ==
  /\ \A n \in Nat \ {0} : 1 \in 1 .. n
  /\ 1 .. (1 - 1) = {}
  OBVIOUS

\* A client is built, its first login yet to come or none.
LEMMA BuildInv ==
  ASSUME SetupInv, NEW c \in Clients, BuildClient(c)
  PROVE  SetupInv'
  <1>1. PICK list \in KeyLists \cup {Unset}, text \in {"", "1", "2", "3"} :
          /\ pool' = [pool EXCEPT ![c] = Slots(Config(list, text).api_key)]
          /\ version' = [version EXCEPT ![c] = Config(list, text).api_version]
    BY DEF BuildClient
  <1>2. /\ built[c] = "no"
        /\ registry' = Registered(configured[c])
        /\ bucket' = [bucket EXCEPT ![c] = registry'[configured[c]]]
        /\ session_bucket' = [session_bucket EXCEPT ![c] = registry'[configured[c]]]
        /\ trying' = [trying EXCEPT ![c] = 1]
        /\ configured' = configured /\ holder' = holder /\ spent' = spent /\ logins' = logins
        /\ \/ built' = [built EXCEPT ![c] = "login"] /\ primary_slot' = primary_slot
           \/ built' = [built EXCEPT ![c] = "ready"] /\ primary_slot' = [primary_slot EXCEPT ![c] = 1]
    BY DEF BuildClient
  <1>3. /\ configured[c] \in Holders /\ holder[c] = configured[c]
        /\ logins[c] = {} /\ spent[c] = {}
    BY <1>2 DEF SetupInv, ClientTells
  <1>4. /\ Numbered' /\ registry'[configured[c]] # 0 /\ registry'[configured[c]] \in Nat
        /\ \A k \in Holders : registry[k] # 0 => registry'[k] = registry[k]
    BY <1>2, <1>3, RegisteredFacts DEF SetupInv
  <1> DEFINE slots == Slots(EnvOrDefault(list, <<DefaultKey>>))
  <1>5. Len(slots) \in Nat \ {0} /\ DOMAIN slots = 1 .. Len(slots)
    BY SlotsFacts
  <1>6. pool'[c] = slots /\ \A d \in Clients \ {c} : pool'[d] = pool[d]
    BY <1>1 DEF SetupInv, Config
  <1> HIDE DEF slots
  <1>7. /\ built'[c] \in {"login", "ready"} /\ trying'[c] = 1 /\ holder'[c] = configured'[c]
        /\ spent'[c] = {} /\ logins'[c] = {} /\ bucket'[c] = registry'[holder'[c]]
        /\ session_bucket'[c] = registry'[configured'[c]]
    BY <1>2, <1>3 DEF SetupInv
  <1>8. ASSUME NEW d \in Clients \ {c}
        PROVE  /\ built'[d] = built[d] /\ version'[d] = version[d] /\ trying'[d] = trying[d]
               /\ primary_slot'[d] = primary_slot[d] /\ bucket'[d] = bucket[d]
               /\ session_bucket'[d] = session_bucket[d]
    BY <1>1, <1>2 DEF SetupInv
  <1>9. ASSUME NEW d \in Clients PROVE ClientTells(d)'
    <2>1. CASE d = c
      <3>1. 1 \in 1 .. Len(slots) /\ 1 .. (1 - 1) = {}
        BY <1>5, FromTheFirst
      <3> QED BY <1>5, <1>6, <1>7, <2>1, <3>1 DEF ClientTells
    <2>2. CASE d # c
      <3>1. ClientTells(d)
        BY DEF SetupInv
      <3>2. /\ built'[d] = built[d] /\ version'[d] = version[d] /\ trying'[d] = trying[d]
            /\ primary_slot'[d] = primary_slot[d] /\ pool'[d] = pool[d]
        BY <1>6, <1>8, <2>2
      <3> QED BY <1>2, <3>1, <3>2, StillTells
    <2> QED BY <2>1, <2>2
  <1>10. ASSUME NEW d \in Clients, built'[d] # "no"
         PROVE  bucket'[d] = registry'[holder'[d]] /\ bucket'[d] # 0
    <2>1. CASE d = c
      BY <1>2, <1>3, <1>4, <1>7, <2>1
    <2>2. CASE d # c
      <3>1. built[d] # "no" /\ bucket'[d] = bucket[d] /\ holder'[d] = holder[d] /\ holder[d] \in Holders
        BY <1>2, <1>8, <1>10, <2>2 DEF SetupInv
      <3>2. bucket[d] = registry[holder[d]] /\ bucket[d] # 0
        BY <3>1 DEF SetupInv
      <3> QED BY <1>4, <3>1, <3>2
    <2> QED BY <2>1, <2>2
  <1>11. ASSUME NEW d \in Clients, built'[d] # "no"
         PROVE  session_bucket'[d] = registry'[configured'[d]] /\ session_bucket'[d] # 0
    <2>1. CASE d = c
      BY <1>2, <1>3, <1>4, <1>7, <2>1
    <2>2. CASE d # c
      <3>1. /\ built[d] # "no" /\ session_bucket'[d] = session_bucket[d]
            /\ configured'[d] = configured[d] /\ configured[d] \in Holders
        BY <1>2, <1>8, <1>11, <2>2 DEF SetupInv
      <3>2. session_bucket[d] = registry[configured[d]] /\ session_bucket[d] # 0
        BY <3>1 DEF SetupInv
      <3> QED BY <1>4, <3>1, <3>2
    <2> QED BY <2>1, <2>2
  <1>12. /\ built' \in [Clients -> {"no", "login", "ready", "exhausted", "error"}]
         /\ configured' \in [Clients -> Holders] /\ holder' \in [Clients -> Holders]
         /\ bucket' \in [Clients -> Nat] /\ trying' \in [Clients -> Nat]
    <2>1. /\ built \in [Clients -> {"no", "login", "ready", "exhausted", "error"}]
          /\ configured \in [Clients -> Holders] /\ holder \in [Clients -> Holders]
          /\ bucket \in [Clients -> Nat] /\ trying \in [Clients -> Nat]
      BY DEF SetupInv
    <2>2. built' = [built EXCEPT ![c] = "login"] \/ built' = [built EXCEPT ![c] = "ready"]
      BY <1>2
    <2>3. built' \in [Clients -> {"no", "login", "ready", "exhausted", "error"}]
      BY <2>1, <2>2
    <2>4. bucket' \in [Clients -> Nat] /\ trying' \in [Clients -> Nat]
      BY <1>2, <1>4, <2>1
    <2> QED BY <1>2, <2>1, <2>3, <2>4
  <1>13. /\ DOMAIN pool' = Clients /\ DOMAIN version' = Clients /\ DOMAIN spent' = Clients
         /\ DOMAIN logins' = Clients /\ DOMAIN primary_slot' = Clients
    BY <1>1, <1>2 DEF SetupInv
  <1>14. session_bucket' \in [Clients -> Nat]
    <2>1. session_bucket \in [Clients -> Nat]
      BY DEF SetupInv
    <2> QED BY <1>2, <1>4, <2>1
  <1> QED BY <1>4, <1>9, <1>10, <1>11, <1>12, <1>13, <1>14 DEF SetupInv

\* A login that is accepted, finds the key exhausted, or fails.
LEMMA LoginInv ==
  ASSUME SetupInv, NEW c \in Clients, SetupStep(c)
  PROVE  SetupInv'
  <1> DEFINE t == trying[c]
  <1>1. /\ built[c] = "login"
        /\ logins' = [logins EXCEPT ![c] = @ \cup {t}]
        /\ UNCHANGED <<pool, version, configured, holder, bucket, session_bucket, registry>>
    BY DEF SetupStep, LoginAccepted, LoginExhausted, LoginRefused
  <1>2. /\ t \in 1 .. Len(pool[c]) /\ spent[c] = 1 .. t - 1 /\ logins[c] = 1 .. t - 1
        /\ Len(pool[c]) \in Nat \ {0} /\ DOMAIN pool[c] = 1 .. Len(pool[c])
        /\ holder[c] = configured[c] /\ bucket[c] = registry[holder[c]] /\ bucket[c] # 0
        /\ logins'[c] = (1 .. t - 1) \cup {t}
    BY <1>1 DEF SetupInv, ClientTells
  <1>3. (1 .. t - 1) \cup {t} = 1 .. t /\ t \notin 1 .. t - 1 /\ t \in Nat
    BY <1>2
  <1>4. /\ built' \in [Clients -> {"no", "login", "ready", "exhausted", "error"}]
        /\ trying' \in [Clients -> Nat] /\ DOMAIN spent' = Clients
        /\ DOMAIN logins' = Clients /\ DOMAIN primary_slot' = Clients
        /\ built'[c] # "no"
        /\ \A d \in Clients \ {c} :
             /\ built'[d] = built[d] /\ trying'[d] = trying[d] /\ spent'[d] = spent[d]
             /\ primary_slot'[d] = primary_slot[d] /\ logins'[d] = logins[d]
    <2>1. CASE LoginAccepted(c)
      BY <1>1, <2>1 DEF LoginAccepted, SetupInv
    <2>2. CASE LoginRefused(c)
      BY <1>1, <2>2 DEF LoginRefused, SetupInv
    <2>3. CASE LoginExhausted(c)
      <3>1. /\ spent' = [spent EXCEPT ![c] = @ \cup {t}] /\ primary_slot' = primary_slot
            /\ \/ trying' = [trying EXCEPT ![c] = t + 1] /\ built' = built
               \/ built' = [built EXCEPT ![c] = "exhausted"] /\ trying' = trying
        BY <2>3 DEF LoginExhausted
      <3>2. t + 1 \in Nat
        BY <1>3
      <3> HIDE DEF t
      <3> QED BY <1>1, <3>1, <3>2 DEF SetupInv
    <2> QED BY <2>1, <2>2, <2>3 DEF SetupStep
  <1>5. ClientTells(c)'
    <2> HIDE DEF t
    <2>1. CASE LoginAccepted(c)
      <3>1. /\ built'[c] = "ready" /\ primary_slot'[c] = t /\ spent'[c] = spent[c]
            /\ logins'[c] = 1 .. t
        BY <1>2, <1>3, <2>1 DEF LoginAccepted, SetupInv, t
      <3>2. 1 .. t - 1 = (1 .. t) \ {t}
        BY <1>3
      <3> QED BY <1>1, <1>2, <3>1, <3>2 DEF ClientTells
    <2>2. CASE LoginRefused(c)
      <3>1. built'[c] = "error" /\ trying'[c] = t /\ spent'[c] = spent[c]
        BY <2>2 DEF LoginRefused, SetupInv, t
      <3> QED BY <1>1, <1>2, <1>3, <3>1 DEF ClientTells
    <2>3. CASE LoginExhausted(c)
      <3>1. spent'[c] = 1 .. t /\ logins'[c] = 1 .. t
        BY <1>2, <1>3, <2>3 DEF LoginExhausted, SetupInv, t
      <3>2. CASE t < Len(pool[c]) /\ trying' = [trying EXCEPT ![c] = @ + 1] /\ built' = built
        <4>1. trying'[c] = t + 1 /\ built'[c] = "login"
          BY <1>1, <3>2 DEF SetupInv, t
        <4>2. t + 1 \in 1 .. Len(pool[c]) /\ (t + 1) - 1 = t
          BY <1>2, <1>3, <3>2
        <4> QED BY <1>1, <1>2, <3>1, <4>1, <4>2 DEF ClientTells
      <3>3. CASE t = Len(pool[c]) /\ built' = [built EXCEPT ![c] = "exhausted"]
        <4>1. built'[c] = "exhausted"
          BY <3>3 DEF SetupInv
        <4> QED BY <1>1, <1>2, <3>1, <3>3, <4>1 DEF ClientTells
      <3> QED BY <2>3, <3>2, <3>3 DEF LoginExhausted, t
    <2> QED BY <2>1, <2>2, <2>3 DEF SetupStep
  <1>6. ASSUME NEW d \in Clients PROVE ClientTells(d)'
    <2>1. CASE d # c
      <3>1. ClientTells(d)
        BY DEF SetupInv
      <3>2. /\ built'[d] = built[d] /\ trying'[d] = trying[d] /\ spent'[d] = spent[d]
            /\ primary_slot'[d] = primary_slot[d] /\ logins'[d] = logins[d]
        BY <1>4, <2>1
      <3> QED BY <1>1, <3>1, <3>2, StillTells
    <2> QED BY <1>5, <2>1
  <1>7. ASSUME NEW d \in Clients, built'[d] # "no"
        PROVE  /\ bucket'[d] = registry'[holder'[d]] /\ bucket'[d] # 0
               /\ session_bucket'[d] = registry'[configured'[d]] /\ session_bucket'[d] # 0
    <2>1. built[d] # "no"
      BY <1>1, <1>4, <1>7
    <2> QED BY <1>1, <2>1 DEF SetupInv
  <1>8. Numbered'
    BY <1>1 DEF SetupInv, Numbered, Holding
  <1> QED BY <1>1, <1>4, <1>6, <1>7, <1>8 DEF SetupInv

\* A client that switches takes the bucket of the account it switches to.
LEMMA SelectInv ==
  ASSUME SetupInv, NEW c \in Clients, SelectAccount(c)
  PROVE  SetupInv'
  <1>1. PICK h \in Holders :
          /\ registry' = Registered(h)
          /\ holder' = [holder EXCEPT ![c] = h]
          /\ bucket' = [bucket EXCEPT ![c] = registry'[h]]
    BY DEF SelectAccount
  <1>2. /\ built[c] = "ready" /\ (version[c] = "3" \/ Len(pool[c]) = 1)
        /\ UNCHANGED <<built, pool, version, configured, session_bucket, trying, spent, primary_slot,
                       logins>>
    BY DEF SelectAccount
  <1>3. /\ Numbered' /\ registry'[h] # 0 /\ registry'[h] \in Nat
        /\ \A k \in Holders : registry[k] # 0 => registry'[k] = registry[k]
    BY <1>1, RegisteredFacts DEF SetupInv
  <1>4. ASSUME NEW d \in Clients PROVE ClientTells(d)'
    <2>1. ClientTells(d)
      BY DEF SetupInv
    <2>2. CASE d = c
      <3>1. /\ built'[c] = "ready" /\ pool'[c] = pool[c] /\ version'[c] = version[c]
            /\ spent'[c] = spent[c] /\ primary_slot'[c] = primary_slot[c] /\ logins'[c] = logins[c]
        BY <1>2
      <3>2. /\ Len(pool[c]) \in Nat \ {0} /\ DOMAIN pool[c] = 1 .. Len(pool[c])
            /\ logins[c] # {} => logins[c] = 1 .. primary_slot[c]
            /\ logins[c] # {} => spent[c] = logins[c] \ {primary_slot[c]}
        BY <1>2, <2>1, <2>2 DEF ClientTells
      <3>3. ~(version[c] = "2" /\ Len(pool[c]) > 1)
        <4>1. version[c] = "3" \/ Len(pool[c]) = 1
          BY <1>2
        <4>2. version[c] = "3" => version[c] # "2"
          OBVIOUS
        <4>3. Len(pool[c]) = 1 => ~(Len(pool[c]) > 1)
          OBVIOUS
        <4> QED BY ONLY <4>1, <4>2, <4>3
      <3> QED BY <2>2, <3>1, <3>2, <3>3 DEF ClientTells
    <2>3. CASE d # c
      <3>1. holder'[d] = holder[d]
        BY <1>1, <2>3 DEF SetupInv
      <3> QED BY <1>2, <2>1, <3>1, StillTells
    <2> QED BY <2>2, <2>3
  <1>5. ASSUME NEW d \in Clients, built'[d] # "no"
        PROVE  bucket'[d] = registry'[holder'[d]] /\ bucket'[d] # 0
    <2>1. CASE d = c
      <3>1. holder'[d] = h /\ bucket'[d] = registry'[h]
        BY <1>1, <2>1 DEF SetupInv
      <3> QED BY <1>3, <3>1
    <2>2. CASE d # c
      <3>1. bucket'[d] = bucket[d] /\ holder'[d] = holder[d] /\ holder[d] \in Holders
        BY <1>1, <2>2 DEF SetupInv
      <3>2. bucket[d] = registry[holder[d]] /\ bucket[d] # 0
        BY <1>2, <1>5 DEF SetupInv
      <3> QED BY <1>3, <3>1, <3>2
    <2> QED BY <2>1, <2>2
  <1>6. holder' \in [Clients -> Holders] /\ bucket' \in [Clients -> Nat]
    BY <1>1, <1>3 DEF SetupInv
  <1>7. ASSUME NEW d \in Clients, built'[d] # "no"
        PROVE  session_bucket'[d] = registry'[configured'[d]] /\ session_bucket'[d] # 0
    <2>1. /\ built[d] # "no" /\ session_bucket'[d] = session_bucket[d]
          /\ configured'[d] = configured[d] /\ configured[d] \in Holders
      BY <1>2, <1>7 DEF SetupInv
    <2>2. session_bucket[d] = registry[configured[d]] /\ session_bucket[d] # 0
      BY <2>1 DEF SetupInv
    <2> QED BY <1>3, <2>1, <2>2
  <1> QED BY <1>2, <1>3, <1>4, <1>5, <1>6, <1>7 DEF SetupInv

LEMMA SetupBegins == SetupInit => SetupInv
  <1> SUFFICES ASSUME SetupInit
               PROVE  SetupInv
    OBVIOUS
  <1>1. Numbered
    <2>1. Holding = {}
      BY DEF SetupInit, Holding
    <2>2. Cardinality(Holding) = 0
      BY <2>1, FS_EmptySet
    <2> QED BY <2>2 DEF SetupInit, Numbered
  <1> QED BY <1>1 DEF SetupInit, SetupInv, ClientTells

LEMMA SetupGoesOn == SetupInv /\ [SetupNext]_stp => SetupInv'
  <1> SUFFICES ASSUME SetupInv, [SetupNext]_stp
               PROVE  SetupInv'
    OBVIOUS
  <1>1. CASE UNCHANGED stp
    <2>1. UNCHANGED <<built, pool, version, configured, holder, bucket, session_bucket, trying,
                      spent, primary_slot, logins, registry>>
      BY <1>1 DEF stp
    <2>2. \A d \in Clients : ClientTells(d)'
      BY <2>1 DEF SetupInv, ClientTells
    <2>3. Numbered'
      BY <2>1 DEF SetupInv, Numbered, Holding
    <2> QED BY <2>1, <2>2, <2>3 DEF SetupInv
  <1> QED BY <1>1, BuildInv, LoginInv, SelectInv DEF SetupNext

LEMMA SetupImplies == SetupInv => SetupTells
  <1> SUFFICES ASSUME SetupInv
               PROVE  SetupTells
    OBVIOUS
  <1>1. ASSUME NEW c \in Clients, NEW d \in Clients, built[c] # "no", built[d] # "no"
        PROVE  /\ holder[c] = holder[d] <=> bucket[c] = bucket[d]
               /\ holder[c] = configured[d] <=> bucket[c] = session_bucket[d]
               /\ configured[c] = configured[d] <=> session_bucket[c] = session_bucket[d]
    <2>1. /\ bucket[c] = registry[holder[c]] /\ bucket[d] = registry[holder[d]] /\ bucket[c] # 0
          /\ session_bucket[c] = registry[configured[c]] /\ session_bucket[c] # 0
          /\ session_bucket[d] = registry[configured[d]]
          /\ holder[c] \in Holders /\ holder[d] \in Holders
          /\ configured[c] \in Holders /\ configured[d] \in Holders
      BY <1>1 DEF SetupInv
    <2> QED BY <2>1 DEF SetupInv, Numbered
  <1> QED BY <1>1 DEF SetupInv, ClientTells, SetupTells

\* Keys are given up, and accounts get their buckets, as they should, for any clients, key
\* lists and accounts and in whatever order they are built and switched.
THEOREM ClientsAreSetUp == SetupSpec => []SetupTells
  BY SetupBegins, SetupGoesOn, SetupImplies, PTL DEF SetupSpec

\* The keys of a client are keys, the default or its whole list.
SlotKeys == ApiKeys \cup {DefaultKey, Raw}

LEMMA SlotsAreKeys ==
  ASSUME NEW list \in KeyLists \cup {Unset}
  PROVE  Slots(EnvOrDefault(list, <<DefaultKey>>)) \in Seq(SlotKeys)
  <1> DEFINE l == EnvOrDefault(list, <<DefaultKey>>)
             kept == {i \in DOMAIN l : l[i] # BlankKey}
             m == Cardinality(kept)
             place(k) == CHOOSE i \in kept : Cardinality(kept \cap (1 .. i)) = k
  <1>1. l \in Seq(ApiKeys \cup {BlankKey, DefaultKey})
    <2>1. <<DefaultKey>> \in Seq(ApiKeys \cup {BlankKey, DefaultKey})
      OBVIOUS
    <2>2. \A q \in Seq(ApiKeys \cup {BlankKey}) : q \in Seq(ApiKeys \cup {BlankKey, DefaultKey})
      OBVIOUS
    <2> QED BY <2>1, <2>2, SetupAssumption DEF EnvOrDefault
  <1> HIDE DEF l
  <1>2. kept \in SUBSET (1 .. Len(l)) /\ Len(l) \in Nat
    BY <1>1
  <1>3. \A i \in kept : l[i] \in SlotKeys
    BY <1>1 DEF SlotKeys
  <1>4. UsableKeys(l) = [k \in 1 .. m |-> l[place(k)]]
    BY DEF UsableKeys
  <1> HIDE DEF kept
  <1>5. IsFiniteSet(kept) /\ kept \in SUBSET Int /\ kept \in SUBSET Nat
    <2>1. IsFiniteSet(1 .. Len(l))
      BY <1>2, FS_Interval
    <2>2. IsFiniteSet(kept)
      BY <1>2, <2>1, FS_Subset
    <2>3. kept \in SUBSET Int /\ kept \in SUBSET Nat
      BY <1>2
    <2> QED BY <2>2, <2>3
  <1>6. m \in Nat
    BY <1>5, FS_CardinalityType
  <1>7. ASSUME NEW k \in 1 .. m PROVE place(k) \in kept
    <2>1. PICK i \in kept : Rank(kept, i) = k
      BY <1>5, <1>7, NthFacts
    <2>2. UpTo(kept, i) = kept \cap (1 .. i)
      <3>1. i \in Nat /\ \A j \in kept : j \in 1 .. i <=> j <= i
        BY <1>2
      <3> QED BY <3>1 DEF UpTo
    <2> QED BY <2>1, <2>2 DEF Rank
  <1> HIDE DEF m, place
  <1>8. UsableKeys(l) \in [1 .. m -> SlotKeys]
    BY <1>3, <1>4, <1>7
  <1>9. UsableKeys(l) \in Seq(SlotKeys)
    BY <1>6, <1>8
  <1>10. <<Raw>> \in Seq(SlotKeys)
    BY DEF SlotKeys
  <1> QED BY <1>9, <1>10 DEF Slots, l

\* What a client keeps of its configuration, and how many buckets there are.
SetupTyped ==
  /\ SetupInv
  /\ pool \in [Clients -> Seq(SlotKeys)] /\ version \in [Clients -> {"2", "3"}]
  /\ \A c \in Clients : built[c] = "no" => bucket[c] = 0 /\ session_bucket[c] = 0

LEMMA SetupTypesBegin == SetupInit => SetupTyped
  <1>1. <<>> \in Seq(SlotKeys)
    OBVIOUS
  <1> QED BY <1>1, SetupBegins DEF SetupInit, SetupTyped

LEMMA SetupKeepsTypes == SetupTyped /\ [SetupNext]_stp => SetupTyped'
  <1> SUFFICES ASSUME SetupTyped, [SetupNext]_stp
               PROVE  /\ (pool \in [Clients -> Seq(SlotKeys)] /\ version \in [Clients -> {"2", "3"}])'
                      /\ \A d \in Clients : built'[d] = "no" => bucket'[d] = 0 /\ session_bucket'[d] = 0
    BY SetupGoesOn DEF SetupTyped, SlotKeys
  <1> USE DEF SetupTyped
  <1>0. /\ built \in [Clients -> {"no", "login", "ready", "exhausted", "error"}]
        /\ bucket \in [Clients -> Nat] /\ session_bucket \in [Clients -> Nat]
    BY DEF SetupInv
  <1>1. CASE UNCHANGED stp
    BY <1>1 DEF stp, SlotKeys
  <1>2. ASSUME NEW c \in Clients, BuildClient(c)
        PROVE  /\ (pool \in [Clients -> Seq(SlotKeys)] /\ version \in [Clients -> {"2", "3"}])'
               /\ \A d \in Clients : built'[d] = "no" => bucket'[d] = 0 /\ session_bucket'[d] = 0
    <2>1. PICK list \in KeyLists \cup {Unset}, text \in {"", "1", "2", "3"} :
            /\ pool' = [pool EXCEPT ![c] = Slots(Config(list, text).api_key)]
            /\ version' = [version EXCEPT ![c] = Config(list, text).api_version]
      BY <1>2 DEF BuildClient
    <2>2. /\ Config(list, text).api_key = EnvOrDefault(list, <<DefaultKey>>)
          /\ Config(list, text).api_version \in {"2", "3"}
      BY DEF Config, ApiVersion
    <2>3. Slots(Config(list, text).api_key) \in Seq(SlotKeys)
      BY <2>2, SlotsAreKeys
    <2>4. pool' \in [Clients -> Seq(SlotKeys)] /\ version' \in [Clients -> {"2", "3"}]
      BY <2>1, <2>2, <2>3
    <2>5. \A d \in Clients : built'[d] = "no" =>
            built[d] = "no" /\ bucket'[d] = bucket[d] /\ session_bucket'[d] = session_bucket[d]
      <3>1. \A d \in Clients : d # c =>
              /\ built'[d] = built[d] /\ bucket'[d] = bucket[d]
              /\ session_bucket'[d] = session_bucket[d]
        BY <1>0, <1>2 DEF BuildClient
      <3>2. built'[c] # "no"
        BY <1>0, <1>2 DEF BuildClient
      <3> QED BY <3>1, <3>2
    <2> QED BY <2>4, <2>5 DEF SlotKeys
  <1>3. ASSUME NEW c \in Clients, SetupStep(c) \/ SelectAccount(c)
        PROVE  /\ UNCHANGED <<pool, version>>
               /\ \A d \in Clients : built'[d] = "no" =>
                    /\ built[d] = "no" /\ bucket'[d] = bucket[d]
                    /\ session_bucket'[d] = session_bucket[d]
    <2>1. CASE SetupStep(c)
      BY <1>0, <2>1 DEF SetupStep, LoginAccepted, LoginExhausted, LoginRefused
    <2>2. CASE SelectAccount(c)
      <3>1. built[c] = "ready" /\ built' = built /\ UNCHANGED <<pool, version, session_bucket>>
        BY <2>2 DEF SelectAccount
      <3>2. \A d \in Clients : d # c => bucket'[d] = bucket[d]
        BY <1>0, <2>2 DEF SelectAccount
      <3> QED BY <3>1, <3>2
    <2> QED BY <1>3, <2>1, <2>2
  <1>4. ASSUME NEW c \in Clients, SetupStep(c) \/ SelectAccount(c)
        PROVE  /\ (pool \in [Clients -> Seq(SlotKeys)] /\ version \in [Clients -> {"2", "3"}])'
               /\ \A d \in Clients : built'[d] = "no" => bucket'[d] = 0 /\ session_bucket'[d] = 0
    BY <1>3, <1>4 DEF SlotKeys
  <1> QED BY <1>1, <1>2, <1>4 DEF SetupNext

LEMMA SetupTypesHold == SetupTyped => SetupTypeOK
  <1> SUFFICES ASSUME SetupTyped PROVE SetupTypeOK
    OBVIOUS
  <1> DEFINE most == Cardinality(Holders)
  <1>1. SetupInv /\ Numbered
    BY DEF SetupTyped, SetupInv
  <1>2. Cardinality(Holding) \in Nat /\ most \in Nat /\ Cardinality(Holding) <= most
    <2>1. Holding \in SUBSET Holders
      BY DEF Holding
    <2> QED BY <2>1, SetupAssumption, FS_Subset, FS_CardinalityType
  <1> HIDE DEF most
  <1>3. \A h \in Holders : registry[h] \in 0 .. most
    <2>1. \A h \in Holders : registry[h] \in Nat /\ registry[h] <= Cardinality(Holding)
      BY <1>1 DEF Numbered
    <2> QED BY <1>2, <2>1
  <1>4. registry \in [Holders -> 0 .. most]
    BY <1>1, <1>3 DEF Numbered
  <1>5. \A c \in Clients : bucket[c] \in 0 .. most
    <2>1. ASSUME NEW c \in Clients PROVE bucket[c] \in 0 .. most
      <3>1. CASE built[c] = "no"
        BY <1>2, <3>1 DEF SetupTyped
      <3>2. CASE built[c] # "no"
        <4>1. bucket[c] = registry[holder[c]] /\ holder[c] \in Holders
          BY <1>1, <3>2 DEF SetupInv
        <4> QED BY <1>3, <4>1
      <3> QED BY <3>1, <3>2
    <2> QED BY <2>1
  <1>6. bucket \in [Clients -> 0 .. most]
    BY <1>1, <1>5 DEF SetupInv
  <1>7. ASSUME NEW c \in Clients PROVE session_bucket[c] \in 0 .. most
    <2>1. CASE built[c] = "no"
      BY <1>2, <2>1 DEF SetupTyped
    <2>2. CASE built[c] # "no"
      <3>1. session_bucket[c] = registry[configured[c]] /\ configured[c] \in Holders
        BY <1>1, <2>2 DEF SetupInv
      <3> QED BY <1>3, <3>1
    <2> QED BY <2>1, <2>2
  <1>8. session_bucket \in [Clients -> 0 .. most]
    BY <1>1, <1>7 DEF SetupInv
  <1> QED BY <1>1, <1>4, <1>6, <1>8 DEF SetupTyped, SetupInv, SetupTypeOK, SlotKeys, most

-----------------------------------------------------------------------------
(* The catalogue.                                                          *)

CatalogNext == GetAllMarkets \/ CatalogStep

CatalogSpec == CatalogInit /\ [][CatalogNext]_cat

Codes == Categories \cup {Blank}

MarketRecords == [epic : Epics, category : Categories]

\* The category that is read stands here in the answered list.
At == Len(offered) - Len(codes) + 1

CatTypes ==
  /\ listing \in [Categories -> Seq(Epics)] /\ undated \subseteq Epics
  /\ catalog \in Ends \cup {"categories", "page", "details"}
  /\ offered \in Seq(Codes) /\ truthful \in BOOLEAN
  /\ codes \in Seq(Codes) /\ seen \subseteq Categories
  /\ page \in Nat /\ size \in 0 .. PageSize
  /\ markets \in Seq(MarketRecords)
  /\ entries \in Seq({"queued", "asked", "listed"} \cup Epics)

\* Where the reading of the categories stands.
CatReads ==
  /\ catalog = "categories" => markets = <<>>
  /\ catalog = "page" =>
       /\ At \in DOMAIN offered /\ Len(codes) # 0
       /\ \A i \in 1 .. Len(codes) : codes[i] = offered[At + i - 1]
       /\ seen = {offered[j] : j \in 1 .. At}
       /\ \A j \in 1 .. At - 1 : offered[j] # offered[At]
  /\ catalog \in {"details", "ok"} => \A j \in DOMAIN offered : offered[j] \in Categories

\* Every category before the current one is read, and every page before the current one.
CatKeeps ==
  truthful =>
    /\ catalog = "page" =>
         /\ \A j \in 1 .. At - 1 : In(listing[offered[j]]) \subseteq Found
         /\ \A n \in 1 .. Len(listing[codes[1]]) : n <= page * size => listing[codes[1]][n] \in Found
         /\ size = 0 => page = 0
    /\ catalog \in {"details", "ok"} =>
         \A j \in DOMAIN offered : In(listing[offered[j]]) \subseteq Found
    /\ catalog \in {"page", "details", "ok"} =>
         \A m \in In(markets) : \E p \in DOMAIN offered :
           /\ offered[p] = m.category /\ offered[p] # Blank /\ m.epic \in In(listing[offered[p]])
           /\ \A j \in 1 .. p - 1 : m.epic \notin In(listing[offered[j]])

CatOnce == \A i, j \in DOMAIN markets : markets[i].epic = markets[j].epic => i = j

CatEntries ==
  /\ entries # <<>> => catalog \in {"details", "ok"} /\ Len(entries) = Len(markets)
  /\ \A i \in DOMAIN entries :
       /\ entries[i] \in Epics => entries[i] = markets[i].epic /\ entries[i] \in undated
       /\ entries[i] = "asked" => markets[i].epic \in undated
  /\ \A i, j \in DOMAIN entries : entries[i] = "asked" /\ j \in Open => i < j + Concurrency

CatalogInv == CatTypes /\ CatReads /\ CatKeeps /\ CatOnce /\ CatEntries

LEMMA CatalogBegins == CatalogInit => CatalogInv
  <1> SUFFICES ASSUME CatalogInit PROVE CatalogInv
    OBVIOUS
  <1>1. listing \in [Categories -> Seq(Epics)]
    <2>1. listing \in Catalogs
      BY CatalogAssumption DEF CatalogInit
    <2> QED BY <2>1, CatalogAssumption
  <1>2. CatTypes
    BY <1>1, CatalogAssumption DEF CatalogInit, CatTypes, Ends
  <1>3. CatReads /\ CatKeeps /\ CatOnce
    BY DEF CatalogInit, CatReads, CatKeeps, CatOnce
  <1>4. CatEntries
    BY DEF CatalogInit, CatEntries
  <1> QED BY <1>2, <1>3, <1>4 DEF CatalogInv

\* What GoOn makes of the categories that are left, the first base of a list being read.
LEMMA ListGoesOn ==
  ASSUME NEW O \in Seq(Codes), NEW past \in 0 .. Len(O), NEW list \in Seq(Codes),
         Len(list) = Len(O) - past, \A i \in 1 .. Len(list) : list[i] = O[past + i],
         NEW done \in SUBSET Categories, done = {O[j] : j \in 1 .. past},
         offered' = O, GoOn(list, done)
  PROVE  /\ page' = 0 /\ size' = 0 /\ codes' \in Seq(Codes) /\ seen' \in SUBSET Categories
         /\ catalog' \in {"ok", "details", "error", "page"}
         /\ catalog' \in {"ok", "details"} => \A j \in 1 .. Len(O) : O[j] \in done
         /\ catalog' = "page" =>
              /\ At' \in 1 .. Len(O) /\ Len(codes') # 0 /\ At' > past
              /\ \A i \in 1 .. Len(codes') : codes'[i] = O[At' + i - 1]
              /\ seen' = {O[j] : j \in 1 .. At'}
              /\ \A j \in 1 .. At' - 1 : O[j] \in done
              /\ O[At'] \notin done
  <1> DEFINE new  == {i \in DOMAIN list : list[i] \notin done}
             rest == IF new = {} THEN <<>> ELSE SubSeq(list, Min(new), Len(list))
  <1>1. /\ codes' = rest /\ page' = 0 /\ size' = 0
        /\ \/ rest = <<>> /\ catalog' \in {"ok", "details"} /\ seen' = done
           \/ rest # <<>> /\ rest[1] = Blank /\ catalog' = "error" /\ seen' = done
           \/ rest # <<>> /\ rest[1] # Blank /\ catalog' = "page" /\ seen' = done \cup {rest[1]}
    BY DEF GoOn
  <1>2. DOMAIN list = 1 .. Len(list) /\ Len(list) \in Nat /\ Len(O) \in Nat /\ past \in Nat
    OBVIOUS
  <1>3. CASE new = {}
    <2>1. rest = <<>>
      BY <1>3
    <2>2. \A i \in 1 .. Len(list) : O[past + i] \in done
      BY <1>2, <1>3
    <2>3. ASSUME NEW j \in 1 .. Len(O) PROVE O[j] \in done
      <3>1. CASE j <= past
        BY <1>2, <3>1
      <3>2. CASE j > past
        <4>1. j - past \in 1 .. Len(list) /\ past + (j - past) = j
          BY <1>2, <3>2
        <4> QED BY <2>2, <4>1
      <3> QED BY <1>2, <3>1, <3>2
    <2>4. codes' = <<>> /\ catalog' \in {"ok", "details"} /\ seen' = done /\ page' = 0 /\ size' = 0
      BY <1>1, <2>1
    <2> HIDE DEF new, rest
    <2> QED BY <2>3, <2>4
  <1>4. CASE new # {}
    <2> DEFINE k == Min(new)
    <2>1. new \in SUBSET Nat
      BY <1>2
    <2>2. k \in new /\ \A y \in new : k <= y
      <3> HIDE DEF new
      <3> QED BY <1>4, <2>1, MinIs
    <2>3. k \in 1 .. Len(list) /\ list[k] \notin done
      BY <1>2, <2>2
    <2>4. \A i \in 1 .. k - 1 : list[i] \in done
      <3>1. ASSUME NEW i \in 1 .. k - 1 PROVE list[i] \in done
        <4>1. i \in 1 .. Len(list) /\ ~ (k <= i)
          BY <1>2, <2>3
        <4> QED BY <1>2, <2>2, <4>1
      <3> QED BY <3>1
    <2>5. rest = SubSeq(list, k, Len(list))
      BY <1>4
    <2> HIDE DEF k, new, rest
    <2>6. /\ rest \in Seq(Codes) /\ Len(rest) = Len(list) - k + 1
          /\ \A i \in 1 .. Len(rest) : rest[i] = list[k + i - 1]
      BY <1>2, <2>3, <2>5
    <2>a. k \in Nat /\ 1 <= k /\ k <= Len(list) /\ Len(list) \in Nat /\ Len(rest) = Len(list) - k + 1
      BY <1>2, <2>3, <2>6
    <2>7. rest # <<>> /\ rest[1] = list[k] /\ Len(rest) # 0
      <3>1. 1 \in 1 .. Len(rest) /\ Len(rest) # 0 /\ k + 1 - 1 = k
        BY ONLY <2>a
      <3>2. rest # <<>>
        BY <3>1
      <3>3. rest[1] = list[k + 1 - 1]
        BY <2>6, <3>1
      <3> QED BY <3>1, <3>2, <3>3
    <2>8. \/ catalog' = "error" /\ seen' = done
          \/ list[k] # Blank /\ catalog' = "page" /\ seen' = done \cup {list[k]}
      BY <1>1, <2>7
    <2>9. list[k] = O[past + k] /\ list[k] \in Codes
      BY <2>3, SMTT(30)
    <2>10. At' = past + k
      BY <1>1, <1>2, <2>3, <2>6 DEF At
    <2>11. \A i \in 1 .. Len(codes') : codes'[i] = O[At' + i - 1]
      <3>1. ASSUME NEW i \in 1 .. Len(rest) PROVE rest[i] = O[past + k + i - 1]
        <4>0. k + i - 1 \in 1 .. Len(list)
          <5>1. i \in 1 .. Len(rest)
            OBVIOUS
          <5> QED BY ONLY <2>a, <5>1
        <4>1. k + i - 1 \in 1 .. Len(list) /\ rest[i] = list[k + i - 1]
          BY <2>6, <4>0
        <4>2. past + (k + i - 1) = past + k + i - 1
          BY <1>2, <2>3
        <4> QED BY <4>1, <4>2
      <3> QED BY <1>1, <2>10, <3>1
    <2>12. \A j \in 1 .. past + k - 1 : O[j] \in done
      <3>1. ASSUME NEW j \in 1 .. past + k - 1 PROVE O[j] \in done
        <4>1. CASE j <= past
          BY <1>2, <2>3, <4>1
        <4>2. CASE j > past
          <5>1. j - past \in 1 .. k - 1 /\ past + (j - past) = j /\ j - past \in 1 .. Len(list)
            BY <1>2, <2>3, <4>2
          <5> QED BY <2>4, <5>1
        <4> QED BY <1>2, <2>3, <4>1, <4>2
      <3> QED BY <3>1
    <2>13. done \cup {O[past + k]} = {O[j] : j \in 1 .. past + k}
      <3>1. ASSUME NEW x \in done PROVE x \in {O[j] : j \in 1 .. past + k}
        <4>1. PICK j \in 1 .. past : x = O[j]
          OBVIOUS
        <4>2. j \in 1 .. past + k
          BY <1>2, <2>3
        <4> QED BY <4>1, <4>2
      <3>2. ASSUME NEW j \in 1 .. past + k PROVE O[j] \in done \cup {O[past + k]}
        <4>1. past \in Nat /\ k \in Nat
          BY <1>2, <2>a
        <4>2. j \in 1 .. past + k - 1 \/ j = past + k
          BY ONLY <4>1
        <4> QED BY <2>12, <4>2
      <3>3. past + k \in 1 .. past + k
        BY <1>2, <2>3
      <3> QED BY <3>1, <3>2, <3>3
    <2>14. past + k \in 1 .. Len(O) /\ past + k > past
      BY <1>2, <2>3
    <2>15. codes' \in Seq(Codes) /\ Len(codes') # 0
      BY <1>1, <2>6, <2>7
    <2>16. seen' \in SUBSET Categories
      BY <2>8, <2>9 DEF Codes
    <2>17. catalog' = "page" => seen' = {O[j] : j \in 1 .. At'}
      BY <2>8, <2>9, <2>10, <2>13
    <2>18. catalog' \in {"error", "page"} /\ page' = 0 /\ size' = 0
      BY <1>1, <2>8
    <2>19. \A j \in 1 .. At' - 1 : O[j] \in done
      <3>1. At' - 1 = past + k - 1
        BY ONLY <1>2, <2>a, <2>10
      <3> QED BY ONLY <2>12, <3>1, Zenon
    <2>20. O[At'] \notin done /\ At' \in 1 .. Len(O) /\ At' > past
      BY <2>3, <2>9, <2>10, <2>14
    <2>21. catalog' \notin {"ok", "details"}
      BY <2>18
    <2> HIDE DEF rest, new, k
    <2> QED BY <2>11, <2>15, <2>16, <2>17, <2>18, <2>19, <2>20, <2>21
  <1> QED BY <1>3, <1>4

\* The rows of a page are the category's, and all of them up to the end of the page.
LEMMA PageIs ==
  ASSUME listing \in [Categories -> Seq(Epics)],
         NEW c \in Categories, NEW n \in Nat, NEW k \in Nat \ {0}
  PROVE  /\ PageOf(c, n, k) \in Seq(Epics)
         /\ In(PageOf(c, n, k)) \subseteq In(listing[c])
         /\ \A j \in 1 .. Len(listing[c]) :
              j <= n * k \/ j > n * k + k \/ listing[c][j] \in In(PageOf(c, n, k))
         /\ PageOf(c, n, k) = <<>> => Len(listing[c]) <= n * k
  <1>1. PICK s \in Seq(Epics) : s = listing[c]
    OBVIOUS
  <1>2. PICK b \in Nat : b = n * k
    <2>1. n * k \in Nat
      OBVIOUS
    <2> QED BY <2>1
  <1>3. PICK l \in Nat : l = Len(s)
    OBVIOUS
  <1>4. PICK u \in Nat : u = IF b + k < l THEN b + k ELSE l
    OBVIOUS
  <1>5. u <= l /\ u <= b + k /\ (u = l \/ u = b + k)
    BY <1>4
  <1>6. PICK r : r = PageOf(c, n, k)
    OBVIOUS
  <1>7. r = SubSeq(s, b + 1, u)
    BY <1>1, <1>2, <1>3, <1>4, <1>6 DEF PageOf
  <1>8. \A i \in b + 1 .. u : i \in 1 .. l /\ s[i] \in Epics
    BY <1>3, <1>5
  <1>9. /\ r \in Seq(Epics)
        /\ Len(r) = IF b + 1 <= u THEN u - (b + 1) + 1 ELSE 0
        /\ \A i \in 1 .. u - (b + 1) + 1 : r[i] = s[b + 1 + i - 1]
    BY <1>7, <1>8, SubSeqProperties
  <1>10. In(r) \subseteq In(s)
    <2>1. ASSUME NEW i \in DOMAIN r PROVE r[i] \in In(s)
      <3>1. i \in 1 .. Len(r)
        BY <1>9
      <3>2. i \in 1 .. u - (b + 1) + 1 /\ b + 1 + i - 1 \in 1 .. l
        BY <1>5, <1>9, <3>1
      <3>3. r[i] = s[b + 1 + i - 1] /\ b + 1 + i - 1 \in DOMAIN s
        BY <1>3, <1>9, <3>2
      <3> QED BY <3>3 DEF In
    <2> QED BY <2>1 DEF In
  <1>11. ASSUME NEW j \in 1 .. l, ~ (j <= b), ~ (j > b + k) PROVE s[j] \in In(r)
    <2>1. j - b \in 1 .. u - (b + 1) + 1 /\ b + 1 + (j - b) - 1 = j /\ b + 1 <= u
      BY <1>5, <1>11
    <2>2. j - b \in DOMAIN r
      BY <1>9, <2>1
    <2>3. r[j - b] = s[j]
      BY <1>9, <2>1
    <2> QED BY <2>2, <2>3 DEF In
  <1>12. ASSUME r = <<>> PROVE l <= b
    <2>1. ~ (b + 1 <= u)
      BY <1>9, <1>12
    <2> QED BY <1>5, <2>1
  <1> QED BY <1>1, <1>2, <1>3, <1>6, <1>9, <1>10, <1>11, <1>12

\* What a page adds: each instrument of it that was not found, once.
LEMMA AddedIs ==
  ASSUME NEW list \in Seq(Epics), Head(codes) \in Categories
  PROVE  /\ Added(list) \in Seq(MarketRecords)
         /\ \A n \in 1 .. Len(Added(list)) :
              /\ Added(list)[n].epic \in In(list) /\ Added(list)[n].epic \notin Found
              /\ Added(list)[n].category = Head(codes)
         /\ \A m, n \in 1 .. Len(Added(list)) : Added(list)[m].epic = Added(list)[n].epic => m = n
         /\ \A i \in 1 .. Len(list) : list[i] \in Found
              \/ \E n \in 1 .. Len(Added(list)) : Added(list)[n].epic = list[i]
  <1> DEFINE new == {i \in DOMAIN list : list[i] \notin Found
                                         /\ \A j \in 1 .. i - 1 : list[j] # list[i]}
             a == Added(list)
  <1>1. new \in SUBSET Int /\ IsFiniteSet(new) /\ DOMAIN list = 1 .. Len(list)
    <2>1. DOMAIN list = 1 .. Len(list) /\ Len(list) \in Nat
      OBVIOUS
    <2>2. IsFiniteSet(1 .. Len(list))
      BY <2>1, FS_Interval
    <2>3. new \in SUBSET (1 .. Len(list))
      BY <2>1
    <2>4. IsFiniteSet(new)
      BY <2>2, <2>3, FS_Subset
    <2> QED BY <2>1, <2>3, <2>4
  <1>2. \A i \in new : i \in 1 .. Len(list) /\ list[i] \notin Found /\ \A j \in 1 .. i - 1 : list[j] # list[i]
    BY <1>1
  <1>3. \A i \in 1 .. Len(list) : list[i] \notin Found => \E k \in new : list[k] = list[i]
    <2>1. ASSUME NEW i \in 1 .. Len(list), list[i] \notin Found
          PROVE  \E k \in new : list[k] = list[i]
      <3> DEFINE T == {k \in 1 .. Len(list) : list[k] = list[i]}
      <3>1. T \in SUBSET Nat /\ T # {}
        OBVIOUS
      <3>2. PICK k \in T : \A y \in T : k <= y
        BY <3>1, LeastOf
      <3>3. k \in 1 .. Len(list) /\ list[k] = list[i]
        OBVIOUS
      <3>4. ASSUME NEW j \in 1 .. k - 1, list[j] = list[k] PROVE FALSE
        <4>1. j \in 1 .. Len(list) /\ ~ (k <= j)
          BY <3>3
        <4>2. j \in T
          BY <3>3, <3>4, <4>1
        <4> QED BY <3>2, <4>1, <4>2
      <3>5. k \in new
        BY <1>1, <2>1, <3>3, <3>4
      <3> QED BY <3>3, <3>5
    <2> QED BY <2>1
  <1>4. a = [n \in 1 .. Cardinality(new) |-> MarketOf(list[Nth(new, n)], Head(codes))]
    BY DEF Added, Nth, Rank, UpTo
  <1> HIDE DEF new, a
  <1>5. /\ Cardinality(new) \in Nat
        /\ \A i \in new : Rank(new, i) \in 1 .. Cardinality(new)
    BY <1>1, RankFacts
  <1>6. /\ \A n \in 1 .. Cardinality(new) : Nth(new, n) \in new /\ Rank(new, Nth(new, n)) = n
        /\ \A i \in new : Nth(new, Rank(new, i)) = i
    BY <1>1, NthFacts
  <1>7. \A n \in 1 .. Cardinality(new) :
          a[n].epic = list[Nth(new, n)] /\ a[n].category = Head(codes) /\ a[n] \in MarketRecords
    <2>1. ASSUME NEW n \in 1 .. Cardinality(new)
          PROVE  a[n].epic = list[Nth(new, n)] /\ a[n].category = Head(codes) /\ a[n] \in MarketRecords
      <3>1. PICK e : e = list[Nth(new, n)]
        OBVIOUS
      <3>2. Nth(new, n) \in 1 .. Len(list)
        BY <1>2, <1>6
      <3>3. e \in Epics
        BY <3>1, <3>2
      <3>4. a[n] = [epic |-> e, category |-> Head(codes)]
        BY <1>4, <3>1 DEF MarketOf
      <3> QED BY <3>1, <3>3, <3>4 DEF MarketRecords
    <2> QED BY <2>1
  <1>8. a \in Seq(MarketRecords) /\ Len(a) = Cardinality(new)
    <2>1. DOMAIN a = 1 .. Cardinality(new)
      BY <1>4
    <2>2. a \in [1 .. Cardinality(new) -> MarketRecords]
      BY <1>4, <1>7, <2>1
    <2> QED BY <1>5, <2>2
  <1>9. \A n \in 1 .. Len(a) : a[n].epic \in In(list) /\ a[n].epic \notin Found
    <2>1. ASSUME NEW n \in 1 .. Cardinality(new) PROVE a[n].epic \in In(list) /\ a[n].epic \notin Found
      <3>1. Nth(new, n) \in DOMAIN list /\ list[Nth(new, n)] \notin Found
        BY <1>1, <1>2, <1>6
      <3> QED BY <1>7, <3>1 DEF In
    <2> QED BY <1>8, <2>1
  <1>10. \A m, n \in 1 .. Len(a) : a[m].epic = a[n].epic => m = n
    <2>1. ASSUME NEW m \in 1 .. Cardinality(new), NEW n \in 1 .. Cardinality(new),
                 list[Nth(new, m)] = list[Nth(new, n)]
          PROVE  m = n
      <3>1. PICK i \in new : i = Nth(new, m)
        BY <1>6
      <3>2. PICK k \in new : k = Nth(new, n)
        BY <1>6
      <3>3. i \in 1 .. Len(list) /\ k \in 1 .. Len(list) /\ list[i] = list[k]
        BY <1>2, <2>1, <3>1, <3>2
      <3>4. ~ (i < k)
        <4>1. ASSUME i < k PROVE FALSE
          <5>1. i \in 1 .. k - 1
            BY <3>3, <4>1
          <5> QED BY <1>2, <3>3, <5>1
        <4> QED BY <4>1
      <3>5. ~ (k < i)
        <4>1. ASSUME k < i PROVE FALSE
          <5>1. k \in 1 .. i - 1
            BY <3>3, <4>1
          <5> QED BY <1>2, <3>3, <5>1
        <4> QED BY <4>1
      <3>6. i = k
        BY <3>3, <3>4, <3>5
      <3> QED BY <1>6, <3>1, <3>2, <3>6
    <2> QED BY <1>7, <1>8, <2>1
  <1>11. \A i \in 1 .. Len(list) : list[i] \in Found \/ \E n \in 1 .. Len(a) : a[n].epic = list[i]
    <2>1. ASSUME NEW i \in 1 .. Len(list), list[i] \notin Found
          PROVE  \E n \in 1 .. Len(a) : a[n].epic = list[i]
      <3>1. PICK k \in new : list[k] = list[i]
        BY <1>3, <2>1
      <3>2. Rank(new, k) \in 1 .. Cardinality(new) /\ Nth(new, Rank(new, k)) = k
        BY <1>5, <1>6
      <3>3. a[Rank(new, k)].epic = list[i]
        BY <1>7, <3>1, <3>2
      <3> QED BY <1>8, <3>2, <3>3
    <2> QED BY <2>1
  <1>12. a \in Seq(MarketRecords) /\ \A n \in 1 .. Len(a) : a[n].category = Head(codes)
    BY <1>7, <1>8
  <1> QED BY <1>9, <1>10, <1>11, <1>12 DEF a

\* What an answer that fits holds.
LEMMA AnswerIs ==
  ASSUME CatTypes, Head(codes) \in Categories,
         NEW said \in PageAnswers(page), Fits(said), Blank \notin In(said.rows)
  PROVE  /\ said.rows \in Seq(Epics) /\ said.true \in BOOLEAN
         /\ said.size \in 1 .. PageSize /\ (size # 0 => said.size = size)
         /\ said.true => said.rows = PageOf(Head(codes), page, said.size)
  <1>1. /\ said.number = page /\ said.size \in 1 .. PageSize
        /\ (size # 0 => said.size = size)
    BY DEF Fits
  <1>2. CASE said \in {[number |-> m, size |-> k, rows |-> PageOf(Head(codes), m, k), true |-> TRUE] :
                            m \in {page, page + 1}, k \in 0 .. PageSize + 1}
    <2>1. PICK m \in {page, page + 1}, k \in 0 .. PageSize + 1 :
             said = [number |-> m, size |-> k, rows |-> PageOf(Head(codes), m, k), true |-> TRUE]
      BY <1>2
    <2>2. said.number = m /\ said.size = k /\ said.rows = PageOf(Head(codes), m, k) /\ said.true = TRUE
      BY <2>1
    <2>3. said.rows = PageOf(Head(codes), page, said.size) /\ said.true = TRUE
      BY <1>1, <2>2
    <2>4. said.size \in Nat \ {0} /\ page \in Nat /\ listing \in [Categories -> Seq(Epics)]
      BY <1>1, CatalogAssumption DEF CatTypes
    <2>5. said.rows \in Seq(Epics)
      BY <2>3, <2>4, PageIs
    <2> QED BY <1>1, <2>3, <2>5
  <1>3. CASE said \in {[number |-> page, size |-> PageSize, rows |-> r, true |-> FALSE] : r \in Strays}
    <2>1. PICK r \in Strays : said = [number |-> page, size |-> PageSize, rows |-> r, true |-> FALSE]
      BY <1>3
    <2>2. said.rows = r /\ said.true = FALSE
      BY <2>1
    <2>3. r \in Seq(Epics \cup {Blank}) /\ Blank \notin In(r)
      BY <2>2, CatalogAssumption
    <2>4. \A i \in 1 .. Len(r) : r[i] \in Epics
      BY <2>3 DEF In
    <2>5. r \in Seq(Epics)
      BY <2>3, <2>4
    <2> QED BY <1>1, <2>2, <2>5
  <1> QED BY <1>2, <1>3 DEF PageAnswers

\* The category that is read, and its place.
LEMMA CurrentIs ==
  ASSUME CatTypes, CatReads, catalog = "page"
  PROVE  /\ codes # <<>> /\ Head(codes) = codes[1] /\ codes[1] = offered[At]
         /\ codes[1] \in Categories /\ At \in 1 .. Len(offered)
         /\ Len(codes) = Len(offered) - At + 1
         /\ Len(codes) \in Nat \ {0} /\ Len(offered) \in Nat
  <1>1. /\ codes \in Seq(Codes) /\ offered \in Seq(Codes) /\ seen \subseteq Categories
        /\ At \in DOMAIN offered /\ Len(codes) # 0
        /\ \A i \in 1 .. Len(codes) : codes[i] = offered[At + i - 1]
        /\ seen = {offered[j] : j \in 1 .. At}
    BY DEF CatTypes, CatReads
  <1>2. Len(codes) \in Nat /\ Len(offered) \in Nat /\ At \in 1 .. Len(offered)
    BY <1>1
  <1>3. 1 \in 1 .. Len(codes) /\ At + 1 - 1 = At /\ At \in 1 .. At
    BY <1>1, <1>2
  <1>4. codes[1] = offered[At] /\ offered[At] \in Categories
    BY <1>1, <1>3
  <1>5. Len(codes) = Len(offered) - At + 1
    BY <1>2 DEF At
  <1>6. codes # <<>> /\ Head(codes) = codes[1]
    BY <1>1
  <1> QED BY <1>1, <1>2, <1>4, <1>5, <1>6

LEMMA PageAnsweredKeeps == CatalogInv /\ PageAnswered => CatalogInv'
  <1> SUFFICES ASSUME CatalogInv, PageAnswered PROVE CatalogInv'
    OBVIOUS
  <1> USE DEF CatalogInv
  <1>1. PICK said \in PageAnswers(page) :
          /\ Fits(said) /\ Blank \notin In(said.rows)
          /\ markets' = markets \o Added(said.rows)
          /\ size' = said.size
          /\ truthful' = (truthful /\ said.true)
    BY DEF PageAnswered
  <1>2. /\ catalog = "page" /\ page' = page + 1 /\ catalog' \in {"error", "page"}
        /\ UNCHANGED <<listing, undated, offered, codes, seen, entries>>
    BY DEF PageAnswered
  <1>3. /\ codes # <<>> /\ Head(codes) = codes[1] /\ codes[1] = offered[At]
        /\ codes[1] \in Categories /\ At \in 1 .. Len(offered)
    BY <1>2, CurrentIs
  <1>4. /\ said.rows \in Seq(Epics) /\ said.true \in BOOLEAN
        /\ said.size \in 1 .. PageSize /\ (size # 0 => said.size = size)
        /\ said.true => said.rows = PageOf(Head(codes), page, said.size)
    BY <1>1, <1>3, AnswerIs
  <1>5. PICK a : a = Added(said.rows)
    OBVIOUS
  <1>6. /\ a \in Seq(MarketRecords)
        /\ \A n \in 1 .. Len(a) : a[n].epic \in In(said.rows) /\ a[n].epic \notin Found
                                  /\ a[n].category = codes[1]
        /\ \A m, n \in 1 .. Len(a) : a[m].epic = a[n].epic => m = n
        /\ \A i \in 1 .. Len(said.rows) : said.rows[i] \in Found
              \/ \E n \in 1 .. Len(a) : a[n].epic = said.rows[i]
    BY <1>3, <1>4, <1>5, AddedIs
  <1>7. /\ markets \in Seq(MarketRecords) /\ markets' = markets \o a /\ Len(markets) \in Nat /\ Len(a) \in Nat
    BY <1>1, <1>5, <1>6 DEF CatTypes
  <1>8. /\ markets' \in Seq(MarketRecords) /\ Len(markets') = Len(markets) + Len(a)
        /\ \A i \in 1 .. Len(markets') :
             markets'[i] = IF i <= Len(markets) THEN markets[i] ELSE a[i - Len(markets)]
    BY <1>6, <1>7, ConcatProperties
  <1>9. \A i \in 1 .. Len(markets') :
          \/ i \in 1 .. Len(markets) /\ markets'[i] = markets[i] /\ markets[i].epic \in Found
          \/ i - Len(markets) \in 1 .. Len(a) /\ markets'[i] = a[i - Len(markets)]
    <2>1. ASSUME NEW i \in 1 .. Len(markets')
          PROVE \/ i \in 1 .. Len(markets) /\ markets'[i] = markets[i] /\ markets[i].epic \in Found
                \/ i - Len(markets) \in 1 .. Len(a) /\ markets'[i] = a[i - Len(markets)]
      <3>1. CASE i <= Len(markets)
        <4>1. i \in 1 .. Len(markets) /\ markets'[i] = markets[i]
          BY <1>7, <1>8, <3>1
        <4>2. markets[i].epic \in Found
          BY <1>7, <4>1 DEF Found, In
        <4> QED BY <4>1, <4>2
      <3>2. CASE ~ (i <= Len(markets))
        BY <1>7, <1>8, <3>2
      <3> QED BY <3>1, <3>2
    <2> QED BY <2>1
  <1>10. /\ Found \subseteq Found'
         /\ \A n \in 1 .. Len(a) : a[n].epic \in Found'
    <2>1. DOMAIN markets = 1 .. Len(markets) /\ DOMAIN markets' = 1 .. Len(markets')
      BY <1>7, <1>8
    <2>2. ASSUME NEW i \in 1 .. Len(markets) PROVE markets[i].epic \in Found'
      <3>1. i \in 1 .. Len(markets') /\ markets'[i] = markets[i]
        BY <1>7, <1>8
      <3> QED BY <2>1, <3>1 DEF Found, In
    <2>3. ASSUME NEW n \in 1 .. Len(a) PROVE a[n].epic \in Found'
      <3>1. n + Len(markets) \in 1 .. Len(markets') /\ ~ (n + Len(markets) <= Len(markets))
            /\ n + Len(markets) - Len(markets) = n
        BY <1>7, <1>8
      <3>2. markets'[n + Len(markets)] = a[n]
        BY <1>8, <3>1
      <3> QED BY <2>1, <3>1, <3>2 DEF Found, In
    <2> QED BY <2>1, <2>2, <2>3 DEF Found, In
  <1>11. In(said.rows) \subseteq Found'
    <2>1. DOMAIN said.rows = 1 .. Len(said.rows)
      BY <1>4
    <2> QED BY <1>6, <1>10, <2>1 DEF In
  <1>12. CatTypes'
    BY <1>1, <1>2, <1>4, <1>8 DEF CatTypes, Ends
  <1>13. At' = At
    BY <1>2 DEF At
  <1>14. CatReads'
    BY <1>2, <1>13 DEF CatReads
  <1>15. CatOnce'
    <2>1. ASSUME NEW i \in 1 .. Len(markets'), NEW j \in 1 .. Len(markets'), i - Len(markets) \in 1 .. Len(a),
                 markets'[i] = a[i - Len(markets)], markets'[i].epic = markets'[j].epic
          PROVE  i = j
      <3>1. markets'[i].epic \notin Found
        BY <1>6, <2>1
      <3>2. j - Len(markets) \in 1 .. Len(a) /\ markets'[j] = a[j - Len(markets)]
        BY <1>9, <2>1, <3>1
      <3>3. i - Len(markets) = j - Len(markets)
        <4>1. PICK x \in 1 .. Len(a) : x = i - Len(markets)
          BY <2>1
        <4>2. PICK y \in 1 .. Len(a) : y = j - Len(markets)
          BY <3>2
        <4>3. a[x].epic = a[y].epic
          BY <2>1, <3>2, <4>1, <4>2
        <4> QED BY <1>6, <4>1, <4>2, <4>3
      <3>4. i \in Nat /\ j \in Nat /\ Len(markets) \in Nat
        BY <1>7
      <3> QED BY ONLY <3>3, <3>4
    <2>2. ASSUME NEW i \in 1 .. Len(markets'), NEW j \in 1 .. Len(markets'),
                 i \in 1 .. Len(markets), markets'[i] = markets[i],
                 j \in 1 .. Len(markets), markets'[j] = markets[j], markets'[i].epic = markets'[j].epic
          PROVE  i = j
      <3>1. DOMAIN markets = 1 .. Len(markets)
        BY <1>7
      <3> QED BY <2>2, <3>1 DEF CatOnce
    <2>3. DOMAIN markets' = 1 .. Len(markets')
      BY <1>8
    <2> QED BY <1>9, <2>1, <2>2, <2>3 DEF CatOnce
  <1>16. CatEntries'
    <2>1. entries = <<>>
      BY <1>2 DEF CatEntries
    <2> QED BY <1>2, <2>1 DEF CatEntries, Open
  <1>17. CatKeeps'
    <2> SUFFICES ASSUME truthful', catalog' = "page" PROVE CatKeeps'
      BY <1>2 DEF CatKeeps
    <2>1. truthful /\ said.true /\ said.rows = PageOf(codes[1], page, said.size)
      BY <1>1, <1>3, <1>4
    <2>2. /\ \A j \in 1 .. At - 1 : In(listing[offered[j]]) \subseteq Found
          /\ \A n \in 1 .. Len(listing[codes[1]]) : n <= page * size => listing[codes[1]][n] \in Found
          /\ size = 0 => page = 0
          /\ \A m \in In(markets) : \E p \in DOMAIN offered :
               /\ offered[p] = m.category /\ offered[p] # Blank /\ m.epic \in In(listing[offered[p]])
               /\ \A j \in 1 .. p - 1 : m.epic \notin In(listing[offered[j]])
      BY <1>2, <2>1 DEF CatKeeps
    <2>3. /\ page \in Nat /\ said.size \in Nat \ {0} /\ listing \in [Categories -> Seq(Epics)]
      BY <1>4, CatalogAssumption DEF CatTypes
    <2>4. /\ In(said.rows) \subseteq In(listing[codes[1]])
          /\ \A j \in 1 .. Len(listing[codes[1]]) :
               j <= page * said.size \/ j > page * said.size + said.size
               \/ listing[codes[1]][j] \in In(said.rows)
      BY <1>3, <2>1, <2>3, PageIs
    <2>5. ASSUME NEW n \in 1 .. Len(listing[codes[1]]), n <= page' * size'
          PROVE  listing[codes[1]][n] \in Found'
      <3>1. Len(listing[codes[1]]) \in Nat /\ n \in Nat \ {0}
        BY <1>3, <2>3
      <3>2. page' * size' = page * said.size + said.size
        <4>1. page' = page + 1 /\ size' = said.size
          BY <1>1, <1>2
        <4>2. (page + 1) * said.size = page * said.size + said.size
          <5>1. PICK p \in Nat : p = page
            BY <2>3
          <5>2. PICK k \in Nat : k = said.size
            BY <2>3
          <5>3. (p + 1) * k = p * k + k
            OBVIOUS
          <5> QED BY <5>1, <5>2, <5>3
        <4> QED BY <4>1, <4>2
      <3>3. PICK b \in Nat : b = page * said.size
        <4>1. page * said.size \in Nat
          BY ONLY <2>3
        <4> QED BY <4>1
      <3>4. n <= b \/ listing[codes[1]][n] \in In(said.rows)
        <4>1. n <= b + said.size
          BY <2>5, <3>2, <3>3
        <4>2. n <= b \/ n > b + said.size \/ listing[codes[1]][n] \in In(said.rows)
          BY <2>4, <3>3
        <4> QED BY <2>3, <3>1, <3>3, <4>1, <4>2
      <3>5. CASE n <= b
        <4>1. size # 0
          <5>1. ASSUME size = 0 PROVE FALSE
            <6>1. page = 0
              BY <2>2, <5>1
            <6>2. b = 0
              BY <2>3, <3>3, <6>1
            <6> QED BY <3>1, <3>5, <6>2
          <5> QED BY <5>1
        <4>2. n <= page * size
          BY <1>4, <3>3, <3>5, <4>1
        <4> QED BY <1>10, <2>2, <4>2
      <3> QED BY <1>11, <3>4, <3>5
    <2>6. ASSUME NEW m \in In(markets') PROVE
            \E p \in DOMAIN offered :
               /\ offered[p] = m.category /\ offered[p] # Blank /\ m.epic \in In(listing[offered[p]])
               /\ \A j \in 1 .. p - 1 : m.epic \notin In(listing[offered[j]])
      <3>1. PICK i \in 1 .. Len(markets') : m = markets'[i]
        BY <1>8 DEF In
      <3>2. CASE i \in 1 .. Len(markets) /\ markets'[i] = markets[i]
        <4>1. m \in In(markets)
          BY <1>7, <3>1, <3>2 DEF In
        <4> QED BY <2>2, <4>1
      <3>3. CASE i - Len(markets) \in 1 .. Len(a) /\ markets'[i] = a[i - Len(markets)]
        <4>1. m.epic \in In(said.rows) /\ m.epic \notin Found /\ m.category = codes[1]
          BY <1>6, <3>1, <3>3
        <4>2. offered[At] = m.category /\ m.epic \in In(listing[offered[At]]) /\ offered[At] # Blank
          BY <1>3, <2>4, <4>1, CatalogAssumption
        <4>3. \A j \in 1 .. At - 1 : m.epic \notin In(listing[offered[j]])
          BY <2>2, <4>1
        <4>4. At \in DOMAIN offered
          BY <1>2 DEF CatReads
        <4> QED BY <4>2, <4>3, <4>4
      <3> QED BY <1>9, <3>1, <3>2, <3>3
    <2>7. \A j \in 1 .. At - 1 : In(listing[offered[j]]) \subseteq Found'
      BY <1>10, <2>2
    <2>8. size' # 0
      BY <1>1, <2>3
    <2>9. /\ \A j \in 1 .. At' - 1 : In(listing'[offered'[j]]) \subseteq Found'
          /\ \A n \in 1 .. Len(listing'[codes'[1]]) : n <= page' * size' => listing'[codes'[1]][n] \in Found'
          /\ size' # 0
          /\ \A m \in In(markets') : \E p \in DOMAIN offered' :
               /\ offered'[p] = m.category /\ offered'[p] # Blank /\ m.epic \in In(listing'[offered'[p]])
               /\ \A j \in 1 .. p - 1 : m.epic \notin In(listing'[offered'[j]])
      BY <1>2, <1>13, <2>5, <2>6, <2>7, <2>8
    <2>10. In(markets)' = In(markets')
      BY DEF In
    <2> QED BY <2>9, <2>10 DEF CatKeeps, In
  <1> QED BY <1>12, <1>14, <1>15, <1>16, <1>17

\* A category that is read leaves no instrument of it out.
LEMMA LastPageKeeps == CatalogInv /\ LastPageAnswered => CatalogInv'
  <1> SUFFICES ASSUME CatalogInv, LastPageAnswered PROVE CatalogInv'
    OBVIOUS
  <1> USE DEF CatalogInv
  <1>1. PICK said \in PageAnswers(page) :
          /\ Fits(said) /\ said.rows = <<>>
          /\ truthful' = (truthful /\ said.true)
    BY DEF LastPageAnswered
  <1>2. /\ catalog = "page" /\ GoOn(Tail(codes), seen)
        /\ UNCHANGED <<listing, undated, offered, markets, entries>>
    BY DEF LastPageAnswered
  <1>3. /\ codes # <<>> /\ Head(codes) = codes[1] /\ codes[1] = offered[At]
        /\ codes[1] \in Categories /\ At \in 1 .. Len(offered)
        /\ Len(codes) = Len(offered) - At + 1
        /\ Len(codes) \in Nat \ {0} /\ Len(offered) \in Nat
    BY <1>2, CurrentIs
  <1>4. /\ said.true \in BOOLEAN
        /\ said.size \in 1 .. PageSize /\ (size # 0 => said.size = size)
        /\ said.true => said.rows = PageOf(Head(codes), page, said.size)
    <2>1. Blank \notin In(said.rows)
      BY <1>1 DEF In
    <2> QED BY <1>1, <1>3, <2>1, AnswerIs
  <1>5. PICK b \in 1 .. Len(offered) : b = At
    BY <1>3
  <1>6. PICK rest \in Seq(Codes) :
          /\ rest = Tail(codes) /\ Len(rest) = Len(offered) - b
          /\ \A i \in 1 .. Len(rest) : rest[i] = offered[b + i]
    <2>1. /\ Tail(codes) \in Seq(Codes) /\ Len(Tail(codes)) = Len(codes) - 1
          /\ \A i \in 1 .. Len(Tail(codes)) : Tail(codes)[i] = codes[i + 1]
      BY <1>3, HeadTailProperties DEF CatTypes
    <2>2. Len(Tail(codes)) = Len(offered) - b
      BY <1>3, <1>5, <2>1
    <2>3. ASSUME NEW i \in 1 .. Len(Tail(codes)) PROVE Tail(codes)[i] = offered[b + i]
      <3>1. i + 1 \in 1 .. Len(codes) /\ b + (i + 1) - 1 = b + i
        BY <1>3, <1>5, <2>1
      <3>2. codes[i + 1] = offered[b + (i + 1) - 1]
        BY <1>2, <1>5, <3>1 DEF CatReads
      <3> QED BY <2>1, <3>1, <3>2
    <2> QED BY <2>1, <2>2, <2>3
  <1>7. /\ seen \in SUBSET Categories /\ seen = {offered[j] : j \in 1 .. b}
        /\ offered \in Seq(Codes) /\ offered' = offered
    BY <1>2, <1>5 DEF CatTypes, CatReads
  <1>8. /\ page' = 0 /\ size' = 0 /\ codes' \in Seq(Codes) /\ seen' \in SUBSET Categories
        /\ catalog' \in {"ok", "details", "error", "page"}
        /\ catalog' \in {"ok", "details"} => \A j \in 1 .. Len(offered) : offered[j] \in seen
        /\ catalog' = "page" =>
              /\ At' \in 1 .. Len(offered) /\ Len(codes') # 0 /\ At' > b
              /\ \A i \in 1 .. Len(codes') : codes'[i] = offered[At' + i - 1]
              /\ seen' = {offered[j] : j \in 1 .. At'}
              /\ \A j \in 1 .. At' - 1 : offered[j] \in seen
              /\ offered[At'] \notin seen
    <2>1. GoOn(rest, seen) /\ b \in 0 .. Len(offered)
      BY <1>2, <1>3, <1>6
    <2>2. PICK o \in Seq(Codes) : o = offered
      BY <1>7
    <2>3. PICK d \in SUBSET Categories : d = seen
      BY <1>7
    <2>4. /\ Len(rest) = Len(o) - b /\ \A i \in 1 .. Len(rest) : rest[i] = o[b + i]
          /\ d = {o[j] : j \in 1 .. b} /\ offered' = o /\ GoOn(rest, d) /\ b \in 0 .. Len(o)
      BY <1>6, <1>7, <2>1, <2>2, <2>3
    <2>5. /\ page' = 0 /\ size' = 0 /\ codes' \in Seq(Codes) /\ seen' \in SUBSET Categories
          /\ catalog' \in {"ok", "details", "error", "page"}
          /\ catalog' \in {"ok", "details"} => \A j \in 1 .. Len(o) : o[j] \in d
          /\ catalog' = "page" =>
                /\ At' \in 1 .. Len(o) /\ Len(codes') # 0 /\ At' > b
                /\ \A i \in 1 .. Len(codes') : codes'[i] = o[At' + i - 1]
                /\ seen' = {o[j] : j \in 1 .. At'}
                /\ \A j \in 1 .. At' - 1 : o[j] \in d
                /\ o[At'] \notin d
      BY ONLY <2>4, ListGoesOn
    <2> QED BY <2>2, <2>3, <2>5
  <1>9. DOMAIN offered = 1 .. Len(offered)
    BY <1>7
  <1>10. CatTypes'
    BY <1>1, <1>2, <1>4, <1>8, CatalogAssumption DEF CatTypes, Ends
  <1>11. CatReads'
    <2>1. catalog' = "page" => \A j \in 1 .. At' - 1 : offered[j] # offered[At']
      BY <1>8
    <2>2. catalog' \in {"details", "ok"} => \A j \in DOMAIN offered : offered[j] \in Categories
      BY <1>7, <1>8, <1>9
    <2> QED BY <1>7, <1>8, <1>9, <2>1, <2>2 DEF CatReads
  <1>12. Found' = Found /\ In(markets') = In(markets) /\ In(markets)' = In(markets)
    BY <1>2 DEF Found, In
  <1>13. ASSUME truthful' PROVE \A c \in seen : In(listing[c]) \subseteq Found
    <2>1. truthful /\ PageOf(codes[1], page, said.size) = <<>>
      BY <1>1, <1>3, <1>4, <1>13
    <2>2. /\ \A j \in 1 .. b - 1 : In(listing[offered[j]]) \subseteq Found
          /\ \A n \in 1 .. Len(listing[codes[1]]) : n <= page * size => listing[codes[1]][n] \in Found
          /\ size = 0 => page = 0
      BY <1>2, <1>5, <2>1 DEF CatKeeps
    <2>3. /\ page \in Nat /\ said.size \in Nat \ {0} /\ listing \in [Categories -> Seq(Epics)]
      BY <1>4, CatalogAssumption DEF CatTypes
    <2>4. Len(listing[codes[1]]) <= page * said.size
      BY <1>3, <2>1, <2>3, PageIs
    <2>5. page * said.size = page * size
      <3>1. CASE size # 0
        BY <1>4, <3>1
      <3>2. CASE size = 0
        <4>1. page = 0
          BY <2>2, <3>2
        <4>2. \A k \in Nat : 0 * k = 0
          OBVIOUS
        <4> QED BY <2>3, <3>2, <4>1, <4>2
      <3> QED BY <3>1, <3>2
    <2>6. \A n \in 1 .. Len(listing[codes[1]]) : listing[codes[1]][n] \in Found
      <3>1. PICK k : k = page * size
        OBVIOUS
      <3>2. k \in Nat
        <4>1. \A x, y \in Nat : x * y \in Nat
          OBVIOUS
        <4> QED BY <2>3, <2>5, <3>1, <4>1
      <3>3. Len(listing[codes[1]]) \in Nat /\ Len(listing[codes[1]]) <= k
        BY <1>3, <2>3, <2>4, <2>5, <3>1
      <3>4. \A n \in 1 .. Len(listing[codes[1]]) : n <= k
        BY <3>2, <3>3
      <3> QED BY <2>2, <3>1, <3>4
    <2>7. In(listing[codes[1]]) \subseteq Found
      <3>1. DOMAIN listing[codes[1]] = 1 .. Len(listing[codes[1]])
        BY <1>3, <2>3
      <3> QED BY <2>6, <3>1 DEF In
    <2>8. ASSUME NEW j \in 1 .. b PROVE In(listing[offered[j]]) \subseteq Found
      <3>1. j \in 1 .. b - 1 \/ j = b
        OBVIOUS
      <3> QED BY <1>3, <1>5, <2>2, <2>7, <3>1
    <2> QED BY <1>7, <2>8
  <1>14. CatKeeps'
    <2> SUFFICES ASSUME truthful', catalog' # "error" PROVE CatKeeps'
      BY DEF CatKeeps
    <2>1. catalog' \in {"ok", "details", "page"} /\ truthful
      BY <1>1, <1>8
    <2>2. \A m \in In(markets) : \E p \in DOMAIN offered :
               /\ offered[p] = m.category /\ offered[p] # Blank /\ m.epic \in In(listing[offered[p]])
               /\ \A j \in 1 .. p - 1 : m.epic \notin In(listing[offered[j]])
      BY <1>2, <2>1 DEF CatKeeps
    <2>3. catalog' = "page" => \A j \in 1 .. At' - 1 : In(listing[offered[j]]) \subseteq Found
      BY <1>8, <1>13
    <2>4. catalog' \in {"details", "ok"} => \A j \in DOMAIN offered : In(listing[offered[j]]) \subseteq Found
      BY <1>8, <1>9, <1>13
    <2>5. catalog' = "page" => \A n \in 1 .. Len(listing[codes'[1]]) : ~ (n <= page' * size')
      <3>1. 0 * 0 = 0 /\ \A n \in Nat \ {0} : ~ (n <= 0)
        OBVIOUS
      <3>2. \A n \in 1 .. Len(listing[codes'[1]]) : n \in Nat \ {0}
        OBVIOUS
      <3>3. page' * size' = 0
        BY <1>8, <3>1
      <3> QED BY <3>1, <3>2, <3>3
    <2>6. In(markets)' = In(markets) /\ Found' = Found /\ listing' = listing /\ offered' = offered
      BY <1>2, <1>12
    <2>8. /\ catalog' = "page" =>
               /\ \A j \in 1 .. At' - 1 : In(listing'[offered'[j]]) \subseteq Found'
               /\ \A n \in 1 .. Len(listing'[codes'[1]]) :
                    n <= page' * size' => listing'[codes'[1]][n] \in Found'
               /\ page' = 0
          /\ catalog' \in {"details", "ok"} =>
               \A j \in DOMAIN offered' : In(listing'[offered'[j]]) \subseteq Found'
          /\ \A m \in In(markets') : \E p \in DOMAIN offered' :
               /\ offered'[p] = m.category /\ offered'[p] # Blank /\ m.epic \in In(listing'[offered'[p]])
               /\ \A j \in 1 .. p - 1 : m.epic \notin In(listing'[offered'[j]])
      <3>1. In(markets') = In(markets)
        BY <1>12
      <3>2. catalog' = "page" => page' = 0
        BY <1>8
      <3> QED BY <2>2, <2>3, <2>4, <2>5, <2>6, <3>1, <3>2
    <2> QED BY <2>8 DEF CatKeeps, In
  <1>15. CatOnce'
    BY <1>2 DEF CatOnce
  <1>16. CatEntries'
    <2>1. entries = <<>> /\ entries' = <<>>
      BY <1>2 DEF CatEntries
    <2> QED BY <2>1 DEF CatEntries
  <1> QED BY <1>10, <1>11, <1>14, <1>15, <1>16

LEMMA CategoriesKeep == CatalogInv /\ CategoriesAnswered => CatalogInv'
  <1> SUFFICES ASSUME CatalogInv, CategoriesAnswered PROVE CatalogInv'
    OBVIOUS
  <1> USE DEF CatalogInv
  <1>1. PICK list \in CodeLists : offered' = list /\ GoOn(list, {})
    BY DEF CategoriesAnswered
  <1>2. /\ catalog = "categories" /\ UNCHANGED <<listing, undated, truthful, markets, entries>>
    BY DEF CategoriesAnswered
  <1>3. list \in Seq(Codes) /\ Len(list) \in Nat /\ DOMAIN list = 1 .. Len(list)
    BY CatalogAssumption DEF Codes
  <1>4. PICK none \in SUBSET Categories : none = {}
    OBVIOUS
  <1>5. /\ 0 \in 0 .. Len(list) /\ Len(list) = Len(list) - 0
        /\ \A i \in 1 .. Len(list) : list[i] = list[0 + i]
        /\ none = {list[j] : j \in 1 .. 0} /\ offered' = list /\ GoOn(list, none)
    BY <1>1, <1>3, <1>4
  <1>6. /\ page' = 0 /\ size' = 0 /\ codes' \in Seq(Codes) /\ seen' \in SUBSET Categories
        /\ catalog' \in {"ok", "details", "error", "page"}
        /\ catalog' \in {"ok", "details"} => \A j \in 1 .. Len(list) : list[j] \in none
        /\ catalog' = "page" =>
              /\ At' \in 1 .. Len(list) /\ Len(codes') # 0 /\ At' > 0
              /\ \A i \in 1 .. Len(codes') : codes'[i] = list[At' + i - 1]
              /\ seen' = {list[j] : j \in 1 .. At'}
              /\ \A j \in 1 .. At' - 1 : list[j] \in none
              /\ list[At'] \notin none
    BY ONLY <1>3, <1>5, ListGoesOn, ZenonT(30)
  <1>7. CatTypes'
    BY <1>1, <1>2, <1>3, <1>6, CatalogAssumption DEF CatTypes, Ends
  <1>8. markets = <<>> /\ markets' = <<>>
    BY <1>2 DEF CatReads
  <1>9. CatReads'
    <2>1. catalog' # "categories"
      BY <1>6
    <2>2. catalog' = "page" => \A j \in 1 .. At' - 1 : list[j] # list[At']
      BY <1>6
    <2>3. catalog' \in {"details", "ok"} => \A j \in DOMAIN list : list[j] \in Categories
      BY <1>3, <1>4, <1>6
    <2> QED BY <1>1, <1>3, <1>6, <2>1, <2>2, <2>3 DEF CatReads
  <1>10. CatKeeps'
    <2>1. In(markets)' = {}
      BY <1>8 DEF In
    <2>2. catalog' = "page" => \A j \in 1 .. At' - 1 : FALSE
      BY <1>4, <1>6
    <2>3. catalog' = "page" => \A n \in 1 .. Len(listing'[codes'[1]]) : ~ (n <= page' * size')
      <3>1. 0 * 0 = 0 /\ \A n \in Nat \ {0} : ~ (n <= 0)
        OBVIOUS
      <3>2. \A n \in 1 .. Len(listing'[codes'[1]]) : n \in Nat \ {0}
        OBVIOUS
      <3>3. page' * size' = 0
        BY <1>6, <3>1
      <3> QED BY <3>1, <3>2, <3>3
    <2>4. catalog' \in {"details", "ok"} => \A j \in DOMAIN offered' : FALSE
      BY <1>1, <1>3, <1>4, <1>6
    <2>5. /\ catalog' = "page" =>
               /\ \A j \in 1 .. At' - 1 : In(listing'[offered'[j]]) \subseteq Found'
               /\ \A n \in 1 .. Len(listing'[codes'[1]]) :
                    n <= page' * size' => listing'[codes'[1]][n] \in Found'
               /\ page' = 0
          /\ catalog' \in {"details", "ok"} =>
               \A j \in DOMAIN offered' : In(listing'[offered'[j]]) \subseteq Found'
      BY <1>6, <2>2, <2>3, <2>4
    <2> QED BY <2>1, <2>5 DEF CatKeeps, In
  <1>11. CatOnce'
    BY <1>8 DEF CatOnce
  <1>12. CatEntries'
    <2>1. entries = <<>> /\ entries' = <<>>
      BY <1>2 DEF CatEntries
    <2> QED BY <2>1 DEF CatEntries
  <1> QED BY <1>7, <1>9, <1>10, <1>11, <1>12

LEMMA NewCatalogKeeps == CatalogInv /\ GetAllMarkets => CatalogInv'
  <1> SUFFICES ASSUME GetAllMarkets PROVE CatalogInv'
    OBVIOUS
  <1> USE DEF GetAllMarkets
  <1>1. listing' \in [Categories -> Seq(Epics)] /\ undated' \subseteq Epics
    BY CatalogAssumption
  <1>2. CatTypes'
    BY <1>1, CatalogAssumption DEF CatTypes, Ends
  <1>3. CatReads' /\ CatOnce'
    BY DEF CatReads, CatOnce
  <1>4. CatKeeps'
    BY DEF CatKeeps
  <1>5. CatEntries'
    BY DEF CatEntries
  <1> QED BY <1>2, <1>3, <1>4, <1>5 DEF CatalogInv

\* What the reading of the list found stays as it is while the entries are made.
LEMMA DetailsKeep ==
  ASSUME CatalogInv, catalog \in {"details"}, catalog' \in {"details", "ok"}, CatEntries',
         entries' \in Seq({"queued", "asked", "listed"} \cup Epics),
         UNCHANGED <<listing, undated, offered, truthful, codes, seen, page, size, markets>>
  PROVE  CatalogInv'
  <1> USE DEF CatalogInv
  <1>1. CatTypes'
    BY DEF CatTypes, Ends
  <1>2. CatReads'
    BY DEF CatReads, At
  <1>3. Found' = Found /\ In(markets)' = In(markets)
    BY DEF Found, In
  <1>4. CatKeeps'
    <2> SUFFICES ASSUME truthful' PROVE CatKeeps'
      BY DEF CatKeeps
    <2>1. /\ \A j \in DOMAIN offered : In(listing[offered[j]]) \subseteq Found
          /\ \A m \in In(markets) : \E p \in DOMAIN offered :
               /\ offered[p] = m.category /\ offered[p] # Blank /\ m.epic \in In(listing[offered[p]])
               /\ \A j \in 1 .. p - 1 : m.epic \notin In(listing[offered[j]])
      BY DEF CatKeeps
    <2>2. /\ \A j \in DOMAIN offered' : In(listing'[offered'[j]]) \subseteq Found'
          /\ \A m \in In(markets') : \E p \in DOMAIN offered' :
               /\ offered'[p] = m.category /\ offered'[p] # Blank /\ m.epic \in In(listing'[offered'[p]])
               /\ \A j \in 1 .. p - 1 : m.epic \notin In(listing'[offered'[j]])
      BY <1>3, <2>1
    <2> QED BY <2>2 DEF CatKeeps, In
  <1>5. CatOnce'
    BY DEF CatOnce
  <1> QED BY <1>1, <1>2, <1>4, <1>5

\* An entry that goes on by one step.
LEMMA EntryKeeps ==
  ASSUME CatalogInv, catalog = "details", NEW i \in DOMAIN entries, NEW v,
         \/ /\ entries[i] = "queued" /\ i < Min(Open) + Concurrency
            /\ \/ v = "asked" /\ markets[i].epic \in undated
               \/ v = "listed"
         \/ /\ entries[i] = "asked"
            /\ (v = "listed" \/ (v = markets[i].epic /\ v \in Epics)),
         entries' = [entries EXCEPT ![i] = v],
         UNCHANGED <<listing, undated, catalog, offered, truthful, codes, seen, page, size, markets>>
  PROVE  CatalogInv'
  <1>1. /\ entries \in Seq({"queued", "asked", "listed"} \cup Epics)
        /\ Len(entries) \in Nat /\ DOMAIN entries = 1 .. Len(entries)
        /\ CatEntries
    BY DEF CatalogInv, CatTypes
  <1>2. v \in {"asked", "listed"} \cup Epics
    OBVIOUS
  <1>3. /\ entries' \in Seq({"queued", "asked", "listed"} \cup Epics)
        /\ DOMAIN entries' = DOMAIN entries /\ Len(entries') = Len(entries)
        /\ entries'[i] = v /\ \A j \in DOMAIN entries \ {i} : entries'[j] = entries[j]
    BY <1>1, <1>2
  <1>4. "asked" \notin Epics /\ "listed" \notin Epics /\ "queued" \notin Epics
    BY CatalogAssumption
  <1>5. Open' \in SUBSET Open
    <2>1. ASSUME NEW j \in DOMAIN entries, entries'[j] \in {"queued", "asked"}
          PROVE  entries[j] \in {"queued", "asked"}
      <3>1. CASE j = i
        BY <3>1
      <3>2. CASE j # i
        BY <1>3, <2>1, <3>2
      <3> QED BY <3>1, <3>2
    <2> QED BY <1>3, <2>1 DEF Open
  <1>6. ASSUME NEW k \in DOMAIN entries, NEW j \in DOMAIN entries, entries'[k] = "asked", j \in Open'
        PROVE  k < j + Concurrency
    <2>1. j \in Open
      BY <1>5, <1>6
    <2>2. CASE k # i
      <3>1. entries[k] = "asked"
        BY <1>3, <1>6, <2>2
      <3> QED BY <1>1, <2>1, <3>1 DEF CatEntries
    <2>3. CASE k = i /\ entries[i] = "queued"
      <3>1. Open \in SUBSET Nat /\ Open # {}
        BY <1>1, <2>1 DEF Open
      <3>2. Min(Open) \in Open /\ Min(Open) <= j
        BY <2>1, <3>1, MinIs
      <3>3. i < Min(Open) + Concurrency
        BY <1>4, <2>3
      <3>4. Min(Open) \in Nat /\ j \in Nat /\ i \in Nat /\ Concurrency \in Nat
        BY <1>1, <3>1, <3>2, CatalogAssumption
      <3> QED BY <2>3, <3>2, <3>3, <3>4
    <2>4. CASE k = i /\ entries[i] = "asked"
      BY <1>1, <2>1, <2>4 DEF CatEntries
    <2> QED BY <2>2, <2>3, <2>4
  <1>7. ASSUME NEW k \in DOMAIN entries
        PROVE  /\ entries'[k] \in Epics => entries'[k] = markets[k].epic /\ entries'[k] \in undated
               /\ entries'[k] = "asked" => markets[k].epic \in undated
    <2>1. CASE k # i
      <3>1. entries'[k] = entries[k]
        BY <1>3, <2>1
      <3> QED BY <1>1, <3>1 DEF CatEntries
    <2>2. CASE k = i
      <3>1. entries[i] = "asked" => markets[i].epic \in undated
        BY <1>1 DEF CatEntries
      <3> QED BY <1>3, <1>4, <2>2, <3>1
    <2> QED BY <2>1, <2>2
  <1>8. CatEntries'
    <2>1. catalog' \in {"details", "ok"} /\ Len(entries') = Len(markets')
      <3>1. entries # <<>>
        BY <1>1
      <3> QED BY <1>1, <1>3, <3>1 DEF CatEntries
    <2> QED BY <1>3, <1>6, <1>7, <2>1 DEF CatEntries
  <1> QED BY <1>3, <1>8, DetailsKeep

LEMMA EntriesKeep == CatalogInv /\ (Enrich \/ Start \/ Detailed \/ Collected) => CatalogInv'
  <1>1. ASSUME CatalogInv, Enrich PROVE CatalogInv'
    <2>1. /\ catalog = "details" /\ entries' = [i \in DOMAIN markets |-> "queued"]
          /\ UNCHANGED <<listing, undated, catalog, offered, truthful, codes, seen, page, size, markets>>
      BY <1>1 DEF Enrich
    <2>2. markets \in Seq(MarketRecords) /\ Len(markets) \in Nat /\ DOMAIN markets = 1 .. Len(markets)
      BY <1>1 DEF CatalogInv, CatTypes
    <2>3. /\ entries' \in Seq({"queued", "asked", "listed"} \cup Epics) /\ Len(entries') = Len(markets)
          /\ DOMAIN entries' = DOMAIN markets
      BY <2>1, <2>2
    <2>4. \A i \in DOMAIN entries' : entries'[i] = "queued"
      BY <2>1, <2>3
    <2>5. "queued" \notin Epics
      BY CatalogAssumption
    <2>6. CatEntries'
      BY <2>1, <2>3, <2>4, <2>5 DEF CatEntries
    <2> QED BY <1>1, <2>1, <2>3, <2>6, DetailsKeep
  <1>2. ASSUME CatalogInv, Start PROVE CatalogInv'
    <2>1. PICK i \in DOMAIN entries :
            /\ entries[i] = "queued" /\ i < Min(Open) + Concurrency
            /\ entries' = [entries EXCEPT ![i] = DBEntry(markets[i])]
      BY <1>2 DEF Start
    <2>2. /\ catalog = "details"
          /\ UNCHANGED <<listing, undated, catalog, offered, truthful, codes, seen, page, size, markets>>
      BY <1>2 DEF Start
    <2>3. PICK v : v = DBEntry(markets[i])
      OBVIOUS
    <2>4. (v = "asked" /\ markets[i].epic \in undated) \/ v = "listed"
      BY <2>3 DEF DBEntry
    <2> QED BY <1>2, <2>1, <2>2, <2>3, <2>4, EntryKeeps
  <1>3. ASSUME CatalogInv, Detailed PROVE CatalogInv'
    <2>1. PICK i \in DOMAIN entries :
            /\ entries[i] = "asked"
            /\ \/ \E epic \in Epics : entries' = [entries EXCEPT ![i] = Expiry(i, epic)]
               \/ entries' = [entries EXCEPT ![i] = "listed"]
      BY <1>3 DEF Detailed
    <2>2. /\ catalog = "details"
          /\ UNCHANGED <<listing, undated, catalog, offered, truthful, codes, seen, page, size, markets>>
      BY <1>3 DEF Detailed
    <2>3. PICK v : /\ entries' = [entries EXCEPT ![i] = v]
                   /\ (v = "listed" \/ (v = markets[i].epic /\ v \in Epics))
      <3>1. CASE entries' = [entries EXCEPT ![i] = "listed"]
        BY <3>1
      <3>2. ASSUME NEW epic \in Epics, entries' = [entries EXCEPT ![i] = Expiry(i, epic)]
            PROVE  \E v : /\ entries' = [entries EXCEPT ![i] = v]
                          /\ (v = "listed" \/ (v = markets[i].epic /\ v \in Epics))
        BY <3>2 DEF Expiry
      <3> QED BY <2>1, <3>1, <3>2
    <2> QED BY <1>3, <2>1, <2>2, <2>3, EntryKeeps
  <1>4. ASSUME CatalogInv, Collected PROVE CatalogInv'
    <2>1. /\ catalog = "details" /\ catalog' = "ok" /\ entries' = entries
          /\ UNCHANGED <<listing, undated, offered, truthful, codes, seen, page, size, markets>>
      BY <1>4 DEF Collected
    <2>2. CatEntries'
      <3>1. Open' = Open
        BY <2>1 DEF Open
      <3> QED BY <1>4, <2>1, <3>1 DEF CatalogInv, CatEntries
    <2>3. entries' \in Seq({"queued", "asked", "listed"} \cup Epics)
      BY <1>4, <2>1 DEF CatalogInv, CatTypes
    <2> QED BY <1>4, <2>1, <2>2, <2>3, DetailsKeep
  <1> QED BY <1>1, <1>2, <1>3, <1>4

LEMMA AbandonedKeeps == CatalogInv /\ Abandoned => CatalogInv'
  <1> SUFFICES ASSUME CatalogInv, Abandoned PROVE CatalogInv'
    OBVIOUS
  <1>1. /\ catalog \in {"categories", "page"} /\ catalog' = "error"
        /\ UNCHANGED <<listing, undated, offered, truthful, codes, seen, page, size, markets, entries>>
    BY DEF Abandoned
  <1>2. CatTypes'
    BY <1>1 DEF CatalogInv, CatTypes, Ends
  <1>3. CatReads' /\ CatKeeps'
    BY <1>1 DEF CatReads, CatKeeps
  <1>4. CatOnce'
    BY <1>1 DEF CatalogInv, CatOnce
  <1>5. entries = <<>> /\ entries' = <<>>
    BY <1>1 DEF CatalogInv, CatEntries
  <1>6. CatEntries'
    BY <1>5 DEF CatEntries
  <1> QED BY <1>2, <1>3, <1>4, <1>6 DEF CatalogInv

LEMMA CatalogStays == CatalogInv /\ UNCHANGED cat => CatalogInv'
  <1> SUFFICES ASSUME CatalogInv, UNCHANGED cat PROVE CatalogInv'
    OBVIOUS
  <1> USE DEF CatalogInv, cat
  <1>1. At' = At /\ Open' = Open /\ Found' = Found
    BY DEF At, Open, Found, In
  <1>2. CatTypes'
    BY DEF CatTypes
  <1>3. CatReads'
    BY <1>1 DEF CatReads
  <1>4. CatKeeps'
    <2>2. In(markets)' = In(markets)
      BY DEF In
    <2> SUFFICES ASSUME truthful PROVE CatKeeps'
      BY DEF CatKeeps
    <2>3. CASE catalog = "page"
      <3>1. /\ \A j \in 1 .. At - 1 : In(listing[offered[j]]) \subseteq Found
            /\ \A n \in 1 .. Len(listing[codes[1]]) : n <= page * size => listing[codes[1]][n] \in Found
            /\ size = 0 => page = 0
        BY <2>3 DEF CatKeeps
      <3>2. /\ \A j \in 1 .. At' - 1 : In(listing'[offered'[j]]) \subseteq Found'
            /\ \A n \in 1 .. Len(listing'[codes'[1]]) : n <= page' * size' => listing'[codes'[1]][n] \in Found'
            /\ size' = 0 => page' = 0
        BY <1>1, <3>1
      <3> QED BY <2>2, <2>3, <3>2 DEF CatKeeps, In
    <2>4. CASE catalog # "page"
      BY <1>1, <2>2, <2>4 DEF CatKeeps, In
    <2> QED BY <2>3, <2>4
  <1>5. CatOnce'
    BY DEF CatOnce
  <1>6. CatEntries'
    BY <1>1 DEF CatEntries
  <1> QED BY <1>2, <1>3, <1>4, <1>5, <1>6

LEMMA CatalogGoesOn == CatalogInv /\ [CatalogNext]_cat => CatalogInv'
  BY CatalogStays, NewCatalogKeeps, CategoriesKeep, PageAnsweredKeeps, LastPageKeeps,
     AbandonedKeeps, EntriesKeep DEF CatalogNext, CatalogStep

LEMMA CatalogTold == CatalogInv => CatalogTells
  <1> SUFFICES ASSUME CatalogInv PROVE CatalogTells
    OBVIOUS
  <1> USE DEF CatalogInv
  <1>1. MarketsComplete
    <2>1. \A i, j \in DOMAIN markets : markets[i].epic = markets[j].epic => i = j
      BY DEF CatOnce
    <2>2. ASSUME truthful, catalog \in {"ok", "details"}, NEW e \in Epics
          PROVE  LET places == {k \in DOMAIN offered : e \in In(listing[offered[k]])} IN
                   {m.category : m \in {n \in In(markets) : n.epic = e}} =
                     IF places = {} THEN {} ELSE {offered[Min(places)]}
      <3> DEFINE places == {k \in DOMAIN offered : e \in In(listing[offered[k]])}
                 hits == {n \in In(markets) : n.epic = e}
      <3>1. /\ \A j \in DOMAIN offered : In(listing[offered[j]]) \subseteq Found
            /\ \A m \in In(markets) : \E p \in DOMAIN offered :
               /\ offered[p] = m.category /\ offered[p] # Blank /\ m.epic \in In(listing[offered[p]])
               /\ \A j \in 1 .. p - 1 : m.epic \notin In(listing[offered[j]])
        BY <2>2 DEF CatKeeps
      <3>2. DOMAIN offered = 1 .. Len(offered) /\ Len(offered) \in Nat
        BY DEF CatTypes
      <3>3. places \in SUBSET Nat
        BY <3>2
      <3>4. \A k \in places : k \in DOMAIN offered /\ e \in In(listing[offered[k]])
        OBVIOUS
      <3>5. \A k \in DOMAIN offered : e \in In(listing[offered[k]]) => k \in places
        OBVIOUS
      <3> HIDE DEF places
      <3>6. ASSUME NEW m \in hits PROVE places # {} /\ m.category = offered[Min(places)]
        <4>1. PICK p \in DOMAIN offered :
               /\ offered[p] = m.category /\ e \in In(listing[offered[p]])
               /\ \A j \in 1 .. p - 1 : e \notin In(listing[offered[j]])
          BY <3>1
        <4>2. p \in places
          BY <3>5, <4>1
        <4>3. Min(places) \in places /\ Min(places) <= p
          BY <3>3, <4>2, MinIs
        <4>4. Min(places) \in DOMAIN offered /\ e \in In(listing[offered[Min(places)]])
          BY <3>4, <4>3
        <4>5. Min(places) \notin 1 .. p - 1
          BY <4>1, <4>4
        <4>6. Min(places) = p
          BY <3>2, <4>3, <4>4, <4>5
        <4> QED BY <4>1, <4>2, <4>6
      <3>7. ASSUME places # {} PROVE hits # {}
        <4>1. PICK k \in places : TRUE
          BY <3>7
        <4>2. e \in Found
          BY <3>1, <3>4, <4>1
        <4> QED BY <4>2 DEF Found
      <3> HIDE DEF hits
      <3>8. {m.category : m \in hits} = IF places = {} THEN {} ELSE {offered[Min(places)]}
        BY <3>6, <3>7
      <3> QED BY <3>8 DEF places, hits
    <2> QED BY <2>1, <2>2 DEF MarketsComplete
  <1>2. EntriesOwn
    <2> DEFINE awaited == {i \in DOMAIN entries : entries[i] = "asked"}
    <2>1. \A i \in DOMAIN entries : entries[i] \in Epics =>
            entries[i] = markets[i].epic /\ entries[i] \in undated
      BY DEF CatEntries
    <2>2. DOMAIN entries = 1 .. Len(entries) /\ Len(entries) \in Nat /\ Concurrency \in Nat \ {0}
      BY CatalogAssumption DEF CatTypes
    <2>3. \A i, j \in awaited : i < j + Concurrency
      BY DEF CatEntries, Open
    <2>4. awaited \in SUBSET Nat
      BY <2>2
    <2> HIDE DEF awaited
    <2>5. Cardinality(awaited) <= Concurrency
      <3>1. CASE awaited = {}
        <4>1. Cardinality(awaited) = 0
          BY <3>1, FS_EmptySet
        <4> QED BY <2>2, <4>1
      <3>2. CASE awaited # {}
        <4>1. PICK a \in awaited : \A y \in awaited : a <= y
          BY <2>4, <3>2, LeastOf
        <4>2. PICK z \in Int : z = a + Concurrency - 1
          BY <2>2, <2>4
        <4>3. a \in Nat /\ ~ (a > z) /\ z - a + 1 = Concurrency
          BY <2>2, <2>4, <4>2
        <4>4. awaited \in SUBSET (a .. z)
          <5>1. ASSUME NEW y \in awaited PROVE y \in a .. z
            <6>1. y \in Nat /\ a <= y /\ y < a + Concurrency
              BY <2>3, <2>4, <4>1
            <6> QED BY <2>2, <4>2, <4>3, <6>1
          <5> QED BY <5>1
        <4>5. IsFiniteSet(a .. z) /\ Cardinality(a .. z) = IF a > z THEN 0 ELSE z - a + 1
          <5>1. a \in Int /\ z \in Int
            BY <4>3
          <5> QED BY ONLY <5>1, FS_Interval
        <4>6. Cardinality(a .. z) = Concurrency
          BY <4>3, <4>5
        <4>7. Cardinality(awaited) <= Cardinality(a .. z)
          BY ONLY <4>4, <4>5, FS_Subset
        <4> QED BY <4>6, <4>7
      <3> QED BY <3>1, <3>2
    <2> QED BY <2>1, <2>5 DEF EntriesOwn, awaited
  <1> QED BY <1>1, <1>2 DEF CatalogTells

\* A catalogue that is returned has each instrument once, in the first category that lists it,
\* and entries with their own expiries; for any catalogues, answers and page sizes.
THEOREM CatalogsAreTold == CatalogSpec => []CatalogTells
  BY CatalogBegins, CatalogGoesOn, CatalogTold, PTL DEF CatalogSpec

\* What IG lists is one of its catalogues, and a category ends by the limit of pages.
CatalogTyped == CatalogInv /\ CatalogTypeOK /\ (catalog = "page" => page < MaxPages)

LEMMA CatalogTypesBegin == CatalogInit => CatalogTyped
  <1> SUFFICES ASSUME CatalogInit PROVE CatalogTyped
    OBVIOUS
  <1>1. listing \in Catalogs
    BY CatalogAssumption DEF CatalogInit
  <1>2. CatalogInv
    BY CatalogBegins
  <1>3. page \in 0 .. MaxPages
    BY CatalogAssumption DEF CatalogInit
  <1> QED BY <1>1, <1>2, <1>3
       DEF CatalogInit, CatalogInv, CatTypes, CatalogTyped, CatalogTypeOK, Codes, MarketRecords

\* Where the next category is found, the pages begin.
LEMMA GoOnTypes ==
  ASSUME NEW list, NEW done, GoOn(list, done)
  PROVE  page' \in 0 .. MaxPages /\ page' < MaxPages /\ seen_pages' = {}
  BY CatalogAssumption DEF GoOn

LEMMA CatalogKeepsTypes == CatalogTyped /\ [CatalogNext]_cat => CatalogTyped'
  <1> SUFFICES ASSUME CatalogTyped, [CatalogNext]_cat
               PROVE  /\ listing' \in Catalogs /\ offered' \in CodeLists \cup {<<>>}
                      /\ page' \in 0 .. MaxPages /\ seen_pages' \in SUBSET SUBSET Epics
                      /\ catalog' = "page" => page' < MaxPages
    BY CatalogGoesOn DEF CatalogTyped, CatalogTypeOK, CatalogInv, CatTypes, Codes, MarketRecords
  <1>0. /\ listing \in Catalogs /\ offered \in CodeLists \cup {<<>>}
        /\ page \in 0 .. MaxPages /\ seen_pages \in SUBSET SUBSET Epics
        /\ catalog = "page" => page < MaxPages
        /\ MaxPages \in Nat \ {0}
    BY CatalogAssumption DEF CatalogTyped, CatalogTypeOK
  <1>1. CASE UNCHANGED cat
    BY <1>0, <1>1 DEF cat
  <1>2. CASE GetAllMarkets
    BY <1>0, <1>2 DEF GetAllMarkets
  <1>3. CASE CategoriesAnswered
    <2>1. PICK list \in CodeLists : offered' = list /\ GoOn(list, {})
      BY <1>3 DEF CategoriesAnswered
    <2>2. page' \in 0 .. MaxPages /\ page' < MaxPages /\ seen_pages' = {}
      BY <2>1, GoOnTypes
    <2> QED BY <1>0, <1>3, <2>1, <2>2 DEF CategoriesAnswered
  <1>4. CASE PageAnswered
    <2>1. PICK said \in PageAnswers(page) :
            /\ Fits(said) /\ said.rows # <<>>
            /\ Blank \notin In(said.rows) /\ ~Repeated(said.rows)
            /\ seen_pages' = seen_pages \cup {In(said.rows)}
      BY <1>4 DEF PageAnswered
    <2>2. In(said.rows) \in SUBSET Epics
      <3>1. CatTypes /\ CatReads /\ catalog = "page"
        BY <1>4 DEF CatalogTyped, CatalogInv, PageAnswered
      <3>2. Head(codes) \in Categories
        BY <3>1, CurrentIs
      <3>3. said.rows \in Seq(Epics)
        BY <2>1, <3>1, <3>2, AnswerIs
      <3> QED BY <3>3 DEF In
    <2>3. page' = page + 1 /\ (catalog' = "page" => page + 1 < MaxPages) /\ page < MaxPages
      BY <1>0, <1>4 DEF PageAnswered
    <2>4. page' \in 0 .. MaxPages
      BY <1>0, <2>3
    <2> QED BY <1>0, <1>4, <2>1, <2>2, <2>3, <2>4 DEF PageAnswered
  <1>5. CASE LastPageAnswered
    <2>1. page' \in 0 .. MaxPages /\ page' < MaxPages /\ seen_pages' = {}
      BY <1>5, GoOnTypes DEF LastPageAnswered
    <2> QED BY <1>0, <1>5, <2>1 DEF LastPageAnswered
  <1>6. CASE Abandoned
    BY <1>0, <1>6 DEF Abandoned
  <1>7. CASE Enrich \/ Start \/ Detailed \/ Collected
    BY <1>0, <1>7 DEF Enrich, Start, Detailed, Collected
  <1> QED BY <1>1, <1>2, <1>3, <1>4, <1>5, <1>6, <1>7 DEF CatalogNext, CatalogStep
=============================================================================
