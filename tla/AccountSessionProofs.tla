------------------------ MODULE AccountSessionProofs ------------------------
(***************************************************************************)
(* Theorems about AccountSession, for any number of tasks, accounts and    *)
(* tokens.  The control of a task (where it may be, and what it then has   *)
(* in hand) comes first; that sessions tell their account, and that they   *)
(* stay on the selected one, rests on it.                                  *)
(***************************************************************************)
EXTENDS AccountSession, TLAPS

\* What a task has in hand where it is: a switch knows its account, only a login
\* selects, a session is moved or sent on only when there is one, and a token IG
\* answered with is kept until the session is stored.
CallerInv(c) ==
  /\ op[c] = "switch" => target[c] \in Targets
  /\ pc[c] = "select" => logging_in[c]
  /\ pc[c] \in {"put", "switched"} => logging_in[c] \/ op[c] = "switch"
  /\ pc[c] = "adopt" => op[c] = "switch"
  /\ pc[c] \in {"put", "send", "revoke"} => mine[c] # None
  /\ pc[c] = "switched" <=> new[c] # None

\* A login goes on after IG's answer only to select the account, which it does only
\* when one is configured and it lands on another.
Selecting(c) ==
  logging_in[c] => ShouldSwitchAccount /\ pc[c] \in {"login", "select", "put", "switched"}

Control == TypeOK /\ \A c \in Callers : CallerInv(c) /\ Selecting(c)

-----------------------------------------------------------------------------
(* What the pieces of the actions do.                                      *)

\* A session is a record: it is never the None of an Option.
LEMMA SessionFacts ==
  /\ None \notin Sessions
  /\ None \notin Accounts /\ None \notin Tokens /\ None \notin Targets
  /\ Targets \subseteq Accounts /\ Landing \in Accounts
  /\ Configured \in Accounts \cup {Unset} /\ Unset \notin Accounts
  /\ ShouldSwitchAccount => Configured \in Accounts
  /\ \A s \in Sessions : s.token \in Tokens /\ s.account \in Accounts
  /\ \A t \in Tokens, a \in Accounts :
       /\ [token |-> t, account |-> a] \in Sessions
       /\ [token |-> t, account |-> a].token = t
       /\ [token |-> t, account |-> a].account = a
  BY SessionAssumption DEF Sessions, ShouldSwitchAccount

\* The account a login ends on is one that somebody asked for.
LEMMA ChosenFacts ==
  /\ Targets \subseteq Chosen
  /\ ShouldSwitchAccount => Configured \in Chosen /\ Account(Configured) = Configured
  /\ ~ShouldSwitchAccount => Landing \in Chosen /\ Account(Configured) = Landing
  /\ \A a \in Accounts : Account(a) = a
  BY SessionFacts DEF Chosen, Account, ShouldSwitchAccount

\* IG serves a token as the step says, or has forgotten it.
LEMMA ServeType ==
  ASSUME NEW accounts \in [Tokens -> Accounts \cup {None}], Serve(accounts)
  PROVE  /\ served' \in [Tokens -> Accounts \cup {None}]
         /\ \A t \in Tokens : served'[t] \in {accounts[t], None}
  BY DEF Serve

\* Goto keeps the type of pc.
LEMMA GotoType ==
  ASSUME TypeOK, NEW c \in Callers, NEW label \in Labels, Goto(c, label)
  PROVE  pc' \in [Callers -> Labels] /\ pc'[c] = label
  BY DEF Goto, TypeOK

\* The labels the actions go to are labels, and the operations operations.
LEMMA LabelFacts ==
  /\ "idle" \in Labels /\ "get" \in Labels /\ "login" \in Labels /\ "select" \in Labels
  /\ "put" \in Labels /\ "switched" \in Labels /\ "adopt" \in Labels
  /\ "send" \in Labels /\ "revoke" \in Labels
  /\ "none" \in Operations /\ "request" \in Operations /\ "replay" \in Operations
  /\ "replayed" \in Operations /\ "login" \in Operations /\ "switch" \in Operations
  /\ "logout" \in Operations
  BY DEF Labels, Operations

\* An operation that returns leaves its variables with their types.
LEMMA FinishType ==
  ASSUME TypeOK, NEW c \in Callers, Finish(c)
  PROVE  /\ pc' \in [Callers -> Labels] /\ pc'[c] = "idle"
         /\ op' \in [Callers -> Operations] /\ op'[c] = "none"
         /\ target' \in [Callers -> Accounts \cup {None}]
         /\ mine' \in [Callers -> Sessions \cup {None}] /\ mine'[c] = None
         /\ bucket' \in [Callers -> Accounts \cup {Unset, None}]
  BY LabelFacts, GotoType DEF Finish, TypeOK

\* So does one that fails; it leaves no session, or the one there was.
LEMMA FailType ==
  ASSUME TypeOK, NEW c \in Callers, Fail(c)
  PROVE  /\ pc' \in [Callers -> Labels] /\ pc'[c] = "idle"
         /\ op' \in [Callers -> Operations] /\ op'[c] = "none"
         /\ target' \in [Callers -> Accounts \cup {None}]
         /\ mine' \in [Callers -> Sessions \cup {None}] /\ mine'[c] = None
         /\ bucket' \in [Callers -> Accounts \cup {Unset, None}]
         /\ logging_in' \in [Callers -> BOOLEAN]
         /\ session' \in {session, None} /\ fresh' \in BOOLEAN
  <1>1. Finish(c) /\ logging_in' = [logging_in EXCEPT ![c] = FALSE]
    BY DEF Fail
  <1>2. session' \in {session, None} /\ fresh' \in BOOLEAN
    BY DEF Fail, Cache, auth, TypeOK
  <1>3. logging_in' \in [Callers -> BOOLEAN]
    BY <1>1 DEF TypeOK
  <1>4. QED
    BY <1>1, <1>2, <1>3, FinishType

\* An operation that goes on with a session has it in hand where it needs it.
LEMMA ResumeType ==
  ASSUME TypeOK, NEW c \in Callers, CallerInv(c), NEW s \in Sessions, Resume(c, s),
         new'[c] = None
  PROVE  /\ pc' \in [Callers -> Labels]
         /\ op' \in [Callers -> Operations]
         /\ target' \in [Callers -> Accounts \cup {None}]
         /\ mine' \in [Callers -> Sessions \cup {None}]
         /\ mine'[c] \in {mine[c], s, None}
         /\ bucket' \in [Callers -> Accounts \cup {Unset, None}]
         /\ CallerInv(c)'
  <1> USE SessionFacts, LabelFacts, GotoType
  <1>1. CASE op[c] \in {"request", "replayed"} /\ Goto(c, "send")
             /\ mine' = [mine EXCEPT ![c] = s]
             /\ bucket' = [bucket EXCEPT ![c] = selected] /\ UNCHANGED caller
    BY <1>1 DEF TypeOK, CallerInv, caller
  <1>2. CASE op[c] = "replay" /\ Goto(c, "get")
             /\ op' = [op EXCEPT ![c] = "replayed"] /\ UNCHANGED <<target, mine, bucket>>
    BY <1>2 DEF TypeOK, CallerInv, caller
  <1>3. CASE op[c] = "switch" /\ Goto(c, "adopt") /\ UNCHANGED <<caller, mine, bucket>>
    BY <1>3 DEF TypeOK, CallerInv, caller
  <1>4. CASE op[c] = "switch" /\ Goto(c, "put") /\ mine' = [mine EXCEPT ![c] = s]
             /\ UNCHANGED <<caller, bucket>>
    BY <1>4 DEF TypeOK, CallerInv, caller
  <1>5. CASE Finish(c)
    BY <1>5, FinishType DEF CallerInv
  <1>6. QED
    BY <1>1, <1>2, <1>3, <1>4, <1>5 DEF Resume
-----------------------------------------------------------------------------
(* The control of the task that takes a step, one case per action.         *)

\* What a task does.
Act(c) ==
  \/ Request(c) \/ ForceRefresh(c) \/ Logout(c) \/ Step(c)
  \/ \E account \in Targets : Switch(c, account)

\* The tokens IG knows of after a step that ends the old session and opens a new one.
LEMMA ServedType ==
  ASSUME TypeOK, NEW t \in Tokens, NEW u \in Tokens, NEW a \in Accounts
  PROVE  /\ served \in [Tokens -> Accounts \cup {None}]
         /\ [served EXCEPT ![t] = None] \in [Tokens -> Accounts \cup {None}]
         /\ [served EXCEPT ![t] = a] \in [Tokens -> Accounts \cup {None}]
         /\ [served EXCEPT ![t] = None, ![u] = a] \in [Tokens -> Accounts \cup {None}]
  BY DEF TypeOK

\* The account a PUT asks for is one.
LEMMA WantedType ==
  ASSUME TypeOK, NEW c \in Callers, CallerInv(c), Selecting(c), pc[c] \in {"put", "switched"}
  PROVE  Wanted(c) \in Accounts \cap Chosen
  BY SessionFacts DEF Wanted, CallerInv, Selecting, ShouldSwitchAccount, Account, Chosen, TypeOK

\* An operation begins with nothing in hand but the account it switches to.
LEMMA BeginControl ==
  ASSUME TypeOK, NEW c \in Callers, CallerInv(c),
         \/ Request(c) \/ ForceRefresh(c) \/ Logout(c)
         \/ \E account \in Targets : Switch(c, account)
  PROVE  TypeOK' /\ CallerInv(c)'
  <1> USE SessionFacts, LabelFacts, GotoType DEF Begin, TypeOK, CallerInv, auth
  <1>1. CASE Request(c)
    BY <1>1 DEF Request
  <1>2. CASE ForceRefresh(c)
    BY <1>2 DEF ForceRefresh
  <1>3. CASE Logout(c)
    BY <1>3 DEF Logout
  <1>4. CASE \E account \in Targets : Switch(c, account)
    BY <1>4 DEF Switch
  <1>5. QED
    BY <1>1, <1>2, <1>3, <1>4

\* A failure leaves nothing in hand.
LEMMA FailControl ==
  ASSUME TypeOK, NEW c \in Callers, CallerInv(c), Fail(c), new'[c] = None
  PROVE  CallerInv(c)'
  BY FailType, SessionFacts DEF CallerInv

\* ... get_session and login ...
LEMMA SessionControl ==
  ASSUME TypeOK, NEW c \in Callers, CallerInv(c), GetSession(c) \/ Login(c) \/ Select(c)
  PROVE  TypeOK' /\ CallerInv(c)'
  <1> USE SessionFacts, LabelFacts
  <1>1. new[c] = None /\ new' = new /\ selected' = selected
    BY DEF GetSession, Login, Select, CallerInv
  <1>2. CASE GetSession(c)
    <2>1. session' = session /\ fresh' = fresh /\ logging_in' = logging_in /\ past' = past
          /\ served' \in [Tokens -> Accounts \cup {None}]
      BY <1>2, ServeType DEF GetSession, auth, TypeOK
    <2>2. CASE Usable
      <3>1. session \in Sessions /\ Resume(c, session)
        BY <1>2, <2>2 DEF GetSession, Usable, TypeOK
      <3>2. QED
        BY <1>1, <2>1, <3>1, ResumeType DEF TypeOK
    <2>3. CASE ~Usable
      <3>1. Goto(c, "login") /\ UNCHANGED <<caller, mine, bucket>>
        BY <1>2, <2>3 DEF GetSession
      <3>2. QED
        BY <1>1, <2>1, <3>1, GotoType DEF TypeOK, CallerInv, caller
    <2>4. QED
      BY <2>2, <2>3
  <1>3. CASE Login(c)
    <2>1. CASE Fail(c) /\ Serve(served) /\ UNCHANGED past
      <3>1. served' \in [Tokens -> Accounts \cup {None}]
        BY <2>1, ServeType DEF TypeOK
      <3>2. QED
        BY <1>1, <2>1, <3>1, FailType, FailControl DEF TypeOK
    <2>2. ASSUME NEW t \in Tokens,
                 Cache([token |-> t, account |-> Landing]),
                 past' = IF past = "clean" /\ selected # Configured THEN "relogged" ELSE past,
                 IF ShouldSwitchAccount
                 THEN /\ Goto(c, "select")
                      /\ logging_in' = [logging_in EXCEPT ![c] = TRUE]
                      /\ UNCHANGED <<caller, mine, bucket>>
                 ELSE /\ Resume(c, [token |-> t, account |-> Landing])
                      /\ UNCHANGED logging_in,
                 Serve([served EXCEPT ![t] = Landing])
          PROVE  TypeOK' /\ CallerInv(c)'
      <3> DEFINE s == [token |-> t, account |-> Landing]
      <3>1. s \in Sessions
        OBVIOUS
      <3>2. session' \in Sessions /\ fresh' \in BOOLEAN
            /\ served' \in [Tokens -> Accounts \cup {None}]
            /\ past' \in {"clean", "relogged", "overlapped"}
        BY <2>2, <3>1, ServedType, ServeType DEF Cache, TypeOK
      <3>3. CASE ~ShouldSwitchAccount
        <4>1. Resume(c, s) /\ logging_in' = logging_in
          BY <2>2, <3>3
        <4> HIDE DEF s
        <4>2. QED
          BY <1>1, <3>1, <3>2, <4>1, ResumeType DEF TypeOK
      <3>4. CASE ShouldSwitchAccount
        <4>1. /\ Goto(c, "select") /\ UNCHANGED <<caller, mine, bucket>>
              /\ logging_in' = [logging_in EXCEPT ![c] = TRUE]
          BY <2>2, <3>4
        <4> HIDE DEF s
        <4>2. QED
          BY <1>1, <3>2, <4>1, GotoType DEF TypeOK, CallerInv, caller
      <3>5. QED
        BY <3>3, <3>4
    <2>3. QED
      BY <1>3, <2>1, <2>2 DEF Login
  <1>4. CASE Select(c)
    <2>1. session' = session /\ fresh' = fresh /\ past' = past
          /\ served' \in [Tokens -> Accounts \cup {None}] /\ pc[c] = "select"
      BY <1>4, ServeType DEF Select, auth, TypeOK
    <2>2. CASE ~Usable /\ Goto(c, "login") /\ UNCHANGED <<caller, logging_in, mine, bucket>>
      BY <1>1, <2>1, <2>2, GotoType DEF TypeOK, CallerInv, caller
    <2>3. CASE /\ Usable /\ Goto(c, "put") /\ mine' = [mine EXCEPT ![c] = session]
               /\ UNCHANGED <<caller, logging_in, bucket>>
      BY <1>1, <2>1, <2>3, GotoType DEF TypeOK, CallerInv, caller, Usable
    <2>4. CASE Usable /\ logging_in' = [logging_in EXCEPT ![c] = FALSE] /\ Resume(c, session)
      <3>1. session \in Sessions
        BY <2>4 DEF Usable, TypeOK
      <3>2. QED
        BY <1>1, <2>1, <2>4, <3>1, ResumeType DEF TypeOK
    <2>5. QED
      BY <1>4, <2>2, <2>3, <2>4 DEF Select
  <1>5. QED
    BY <1>2, <1>3, <1>4
\* ... and the steps that move a session, send on it and revoke it.
LEMMA UseControl ==
  ASSUME TypeOK, NEW c \in Callers, CallerInv(c), Selecting(c),
         Put(c) \/ Switched(c) \/ Adopt(c) \/ Send(c) \/ Revoke(c)
  PROVE  TypeOK' /\ CallerInv(c)'
  <1> USE SessionFacts, LabelFacts
  <1>1. CASE Put(c)
    <2>1. /\ pc[c] = "put" /\ new[c] = None /\ mine[c] \in Sessions
          /\ selected' = selected /\ past' = past
      BY <1>1 DEF Put, CallerInv, TypeOK
    <2>2. Wanted(c) \in Accounts
      BY <2>1, WantedType
    <2>3. ASSUME Fail(c), new' = new,
                 \E accounts \in [Tokens -> Accounts \cup {None}] : Serve(accounts)
          PROVE  TypeOK' /\ CallerInv(c)'
      BY <2>1, <2>3, ServeType, FailType, FailControl DEF TypeOK
    <2>4. CASE /\ Goto(c, "switched") /\ mine' = [mine EXCEPT ![c] = None]
               /\ UNCHANGED <<auth, caller, logging_in, bucket>>
               /\ \E t \in Tokens :
                    /\ \E answer \in Kept(t, mine[c]) : new' = [new EXCEPT ![c] = answer]
                    /\ Serve([served EXCEPT ![mine[c].token] = None, ![t] = Wanted(c)])
      <3>1. PICK t \in Tokens :
              /\ \E answer \in Kept(t, mine[c]) : new' = [new EXCEPT ![c] = answer]
              /\ Serve([served EXCEPT ![mine[c].token] = None, ![t] = Wanted(c)])
        BY <2>4
      <3>2. new' \in [Callers -> Tokens \cup {None}] /\ new'[c] # None
        BY <2>1, <3>1 DEF Kept, TypeOK
      <3>3. served' \in [Tokens -> Accounts \cup {None}]
        BY <2>1, <2>2, <3>1, ServedType, ServeType
      <3>4. QED
        BY <2>1, <2>4, <3>2, <3>3, GotoType DEF TypeOK, CallerInv, caller, auth
    <2>5. CASE Fail(c) /\ UNCHANGED new /\ Serve([served EXCEPT ![mine[c].token] = None])
      BY <2>1, <2>3, <2>5, ServedType
    <2>6. CASE Refused(c)
      BY <2>3, <2>6, ServedType DEF Refused, TypeOK
    <2>7. QED
      BY <1>1, <2>4, <2>5, <2>6 DEF Put
  <1>2. CASE Switched(c)
    <2> DEFINE s == [token |-> new[c], account |-> Wanted(c)]
    <2>1. /\ pc[c] = "switched" /\ new[c] \in Tokens
          /\ selected' = selected /\ past' = past
          /\ new' \in [Callers -> Tokens \cup {None}] /\ new'[c] = None
          /\ logging_in' \in [Callers -> BOOLEAN]
      BY <1>2 DEF Switched, CallerInv, TypeOK
    <2>2. s \in Sessions
      BY <2>1, WantedType
    <2>3. session' = s /\ fresh' \in BOOLEAN /\ served' \in [Tokens -> Accounts \cup {None}]
      BY <1>2, ServeType DEF Switched, Cache, TypeOK
    <2>4. CASE logging_in[c]
      <3>1. Resume(c, s)
        BY <1>2, <2>4 DEF Switched
      <3> HIDE DEF s
      <3>2. QED
        BY <2>1, <2>2, <2>3, <3>1, ResumeType DEF TypeOK
    <2>5. CASE ~logging_in[c]
      <3>1. Goto(c, "adopt") /\ UNCHANGED <<caller, mine, bucket>>
        BY <1>2, <2>5 DEF Switched
      <3> HIDE DEF s
      <3>2. QED
        BY <2>1, <2>2, <2>3, <2>5, <3>1, GotoType DEF TypeOK, CallerInv, caller
    <2>6. QED
      BY <2>4, <2>5
  <1>3. CASE Adopt(c)
    <2>1. /\ op[c] = "switch" /\ new[c] = None /\ Finish(c) /\ selected' = target[c]
          /\ UNCHANGED <<auth, logging_in, new>> /\ past' \in {past, "clean"}
          /\ served' \in [Tokens -> Accounts \cup {None}]
      BY <1>3, ServeType DEF Adopt, CallerInv, TypeOK
    <2>2. target[c] \in Accounts
      BY <2>1 DEF CallerInv
    <2>3. QED
      BY <2>1, <2>2, FinishType DEF TypeOK, CallerInv, auth
  <1>4. CASE Send(c)
    <2>1. /\ new[c] = None /\ UNCHANGED <<auth, selected, logging_in, new, past>>
          /\ served' \in [Tokens -> Accounts \cup {None}]
      BY <1>4, ServeType DEF Send, CallerInv, TypeOK
    <2>2. CASE Finish(c)
      BY <2>1, <2>2, FinishType DEF TypeOK, CallerInv, auth
    <2>3. CASE /\ Goto(c, "login") /\ op' = [op EXCEPT ![c] = "replay"]
               /\ mine' = [mine EXCEPT ![c] = None] /\ bucket' = [bucket EXCEPT ![c] = None]
               /\ UNCHANGED target
      BY <2>1, <2>3, GotoType DEF TypeOK, CallerInv, auth
    <2>4. QED
      BY <1>4, <2>2, <2>3 DEF Send
  <1>5. CASE Revoke(c)
    <2>1. /\ new[c] = None /\ Finish(c) /\ session' = None /\ fresh' \in BOOLEAN
          /\ UNCHANGED <<selected, logging_in, new, past>>
          /\ mine[c] \in Sessions
      BY <1>5 DEF Revoke, Cache, CallerInv, TypeOK
    <2>2. served' \in [Tokens -> Accounts \cup {None}]
      BY <1>5, <2>1, ServedType, ServeType DEF Revoke
    <2>3. QED
      BY <2>1, <2>2, FinishType DEF TypeOK, CallerInv
  <1>6. QED
    BY <1>1, <1>2, <1>3, <1>4, <1>5
-----------------------------------------------------------------------------
(* The control of every task.                                              *)

\* What a task does leaves the hands of the others alone.
LEMMA ActIsLocal ==
  ASSUME TypeOK, NEW c \in Callers, Act(c), NEW d \in Callers, d # c
  PROVE  /\ pc'[d] = pc[d] /\ op'[d] = op[d] /\ target'[d] = target[d]
         /\ logging_in'[d] = logging_in[d] /\ mine'[d] = mine[d] /\ new'[d] = new[d]
  <1> DEFINE Local == /\ pc'[d] = pc[d] /\ op'[d] = op[d] /\ target'[d] = target[d]
                      /\ mine'[d] = mine[d]
  <1>a. ASSUME Fail(c) PROVE Local /\ logging_in'[d] = logging_in[d]
    BY <1>a DEF Fail, Finish, Goto, TypeOK
  <1>b. ASSUME NEW s, Resume(c, s) PROVE Local
    BY <1>b DEF Resume, Finish, Goto, caller, TypeOK
  <1> USE <1>a, <1>b DEF TypeOK, Goto, caller, Finish, auth
  <1>1. CASE Request(c) \/ ForceRefresh(c) \/ Logout(c)
    BY <1>1 DEF Request, ForceRefresh, Logout, Begin
  <1>2. CASE \E account \in Targets : Switch(c, account)
    BY <1>2 DEF Switch, Begin
  <1>3. CASE GetSession(c)
    BY <1>3 DEF GetSession
  <1>4. CASE Login(c)
    <2>1. CASE Fail(c)
      BY <1>4, <2>1 DEF Login
    <2>2. CASE \E s : Resume(c, s) /\ UNCHANGED logging_in
      BY <1>4, <2>2 DEF Login
    <2>3. CASE /\ Goto(c, "select") /\ UNCHANGED <<caller, mine, bucket>>
               /\ logging_in' = [logging_in EXCEPT ![c] = TRUE]
      BY <1>4, <2>3 DEF Login
    <2>4. QED
      BY <1>4, <2>1, <2>2, <2>3 DEF Login
  <1>5. CASE Select(c)
    BY <1>5 DEF Select
  <1>6. CASE Put(c)
    BY <1>6 DEF Put, Refused
  <1>7. CASE Switched(c)
    BY <1>7 DEF Switched
  <1>8. CASE Adopt(c)
    BY <1>8 DEF Adopt
  <1>9. CASE Send(c)
    BY <1>9 DEF Send
  <1>10. CASE Revoke(c)
    BY <1>10 DEF Revoke
  <1>11. QED
    BY <1>1, <1>2, <1>3, <1>4, <1>5, <1>6, <1>7, <1>8, <1>9, <1>10 DEF Act, Step

\* A login that fails, and one that has selected the account, is over.
LEMMA TaskSelecting ==
  ASSUME TypeOK, NEW c \in Callers, Act(c), Selecting(c)
  PROVE  Selecting(c)'
  <1> USE LabelFacts, GotoType DEF Selecting
  <1>2. CASE Fail(c)
    BY <1>2 DEF Fail, TypeOK
  <1>3. CASE GetSession(c) \/ Adopt(c) \/ Send(c) \/ Revoke(c)
    BY <1>3 DEF GetSession, Adopt, Send, Revoke
  <1>4. CASE Login(c)
    <2>1. CASE UNCHANGED logging_in /\ ~ShouldSwitchAccount
      BY <2>1
    <2>2. CASE ShouldSwitchAccount /\ Goto(c, "select")
      BY <2>2
    <2>3. QED
      BY <1>2, <1>4, <2>1, <2>2 DEF Login
  <1>5. CASE Select(c)
    <2>1. CASE Goto(c, "login") /\ UNCHANGED logging_in
      BY <2>1
    <2>2. CASE Goto(c, "put") /\ UNCHANGED logging_in
      BY <2>2
    <2>3. CASE logging_in' = [logging_in EXCEPT ![c] = FALSE]
      BY <2>3 DEF TypeOK
    <2>4. QED
      BY <1>5, <2>1, <2>2, <2>3 DEF Select
  <1>6. CASE Put(c)
    <2>1. CASE Goto(c, "switched") /\ UNCHANGED logging_in
      BY <2>1
    <2>2. QED
      BY <1>2, <1>6, <2>1 DEF Put, Refused
  <1>7. CASE Switched(c)
    BY <1>7 DEF Switched, TypeOK
  <1>8. CASE Request(c) \/ ForceRefresh(c) \/ Logout(c) \/ \E a \in Targets : Switch(c, a)
    BY <1>8 DEF Request, ForceRefresh, Logout, Switch, Begin
  <1>9. QED
    BY <1>3, <1>4, <1>5, <1>6, <1>7, <1>8 DEF Act, Step

\* A client that has just been built has nothing in hand.
LEMMA InitControl == Init => Control
  <1> SUFFICES ASSUME Init PROVE Control
    OBVIOUS
  <1>1. TypeOK
    BY SessionFacts, LabelFacts DEF Init, TypeOK
  <1>2. ASSUME NEW c \in Callers PROVE CallerInv(c) /\ Selecting(c)
    BY <1>2 DEF Init, CallerInv, Selecting
  <1>3. QED
    BY <1>1, <1>2 DEF Control

\* Expiry and IG's own decisions touch no task.
LEMMA EnvironmentControl ==
  ASSUME Control, Expire \/ (\E t \in Tokens : Invalidate(t)) \/ UNCHANGED vars
  PROVE  Control'
  <1>1. UNCHANGED <<pc, caller, logging_in, mine, new>>
    BY DEF Expire, Invalidate, vars
  <1>2. TypeOK'
    BY DEF Control, TypeOK, Expire, Invalidate, vars, auth, caller
  <1>3. QED
    BY <1>1, <1>2 DEF Control, CallerInv, Selecting, caller

\* Every step keeps the types and what each task has in hand.
LEMMA NextControl == Control /\ [Next]_vars => Control'
  <1> SUFFICES ASSUME Control, [Next]_vars PROVE Control'
    OBVIOUS
  <1>1. CASE \E c \in Callers : Act(c)
    <2>1. PICK c \in Callers : Act(c)
      BY <1>1
    <2>2. TypeOK /\ CallerInv(c) /\ Selecting(c)
      BY DEF Control
    <2>3. TypeOK' /\ CallerInv(c)'
      BY <2>1, <2>2, BeginControl, SessionControl, UseControl DEF Act, Step
    <2>4. ASSUME NEW d \in Callers, d # c PROVE CallerInv(d)' /\ Selecting(d)'
      BY <2>1, <2>2, <2>4, ActIsLocal DEF Control, CallerInv, Selecting
    <2>5. Selecting(c)'
      BY <2>1, <2>2, TaskSelecting
    <2>6. QED
      BY <2>3, <2>4, <2>5 DEF Control
  <1>2. CASE Expire \/ (\E t \in Tokens : Invalidate(t)) \/ UNCHANGED vars
    BY <1>2, EnvironmentControl
  <1>3. QED
    BY <1>1, <1>2 DEF Next, Act

\* The control holds in every reachable state.
LEMMA Controlled == Spec => []Control
  BY InitControl, NextControl, PTL DEF Spec

\* Every variable keeps its type, however logins, switches and logouts overlap.
THEOREM Typing == Spec => []TypeOK
  <1>1. Control => TypeOK
    BY DEF Control
  <1>2. QED
    BY <1>1, Controlled, PTL
-----------------------------------------------------------------------------
(* Sessions tell their account.  IG never serves a token that something    *)
(* refers to on another account: it dies, or its account stays.  What is   *)
(* stored is then what was stored before, or what IG has just answered.    *)

\* IG's side of a step, for the tokens something referred to before it.
Steady == \A t \in Tokens : Referred(t) => served'[t] \in {served[t], None}

\* A step that serves nothing new on a token something refers to is steady.
LEMMA ServeSteady ==
  ASSUME TypeOK, NEW accounts \in [Tokens -> Accounts \cup {None}], Serve(accounts),
         \A t \in Tokens : Referred(t) => accounts[t] \in {served[t], None}
  PROVE  Steady
  BY ServeType DEF Steady

\* Every step of a task is steady: a token IG issues is one nothing refers to.
LEMMA ActSteady ==
  ASSUME Control, NEW c \in Callers, Act(c)
  PROVE  Steady
  <1>1. TypeOK /\ CallerInv(c) /\ Selecting(c)
    BY DEF Control
  <1>2. CASE Serve(served)
    BY <1>1, <1>2, ServeSteady DEF TypeOK
  <1>3. CASE served' = served
    BY <1>3 DEF Steady
  <1>4. CASE Login(c)
    <2>1. ASSUME NEW t \in Tokens, Issued(t), Serve([served EXCEPT ![t] = Landing])
          PROVE  Steady
      <3>1. [served EXCEPT ![t] = Landing] \in [Tokens -> Accounts \cup {None}]
        BY <1>1, SessionFacts DEF TypeOK
      <3>2. \A u \in Tokens : Referred(u) => [served EXCEPT ![t] = Landing][u] = served[u]
        BY <1>1, <2>1 DEF Issued, TypeOK
      <3>3. QED
        BY <1>1, <2>1, <3>1, <3>2, ServeSteady
    <2>2. QED
      BY <1>2, <1>4, <2>1 DEF Login
  <1>5. CASE Put(c)
    <2>1. pc[c] = "put" /\ mine[c] \in Sessions /\ Wanted(c) \in Accounts
      BY <1>1, <1>5, WantedType DEF Put, CallerInv, TypeOK
    <2>2. mine[c].token \in Tokens
      BY <2>1, SessionFacts
    <2>3. CASE Serve([served EXCEPT ![mine[c].token] = None])
      BY <1>1, <2>2, <2>3, ServeSteady, ServedType DEF TypeOK
    <2>4. ASSUME NEW t \in Tokens, Issued(t),
                 Serve([served EXCEPT ![mine[c].token] = None, ![t] = Wanted(c)])
          PROVE  Steady
      <3> DEFINE accounts == [served EXCEPT ![mine[c].token] = None, ![t] = Wanted(c)]
      <3>1. accounts \in [Tokens -> Accounts \cup {None}]
        BY <1>1, <2>1, <2>2, ServedType
      <3>2. \A u \in Tokens : Referred(u) => accounts[u] \in {served[u], None}
        BY <1>1, <2>2, <2>4 DEF Issued, TypeOK
      <3> HIDE DEF accounts
      <3>3. Serve(accounts)
        BY <2>4 DEF accounts
      <3>4. QED
        BY <1>1, <3>1, <3>2, <3>3, ServeSteady
    <2>5. QED
      BY <1>2, <1>5, <2>3, <2>4 DEF Put, Refused
  <1>6. CASE Revoke(c)
    <2>1. mine[c] \in Sessions
      BY <1>1, <1>6 DEF Revoke, CallerInv, TypeOK
    <2>2. mine[c].token \in Tokens
      BY <2>1, SessionFacts
    <2>3. CASE Serve([served EXCEPT ![mine[c].token] = None])
      BY <1>1, <2>2, <2>3, ServeSteady, ServedType DEF TypeOK
    <2>4. QED
      BY <1>2, <1>6, <2>3 DEF Revoke
  <1>7. CASE GetSession(c) \/ Select(c) \/ Switched(c) \/ Adopt(c) \/ Send(c)
    BY <1>2, <1>7 DEF GetSession, Select, Switched, Adopt, Send
  <1>8. CASE Request(c) \/ ForceRefresh(c) \/ Logout(c) \/ \E a \in Targets : Switch(c, a)
    BY <1>3, <1>8 DEF Request, ForceRefresh, Logout, Switch, Begin
  <1>9. QED
    BY <1>4, <1>5, <1>6, <1>7, <1>8, <1>1 DEF Act, Step

\* A token IG has answered a PUT with is served on the account that was asked for.
Told(c) == pc[c] = "switched" => served[new[c]] \in {Wanted(c), None}

TruthInv == Control /\ SessionTellsAccount /\ \A c \in Callers : Told(c)

\* A steady step keeps a session honest that something refers to.
LEMMA SteadyHonest ==
  ASSUME TypeOK, Steady, NEW s \in Sessions \cup {None}, Honest(s),
         s # None => Referred(s.token)
  PROVE  s # None => served'[s.token] \in {s.account, None}
  BY SessionFacts DEF Steady, Honest

\* The cached session after a step of a task is honest.
LEMMA CacheHonest ==
  ASSUME TruthInv, NEW c \in Callers, Act(c)
  PROVE  Honest(session)'
  <1>1. TypeOK /\ CallerInv(c) /\ Selecting(c) /\ Steady /\ Honest(session)
    BY ActSteady DEF TruthInv, Control, SessionTellsAccount
  <1>2. CASE session' \in {session, None}
    <2>1. session \in Sessions \cup {None} /\ (session # None => Referred(session.token))
      BY <1>1 DEF TypeOK, Referred, Names
    <2>2. session # None => served'[session.token] \in {session.account, None}
      BY <1>1, <2>1, SteadyHonest
    <2>3. QED
      BY <1>2, <2>2 DEF Honest
  <1>3. CASE Login(c)
    <2>1. CASE Fail(c)
      BY <1>1, <1>2, <2>1, FailType
    <2>2. ASSUME NEW t \in Tokens, Cache([token |-> t, account |-> Landing]),
                 Serve([served EXCEPT ![t] = Landing])
          PROVE  Honest(session)'
      <3>1. session' = [token |-> t, account |-> Landing]
        BY <2>2 DEF Cache
      <3>2. served'[t] \in {Landing, None}
        <4> DEFINE accounts == [served EXCEPT ![t] = Landing]
        <4>1. accounts \in [Tokens -> Accounts \cup {None}] /\ accounts[t] = Landing
          BY <1>1, SessionFacts DEF TypeOK
        <4> HIDE DEF accounts
        <4>2. Serve(accounts)
          BY <2>2 DEF accounts
        <4>3. QED
          BY <4>1, <4>2, ServeType
      <3>3. QED
        BY <3>1, <3>2, SessionFacts DEF Honest
    <2>3. QED
      BY <1>3, <2>1, <2>2 DEF Login
  <1>4. CASE Switched(c)
    <2>1. session' = [token |-> new[c], account |-> Wanted(c)] /\ pc[c] = "switched"
      BY <1>4 DEF Switched, Cache
    <2>2. new[c] \in Tokens /\ Wanted(c) \in Accounts
      BY <1>1, <2>1, WantedType DEF CallerInv, TypeOK
    <2>3. served[new[c]] \in {Wanted(c), None} /\ Referred(new[c])
      BY <2>1 DEF TruthInv, Told, Referred
    <2>4. served'[new[c]] \in {Wanted(c), None}
      BY <1>1, <2>2, <2>3 DEF Steady
    <2>5. QED
      BY <2>1, <2>2, <2>4, SessionFacts DEF Honest
  <1>5. CASE Put(c)
    BY <1>1, <1>2, <1>5, FailType DEF Put, Refused, auth
  <1>6. CASE Revoke(c)
    BY <1>2, <1>6 DEF Revoke, Cache
  <1>7. CASE GetSession(c) \/ Select(c) \/ Adopt(c) \/ Send(c)
    BY <1>2, <1>7 DEF GetSession, Select, Adopt, Send, auth
  <1>8. CASE Request(c) \/ ForceRefresh(c) \/ Logout(c) \/ \E a \in Targets : Switch(c, a)
    BY <1>2, <1>8 DEF Request, ForceRefresh, Logout, Switch, Begin, auth
  <1>9. QED
    BY <1>3, <1>4, <1>5, <1>6, <1>7, <1>8 DEF Act, Step
\* The session a task works with is the cached one, before or after the step.
LEMMA WorksWithCached ==
  ASSUME Control, NEW c \in Callers, Act(c)
  PROVE  mine'[c] \in {mine[c], session, session', None}
  <1>1. TypeOK /\ CallerInv(c) /\ Selecting(c)
    BY DEF Control
  <1>2. ASSUME NEW s, Resume(c, s) PROVE mine'[c] \in {mine[c], s, None}
    BY <1>1, <1>2 DEF Resume, Finish, TypeOK
  <1>3. ASSUME Finish(c) \/ Fail(c) PROVE mine'[c] = None
    BY <1>1, <1>3, FinishType, FailType
  <1>4. CASE GetSession(c)
    BY <1>2, <1>4 DEF GetSession
  <1>5. CASE Login(c)
    <2>1. CASE Fail(c)
      BY <1>3, <2>1
    <2>2. CASE UNCHANGED mine
      BY <2>2
    <2>3. CASE \E t \in Tokens :
                 /\ Cache([token |-> t, account |-> Landing])
                 /\ Resume(c, [token |-> t, account |-> Landing])
      BY <1>2, <2>3 DEF Cache
    <2>4. QED
      BY <1>5, <2>1, <2>2, <2>3 DEF Login
  <1>6. CASE Select(c)
    BY <1>1, <1>2, <1>6 DEF Select, TypeOK
  <1>7. CASE Put(c)
    BY <1>1, <1>3, <1>7 DEF Put, Refused, TypeOK
  <1>8. CASE Switched(c)
    <2> DEFINE s == [token |-> new[c], account |-> Wanted(c)]
    <2>1. session' = s /\ (Resume(c, s) \/ UNCHANGED mine)
      BY <1>8 DEF Switched, Cache
    <2> HIDE DEF s
    <2>2. QED
      BY <1>2, <2>1
  <1>9. CASE Adopt(c) \/ Revoke(c)
    BY <1>3, <1>9 DEF Adopt, Revoke
  <1>10. CASE Send(c)
    BY <1>1, <1>3, <1>10 DEF Send, TypeOK
  <1>11. CASE Request(c) \/ ForceRefresh(c) \/ Logout(c) \/ \E a \in Targets : Switch(c, a)
    BY <1>1, <1>11 DEF Request, ForceRefresh, Logout, Switch, Begin, TypeOK
  <1>12. QED
    BY <1>4, <1>5, <1>6, <1>7, <1>8, <1>9, <1>10, <1>11 DEF Act, Step

\* Every session a task works with after a step of a task is honest.
LEMMA MineHonest ==
  ASSUME TruthInv, NEW c \in Callers, Act(c), NEW d \in Callers
  PROVE  Honest(mine[d])'
  <1>1. TypeOK /\ Steady /\ Honest(session) /\ Honest(mine[d]) /\ Honest(session)'
    BY ActSteady, CacheHonest DEF TruthInv, Control, SessionTellsAccount
  <1>2. mine'[d] \in {mine[d], session, session', None}
    <2>1. CASE d = c
      BY <2>1, WorksWithCached DEF TruthInv
    <2>2. CASE d # c
      BY <1>1, <2>2, ActIsLocal
    <2>3. QED
      BY <2>1, <2>2
  <1>3. CASE mine'[d] = mine[d]
    <2>1. mine[d] \in Sessions \cup {None} /\ (mine[d] # None => Referred(mine[d].token))
      BY <1>1 DEF TypeOK, Referred, Names
    <2>2. mine[d] # None => served'[mine[d].token] \in {mine[d].account, None}
      BY <1>1, <2>1, SteadyHonest
    <2>3. QED
      BY <1>3, <2>2 DEF Honest
  <1>4. CASE mine'[d] = session
    <2>1. session \in Sessions \cup {None} /\ (session # None => Referred(session.token))
      BY <1>1 DEF TypeOK, Referred, Names
    <2>2. session # None => served'[session.token] \in {session.account, None}
      BY <1>1, <2>1, SteadyHonest
    <2>3. QED
      BY <1>4, <2>2 DEF Honest
  <1>5. CASE mine'[d] \in {session', None}
    BY <1>1, <1>5 DEF Honest
  <1>6. QED
    BY <1>2, <1>3, <1>4, <1>5

\* A task IG has moved a session for holds a token of the account it asked for.
LEMMA ToldStep ==
  ASSUME TruthInv, NEW c \in Callers, Act(c), NEW d \in Callers
  PROVE  Told(d)'
  <1>1. TypeOK /\ Steady /\ Told(d) /\ CallerInv(c) /\ CallerInv(d) /\ Selecting(c)
    BY ActSteady DEF TruthInv, Control
  <1>2. CASE d # c
    <2> SUFFICES ASSUME pc'[d] = "switched"
                 PROVE  served'[new'[d]] \in {Wanted(d)', None}
      BY DEF Told
    <2>1. /\ pc[d] = "switched" /\ new'[d] = new[d] /\ Wanted(d)' = Wanted(d)
      BY <1>1, <1>2, ActIsLocal DEF Wanted
    <2>2. new[d] \in Tokens /\ Referred(new[d]) /\ served[new[d]] \in {Wanted(d), None}
      BY <1>1, <2>1 DEF CallerInv, TypeOK, Told, Referred
    <2>3. QED
      BY <1>1, <2>1, <2>2 DEF Steady
  <1>3. CASE d = c /\ pc'[c] # "switched"
    BY <1>3 DEF Told
  <1>4. CASE d = c /\ pc'[c] = "switched"
    <2>1. Put(c) /\ ~Fail(c)
      <3>1. CASE Fail(c)
        BY <1>1, <1>4, <3>1, FailType
      <3>2. CASE \E s : Resume(c, s)
        BY <1>1, <1>4, <3>2, FinishType DEF Resume, Goto, TypeOK
      <3>3. CASE Finish(c)
        BY <1>1, <1>4, <3>3, FinishType
      <3>4. CASE \E label \in Labels \ {"switched"} : Goto(c, label)
        BY <1>1, <1>4, <3>4, GotoType
      <3>5. QED
        BY <1>4, <3>1, <3>2, <3>3, <3>4, LabelFacts
        DEF Act, Step, GetSession, Login, Select, Switched, Adopt, Send, Revoke, Request,
            ForceRefresh, Logout, Switch, Begin
    <2>2. PICK t \in Tokens :
            /\ Issued(t)
            /\ \E answer \in Kept(t, mine[c]) : new' = [new EXCEPT ![c] = answer]
            /\ Serve([served EXCEPT ![mine[c].token] = None, ![t] = Wanted(c)])
      BY <2>1 DEF Put, Refused
    <2>3. UNCHANGED <<caller, logging_in>> /\ pc[c] = "put"
      BY <2>1 DEF Put, Refused
    <2>4. Wanted(c)' = Wanted(c) /\ Wanted(c) \in Accounts
      BY <1>1, <2>3, WantedType DEF Wanted, caller
    <2>5. mine[c].token \in Tokens
      BY <1>1, <2>3, SessionFacts DEF CallerInv, TypeOK
    <2>6. new'[c] \in {t, mine[c].token}
      BY <1>1, <2>2 DEF Kept, TypeOK
    <2> DEFINE accounts == [served EXCEPT ![mine[c].token] = None, ![t] = Wanted(c)]
    <2>7. /\ accounts \in [Tokens -> Accounts \cup {None}]
          /\ accounts[t] = Wanted(c) /\ accounts[mine[c].token] \in {Wanted(c), None}
      BY <1>1, <2>4, <2>5 DEF TypeOK
    <2> HIDE DEF accounts
    <2>8. Serve(accounts)
      BY <2>2 DEF accounts
    <2>9. served'[new'[c]] \in {Wanted(c), None}
      BY <2>5, <2>6, <2>7, <2>8, ServeType
    <2>10. QED
      BY <1>4, <2>4, <2>9 DEF Told
  <1>5. QED
    BY <1>2, <1>3, <1>4
\* Before anything is cached nothing can lie ...
LEMMA InitTruth == Init => TruthInv
  <1> SUFFICES ASSUME Init PROVE TruthInv
    OBVIOUS
  <1>1. Control
    BY InitControl
  <1>2. SessionTellsAccount /\ \A c \in Callers : Told(c)
    BY DEF Init, SessionTellsAccount, Honest, Told
  <1>3. QED
    BY <1>1, <1>2 DEF TruthInv

\* ... and no step makes a session lie.
LEMMA NextTruth == TruthInv /\ [Next]_vars => TruthInv'
  <1> SUFFICES ASSUME TruthInv, [Next]_vars PROVE TruthInv'
    OBVIOUS
  <1>1. Control'
    BY NextControl DEF TruthInv
  <1>2. CASE \E c \in Callers : Act(c)
    <2>1. SessionTellsAccount'
      BY <1>2, CacheHonest, MineHonest DEF SessionTellsAccount
    <2>2. \A d \in Callers : Told(d)'
      BY <1>2, ToldStep
    <2>3. QED
      BY <1>1, <2>1, <2>2 DEF TruthInv
  <1>3. CASE Expire \/ (\E t \in Tokens : Invalidate(t)) \/ UNCHANGED vars
    <2>1. TypeOK
      BY DEF TruthInv, Control
    <2>2. UNCHANGED <<session, pc, caller, logging_in, mine, new>>
      BY <1>3 DEF Expire, Invalidate, vars, auth
    <2>3. \A t \in Tokens : served'[t] \in {served[t], None}
      BY <1>3, <2>1 DEF Expire, Invalidate, vars, TypeOK
    <2>4. ASSUME NEW s \in Sessions \cup {None}, Honest(s)
          PROVE  s # None => served'[s.token] \in {s.account, None}
      BY <2>3, <2>4, SessionFacts DEF Honest
    <2>5. Honest(session)'
      BY <2>1, <2>2, <2>4 DEF TruthInv, SessionTellsAccount, TypeOK, Honest
    <2>6. ASSUME NEW d \in Callers PROVE Honest(mine[d])'
      <3>1. mine[d] \in Sessions \cup {None} /\ Honest(mine[d])
        BY <2>1, <2>6 DEF TruthInv, SessionTellsAccount, TypeOK
      <3>2. QED
        BY <2>2, <2>4, <3>1 DEF Honest
    <2>7. ASSUME NEW d \in Callers PROVE Told(d)'
      <3>1. pc[d] = "switched" => new[d] \in Tokens
        BY <2>1, <2>7 DEF TruthInv, Control, CallerInv, TypeOK
      <3>2. Told(d) /\ pc'[d] = pc[d] /\ new'[d] = new[d] /\ Wanted(d)' = Wanted(d)
        BY <2>2, <2>7 DEF TruthInv, Wanted, caller
      <3>3. QED
        BY <2>3, <3>1, <3>2 DEF Told
    <2>8. QED
      BY <1>1, <2>5, <2>6, <2>7 DEF TruthInv, SessionTellsAccount
  <1>4. QED
    BY <1>2, <1>3 DEF Next, Act

\* A session never lies about its account, in the cache or in a request under way,
\* however many tasks log in, switch and log out, and whatever IG ends or loses.
THEOREM Truth == Spec => []SessionTellsAccount
  <1>1. TruthInv => SessionTellsAccount
    BY DEF TruthInv
  <1>2. QED
    BY <1>1, InitTruth, NextTruth, PTL DEF Spec

-----------------------------------------------------------------------------
(* The account a login lands on.                                           *)

\* A step of a task leaves the landing account cached only within a login.
LEMMA LandingStep ==
  ASSUME Control, NoLandingLeft, NEW c \in Callers, Act(c)
  PROVE  NoLandingLeft'
  <1>1. TypeOK /\ CallerInv(c) /\ Selecting(c)
    BY DEF Control
  <1>2. CASE session' = None
    BY <1>2 DEF NoLandingLeft
  <1>3. CASE session' = session /\ logging_in'[c] = logging_in[c]
    <2>1. \A d \in Callers : logging_in'[d] = logging_in[d]
      BY <1>1, <1>3, ActIsLocal
    <2>2. QED
      BY <1>3, <2>1 DEF NoLandingLeft
  <1>4. CASE logging_in'[c]
    BY <1>4 DEF NoLandingLeft
  <1>5. CASE session' # None /\ session'.account \in Chosen
    BY <1>5 DEF NoLandingLeft
  <1>6. CASE Fail(c)
    BY <1>1, <1>2, <1>3, <1>6 DEF Fail, Cache, auth, TypeOK
  <1>7. CASE Login(c)
    <2>1. ASSUME NEW t \in Tokens, ~ShouldSwitchAccount,
                 Cache([token |-> t, account |-> Landing])
          PROVE  NoLandingLeft'
      BY <1>5, <2>1, SessionFacts, ChosenFacts DEF Cache
    <2>2. CASE logging_in' = [logging_in EXCEPT ![c] = TRUE]
      BY <1>1, <1>4, <2>2 DEF TypeOK
    <2>3. QED
      BY <1>6, <1>7, <2>1, <2>2 DEF Login
  <1>8. CASE Select(c)
    <2>1. CASE Usable /\ session.account = Configured
      BY <1>1, <1>5, <1>8, <2>1, ChosenFacts DEF Select, Usable, auth, CallerInv, Selecting
    <2>2. QED
      BY <1>3, <1>8, <2>1 DEF Select, auth
  <1>9. CASE Switched(c)
    <2>1. session' = [token |-> new[c], account |-> Wanted(c)] /\ pc[c] = "switched"
      BY <1>9 DEF Switched, Cache
    <2>2. Wanted(c) \in Chosen /\ session' \in Sessions
      BY <1>1, <2>1, WantedType, SessionFacts DEF CallerInv, TypeOK
    <2>3. QED
      BY <1>5, <2>1, <2>2, SessionFacts
  <1>10. CASE Put(c)
    BY <1>3, <1>6, <1>10 DEF Put, Refused, auth
  <1>11. CASE Revoke(c)
    BY <1>2, <1>11 DEF Revoke, Cache
  <1>12. CASE GetSession(c) \/ Adopt(c) \/ Send(c)
    BY <1>3, <1>12 DEF GetSession, Adopt, Send, auth
  <1>13. CASE Request(c) \/ ForceRefresh(c) \/ Logout(c) \/ \E a \in Targets : Switch(c, a)
    BY <1>3, <1>13 DEF Request, ForceRefresh, Logout, Switch, Begin, auth
  <1>14. QED
    BY <1>7, <1>8, <1>9, <1>10, <1>11, <1>12, <1>13 DEF Act, Step

\* The account IG logs in on is cached only while a login is under way.
THEOREM NothingLeft == Spec => []NoLandingLeft
  <1>1. Init => NoLandingLeft
    BY DEF Init, NoLandingLeft
  <1>2. Control /\ NoLandingLeft /\ [Next]_vars => NoLandingLeft'
    <2>1. ASSUME Control, NoLandingLeft, \E c \in Callers : Act(c) PROVE NoLandingLeft'
      BY <2>1, LandingStep
    <2>2. ASSUME NoLandingLeft, Expire \/ (\E t \in Tokens : Invalidate(t)) \/ UNCHANGED vars
          PROVE  NoLandingLeft'
      BY <2>2 DEF NoLandingLeft, Expire, Invalidate, vars, auth
    <2>3. QED
      BY <2>1, <2>2 DEF Next, Act
  <1>3. QED
    BY <1>1, <1>2, Controlled, PTL DEF Spec

\* A request that goes out on an account nobody asked for has read the cache of a login.
LEMMA SendsStep ==
  ASSUME Control, NoLandingLeft, [Next]_vars, NEW c \in Callers,
         pc[c] # "send", pc'[c] = "send", mine'[c].account \notin Chosen
  PROVE  pc[c] = "get" /\ \E d \in Callers \ {c} : logging_in[d]
  <1>1. TypeOK /\ CallerInv(c) /\ Selecting(c)
    BY DEF Control
  <1>2. Act(c)
    <2>1. CASE \E d \in Callers : Act(d)
      BY <1>1, <2>1, ActIsLocal
    <2>2. CASE Expire \/ (\E t \in Tokens : Invalidate(t)) \/ UNCHANGED vars
      BY <2>2 DEF Expire, Invalidate, vars
    <2>3. QED
      BY <2>1, <2>2 DEF Next, Act
  <1>3. ASSUME Fail(c) \/ Finish(c) PROVE FALSE
    BY <1>1, <1>3, FailType, FinishType
  <1>4. ASSUME NEW s, Resume(c, s) PROVE mine'[c] = s
    BY <1>1, <1>3, <1>4, LabelFacts, GotoType DEF Resume, TypeOK
  <1>5. ASSUME NEW label \in Labels \ {"send"}, Goto(c, label) PROVE FALSE
    BY <1>1, <1>5, GotoType
  <1>6. CASE GetSession(c)
    <2>1. pc[c] = "get" /\ Usable /\ Resume(c, session)
      BY <1>5, <1>6, LabelFacts DEF GetSession
    <2>2. session # None /\ session.account \notin Chosen
      BY <1>4, <2>1 DEF Usable
    <2>3. PICK d \in Callers : logging_in[d]
      BY <2>2 DEF NoLandingLeft
    <2>4. d # c
      BY <1>1, <2>1, <2>3 DEF Selecting
    <2>5. QED
      BY <2>1, <2>3, <2>4
  <1>7. CASE Login(c)
    <2>1. PICK t \in Tokens :
            ~ShouldSwitchAccount /\ Resume(c, [token |-> t, account |-> Landing])
      BY <1>3, <1>5, <1>7, LabelFacts DEF Login
    <2>2. QED
      BY <1>4, <2>1, SessionFacts, ChosenFacts
  <1>8. CASE Select(c)
    <2>1. pc[c] = "select" /\ session.account = Configured /\ Resume(c, session)
      BY <1>5, <1>8, LabelFacts DEF Select
    <2>2. QED
      BY <1>1, <1>4, <2>1, ChosenFacts DEF CallerInv, Selecting
  <1>9. CASE Switched(c)
    <2>1. pc[c] = "switched" /\ Resume(c, [token |-> new[c], account |-> Wanted(c)])
      BY <1>5, <1>9, LabelFacts DEF Switched
    <2>2. mine'[c] = [token |-> new[c], account |-> Wanted(c)]
      BY <1>4, <2>1
    <2>3. QED
      BY <1>1, <2>1, <2>2, WantedType
  <1>10. ASSUME NEW label, label # "send", pc' = [pc EXCEPT ![c] = label] PROVE FALSE
    BY <1>1, <1>10 DEF TypeOK
  <1>11. CASE Put(c) \/ Adopt(c) \/ Send(c) \/ Revoke(c)
    BY <1>3, <1>11, <1>10 DEF Put, Refused, Adopt, Send, Revoke, Goto
  <1>12. CASE Request(c) \/ ForceRefresh(c) \/ Logout(c) \/ \E a \in Targets : Switch(c, a)
    BY <1>10, <1>12 DEF Request, ForceRefresh, Logout, Switch, Begin, Goto
  <1>13. QED
    BY <1>2, <1>6, <1>7, <1>8, <1>9, <1>11, <1>12 DEF Act, Step

\* However logins, switches, logouts and replays overlap: a request goes out on the
\* account IG logs in on only when it reads the session of another's unfinished login.
THEOREM Meanwhile == Spec => LandingOnlyMeanwhile
  <1>1. Control /\ NoLandingLeft /\ [Next]_vars =>
          [\A c \in Callers :
             pc[c] # "send" /\ pc'[c] = "send" /\ mine'[c].account \notin Chosen
               => pc[c] = "get" /\ \E d \in Callers \ {c} : logging_in[d]]_vars
    BY SendsStep
  <1>2. QED
    BY <1>1, Controlled, NothingLeft, PTL DEF Spec, LandingOnlyMeanwhile
-----------------------------------------------------------------------------
(* The selected account.                                                   *)

\* What the one task in an operation has made of session and selected account: they agree
\* but for a login that selects the account, and between the two stores of a switch.
Agrees(c) ==
  /\ pc[c] = "adopt" /\ session # None => session.account = target[c]
  /\ past = "clean" /\ logging_in[c] => selected = Configured
  /\ past = "clean" /\ ~logging_in[c] /\ pc[c] # "adopt" /\ session # None
       => session.account = Account(selected)

ForceInv ==
  /\ past # "overlapped" =>
       /\ \A c, d \in Callers : pc[c] # "idle" /\ pc[d] # "idle" => c = d
       /\ \A c \in Callers : pc[c] # "idle" => Agrees(c)
  /\ AccountInForce

\* An operation that goes on with the session that is cached.
LEMMA ResumeAgrees ==
  ASSUME TypeOK, NEW c \in Callers, NEW s \in Sessions, Resume(c, s), session' = s,
         ~logging_in'[c], selected' = selected, past' = "clean" => s.account = Account(selected)
  PROVE  Agrees(c)'
  <1>1. pc'[c] = "adopt" => s.account = target[c] /\ target' = target
    BY GotoType, LabelFacts DEF Resume, Finish, caller, TypeOK
  <1>2. QED
    BY <1>1 DEF Agrees

\* One that fails, as a login or a PUT may.
LEMMA FailAgrees ==
  ASSUME TypeOK, NEW c \in Callers, Agrees(c), Fail(c), pc[c] # "adopt",
         UNCHANGED <<selected, past>>
  PROVE  Agrees(c)'
  <1>1. pc'[c] = "idle" /\ ~logging_in'[c]
    BY FailType DEF Fail, TypeOK
  <1>2. session' = IF logging_in[c] THEN None ELSE session
    BY DEF Fail, Cache, auth
  <1>3. QED
    BY <1>1, <1>2 DEF Agrees

\* One that goes on without a store.
LEMMA SameAgrees ==
  ASSUME NEW c \in Callers, Agrees(c), pc[c] # "adopt", pc'[c] # "adopt",
         UNCHANGED <<session, logging_in, selected, past>>
  PROVE  Agrees(c)'
  BY DEF Agrees

\* A step of the task that is in an operation alone: it may store a session of the landing
\* account only when the configured one is selected, or else the history says so.
LEMMA TaskAgrees ==
  ASSUME Control, NEW c \in Callers, Step(c), past # "overlapped", Agrees(c)
  PROVE  past' # "overlapped" /\ Agrees(c)'
  <1>1. TypeOK /\ CallerInv(c) /\ Selecting(c)
    BY DEF Control
  <1> USE SessionFacts, LabelFacts, GotoType
  <1>2. CASE GetSession(c)
    <2>1. ~logging_in[c] /\ pc[c] = "get"
          /\ UNCHANGED <<session, logging_in, selected, past>>
      BY <1>1, <1>2 DEF GetSession, Selecting, auth
    <2>2. CASE Usable
      <3>1. session \in Sessions /\ Resume(c, session)
        BY <1>1, <1>2, <2>2 DEF GetSession, Usable, TypeOK
      <3>2. past' = "clean" => session.account = Account(selected)
        BY <2>1, <3>1 DEF Agrees
      <3>3. QED
        BY <1>1, <2>1, <3>1, <3>2, ResumeAgrees
    <2>3. CASE ~Usable
      <3>1. pc'[c] = "login"
        BY <1>1, <1>2, <2>3 DEF GetSession
      <3>2. QED
        BY <2>1, <3>1, SameAgrees
    <2>4. QED
      BY <2>2, <2>3
  <1>3. CASE Login(c)
    <2>1. CASE Fail(c) /\ UNCHANGED past
      BY <1>1, <1>3, <2>1, FailAgrees DEF Login
    <2>2. ASSUME NEW t \in Tokens,
                 Cache([token |-> t, account |-> Landing]),
                 past' = IF past = "clean" /\ selected # Configured THEN "relogged" ELSE past,
                 IF ShouldSwitchAccount
                 THEN /\ Goto(c, "select")
                      /\ logging_in' = [logging_in EXCEPT ![c] = TRUE]
                      /\ UNCHANGED <<caller, mine, bucket>>
                 ELSE /\ Resume(c, [token |-> t, account |-> Landing])
                      /\ UNCHANGED logging_in
          PROVE  past' # "overlapped" /\ Agrees(c)'
      <3> DEFINE s == [token |-> t, account |-> Landing]
      <3>1. session' = s /\ s \in Sessions /\ s.account = Landing
            /\ selected' = selected /\ past' # "overlapped"
            /\ (past' = "clean" => selected = Configured)
        BY <1>3, <2>2 DEF Cache, Login
      <3>2. CASE ~ShouldSwitchAccount
        <4>1. Resume(c, s) /\ ~logging_in'[c]
          BY <1>1, <2>2, <3>2 DEF Selecting
        <4> HIDE DEF s
        <4>2. QED
          BY <1>1, <3>1, <3>2, <4>1, ResumeAgrees, ChosenFacts
      <3>3. CASE ShouldSwitchAccount
        <4>1. pc'[c] = "select" /\ logging_in'[c]
          BY <1>1, <2>2, <3>3 DEF TypeOK
        <4>2. QED
          BY <3>1, <4>1 DEF Agrees
      <3>4. QED
        BY <3>2, <3>3
    <2>3. QED
      BY <1>3, <2>1, <2>2 DEF Login
  <1>4. CASE Select(c)
    <2>1. pc[c] = "select" /\ logging_in[c] /\ UNCHANGED <<session, selected, past>>
      BY <1>1, <1>4 DEF Select, CallerInv, auth
    <2>2. CASE \E label \in {"login", "put"} : Goto(c, label) /\ UNCHANGED logging_in
      <3>1. pc'[c] # "adopt"
        BY <1>1, <2>2
      <3>2. QED
        BY <2>1, <2>2, <3>1, SameAgrees
    <2>3. CASE Usable /\ session.account = Configured /\ Resume(c, session)
               /\ logging_in' = [logging_in EXCEPT ![c] = FALSE]
      <3>1. session \in Sessions /\ ~logging_in'[c]
        BY <1>1, <2>3 DEF Usable, TypeOK
      <3>2. past' = "clean" => session.account = Account(selected)
        BY <1>1, <2>1, <2>3, ChosenFacts DEF Agrees, Selecting
      <3>3. QED
        BY <1>1, <2>1, <2>3, <3>1, <3>2, ResumeAgrees
    <2>4. QED
      BY <1>4, <2>2, <2>3 DEF Select
  <1>5. CASE Put(c)
    <2>1. CASE Goto(c, "switched") /\ UNCHANGED <<auth, logging_in>>
      <3>1. pc'[c] = "switched"
        BY <1>1, <2>1
      <3>2. QED
        BY <1>5, <2>1, <3>1, SameAgrees DEF Put, auth
    <2>2. QED
      BY <1>1, <1>5, <2>1, FailAgrees DEF Put, Refused
  <1>6. CASE Switched(c)
    <2> DEFINE s == [token |-> new[c], account |-> Wanted(c)]
    <2>1. pc[c] = "switched" /\ session' = s /\ UNCHANGED <<selected, past>>
          /\ ~logging_in'[c]
      BY <1>1, <1>6 DEF Switched, Cache, TypeOK
    <2>2. s \in Sessions /\ s.account = Wanted(c)
      BY <1>1, <2>1, WantedType DEF CallerInv, TypeOK
    <2>3. CASE logging_in[c]
      <3>1. Resume(c, s) /\ Wanted(c) = Configured
        BY <1>6, <2>3 DEF Switched, Wanted
      <3>2. past' = "clean" => s.account = Account(selected)
        BY <1>1, <2>1, <2>2, <2>3, <3>1, ChosenFacts DEF Agrees, Selecting
      <3> HIDE DEF s
      <3>3. QED
        BY <1>1, <2>1, <2>2, <3>1, <3>2, ResumeAgrees
    <2>4. CASE ~logging_in[c]
      <3>1. pc'[c] = "adopt" /\ target' = target /\ Wanted(c) = target[c]
        BY <1>1, <1>6, <2>4 DEF Switched, Wanted, caller
      <3> HIDE DEF s
      <3>2. QED
        BY <2>1, <2>2, <3>1 DEF Agrees
    <2>5. QED
      BY <2>3, <2>4
  <1>7. CASE Adopt(c)
    <2>1. /\ pc[c] = "adopt" /\ selected' = target[c] /\ past' # "overlapped"
          /\ UNCHANGED <<session, logging_in>> /\ pc'[c] = "idle"
      BY <1>1, <1>7, FinishType DEF Adopt, auth
    <2>2. ~logging_in[c]
      BY <1>1, <2>1 DEF Selecting
    <2>3. Account(target[c]) = target[c]
      BY <1>1, <2>1, ChosenFacts DEF CallerInv
    <2>4. QED
      BY <2>1, <2>2, <2>3 DEF Agrees, Account
  <1>8. CASE Send(c)
    <2>1. pc[c] = "send" /\ UNCHANGED <<session, logging_in, selected, past>>
      BY <1>8 DEF Send, auth
    <2>2. pc'[c] # "adopt"
      BY <1>1, <1>8, FinishType DEF Send
    <2>3. QED
      BY <2>1, <2>2, SameAgrees
  <1>9. CASE Revoke(c)
    <2>1. session' = None /\ UNCHANGED <<selected, logging_in, past>> /\ ~logging_in[c]
      BY <1>1, <1>9 DEF Revoke, Cache, Selecting
    <2>2. QED
      BY <2>1 DEF Agrees
  <1>10. QED
    BY <1>2, <1>3, <1>4, <1>5, <1>6, <1>7, <1>8, <1>9 DEF Step

\* An operation that begins, when none is under way, finds session and account equal.
LEMMA BeginForce ==
  ASSUME Control, ForceInv, NEW c \in Callers, NEW operation, NEW label \in Labels,
         label # "adopt", Begin(c, operation, label)
  PROVE  ForceInv'
  <1>1. TypeOK /\ pc[c] = "idle" /\ pc' = [pc EXCEPT ![c] = label]
        /\ UNCHANGED <<session, selected, logging_in>>
        /\ past' = IF Quiet THEN past ELSE "overlapped"
    BY DEF Control, Begin, Goto, auth
  <1>2. ~logging_in[c]
    BY <1>1 DEF Control, Selecting
  <1>3. \A d \in Callers : d # c => pc'[d] = pc[d]
    BY <1>1 DEF TypeOK
  <1>4. pc'[c] = label
    BY <1>1 DEF TypeOK
  <1>6. ASSUME past' # "overlapped"
        PROVE  /\ \A d, e \in Callers : pc'[d] # "idle" /\ pc'[e] # "idle" => d = e
               /\ \A d \in Callers : pc'[d] # "idle" => Agrees(d)'
    <2>1. Quiet /\ past' = past
      BY <1>1, <1>6
    <2>2. \A d \in Callers : pc'[d] # "idle" => d = c
      BY <1>3, <2>1 DEF Quiet
    <2>3. Agrees(c)'
      BY <1>1, <1>2, <1>4, <2>1 DEF Agrees, ForceInv, AccountInForce
    <2>4. QED
      BY <2>2, <2>3
  <1>7. AccountInForce'
    BY <1>1, <1>3 DEF AccountInForce, Quiet, ForceInv
  <1>8. QED
    BY <1>6, <1>7 DEF ForceInv

\* Every step keeps the invariant.
LEMMA NextForce == Control /\ ForceInv /\ [Next]_vars => ForceInv'
  <1> SUFFICES ASSUME Control, ForceInv, [Next]_vars PROVE ForceInv'
    OBVIOUS
  <1>1. ASSUME NEW c \in Callers, Step(c) PROVE ForceInv'
    <2>1. TypeOK /\ pc[c] # "idle" /\ Act(c)
      BY <1>1 DEF Control, Act, Step, GetSession, Login, Select, Put, Switched, Adopt, Send, Revoke
    <2>2. \A d \in Callers : d # c =>
            pc'[d] = pc[d] /\ logging_in'[d] = logging_in[d] /\ target'[d] = target[d]
      BY <2>1, ActIsLocal
    <2>3. Selecting(c)'
      BY <2>1, TaskSelecting DEF Control
    <2>4. past = "overlapped" => past' = "overlapped"
      BY <1>1 DEF Step, GetSession, Login, Select, Put, Switched, Adopt, Send, Revoke
    <2>5. past # "overlapped" => Agrees(c)'
      BY <1>1, <2>1, TaskAgrees DEF ForceInv
    <2>6. past # "overlapped" => \A d \in Callers : d # c => pc'[d] = "idle"
      BY <2>1, <2>2 DEF ForceInv
    <2>7. AccountInForce'
      <3>1. SUFFICES ASSUME past' = "clean", Quiet', session' # None
                     PROVE  session'.account = Account(selected)'
        BY DEF AccountInForce
      <3>2. pc'[c] = "idle" /\ ~logging_in'[c]
        BY <2>3, <3>1 DEF Quiet, Selecting
      <3>3. QED
        BY <2>4, <2>5, <3>1, <3>2 DEF Agrees
    <2>8. QED
      BY <2>3, <2>4, <2>5, <2>6, <2>7 DEF ForceInv
  <1>2. ASSUME NEW c \in Callers,
               \/ Request(c) \/ ForceRefresh(c) \/ Logout(c)
               \/ \E account \in Targets : Switch(c, account)
        PROVE  ForceInv'
    <2>1. PICK operation \in Operations, label \in Labels \ {"adopt"} : Begin(c, operation, label)
      BY <1>2, LabelFacts DEF Request, ForceRefresh, Logout, Switch
    <2>2. QED
      BY <2>1, BeginForce
  <1>3. CASE Expire \/ (\E t \in Tokens : Invalidate(t)) \/ UNCHANGED vars
    <2>1. UNCHANGED <<session, selected, pc, target, logging_in, past>>
      BY <1>3 DEF Expire, Invalidate, vars, auth, caller
    <2>2. QED
      BY <2>1 DEF ForceInv, Selecting, Agrees, AccountInForce, Quiet
  <1>4. QED
    BY <1>1, <1>2, <1>3 DEF Next

\* Operations that do not overlap keep the session on the selected account, through failed
\* and unanswered switches, until a login after a switch.
THEOREM InForce == Spec => []AccountInForce
  <1>1. Init => ForceInv
    BY DEF Init, ForceInv, AccountInForce
  <1>2. ForceInv => AccountInForce
    BY DEF ForceInv
  <1>3. QED
    BY <1>1, <1>2, Controlled, NextForce, PTL DEF Spec
=============================================================================
