---------------------------- MODULE RequestPool ----------------------------
(***************************************************************************)
(* The request pipeline of HttpClient (src/application/http.rs): several   *)
(* callers send REST requests through one pool of API keys.  A request     *)
(* picks a key and reserves a token of its bucket (reserve_slot), sends,   *)
(* retries (make_http_request_paced), rotates to another key or refreshes  *)
(* a session and replays (request_internal).                               *)
(*                                                                         *)
(* Every await on IG, on a bucket, on a timer or on a login is a step      *)
(* boundary, where callers interleave, and so is each access to the        *)
(* primary while it is promoted; a read lock that nobody holds for long is *)
(* not one.  Abstracted:                                                   *)
(*   - a token bucket grants or refuses when it likes (any pattern of      *)
(*     refills); only that a send holds a token of the right bucket        *)
(*     matters here;                                                       *)
(*   - get_session of a key is one step whose outcome is free when the key *)
(*     holds no session that is ready;                                     *)
(*   - time is the remaining cooldown of a key, in ticks.                  *)
(***************************************************************************)
EXTENDS Naturals, FiniteSets

CONSTANTS
  Callers,      \* the tasks that share the client
  N,            \* the number of API keys of the pool
  MaxRetries,   \* RetryConfig::default().max_retries()
  Cooldown,     \* KEY_COOLDOWN, in ticks
  Workload,     \* the requests each caller makes
  NoKey         \* "no slot": None of an Option<usize>

Keys == 0 .. N - 1

Policies == {"Standard", "SingleAttempt"}

\* What request_internal reads of a request: whether the verb is POST, PUT or
\* DELETE, the endpoint, whether the path holds a '%', the policy asked for.
Routes == {"otc", "prices", "other"}
Calls == [mutation : BOOLEAN, route : Routes, escaped : BOOLEAN, asked : Policies]

ASSUME PoolAssumption ==
  /\ N \in Nat \ {0}
  /\ MaxRetries \in Nat
  /\ Cooldown \in Nat \ {0}
  /\ Workload \in [Callers -> (SUBSET Calls) \ {{}}]
  /\ NoKey \notin Keys

\* classify_endpoint
Class(call) ==
  CASE call.mutation /\ call.route = "otc" -> "Trading"
    [] call.route = "prices"               -> "Historical"
    [] OTHER                               -> "NonTrading"

\* The policy in force: order traffic and mutations whose path is percent-escaped
\* are sent once whatever the caller asked for.
Policy(call) ==
  IF Class(call) = "Trading" \/ (call.mutation /\ call.escaped)
  THEN "SingleAttempt"
  ELSE call.asked

MayRotate(call) ==
  Policy(call) = "Standard" /\ Class(call) = "NonTrading" /\ N > 1

\* What get_session and force_refresh report: "key" is ApiKeyAllowanceExceeded,
\* "auth" a 401, "other" every other error.
LoginOutcomes == {"ok", "key", "auth", "other"}

\* What a send comes back with: "account" is an account, trading or historical
\* allowance, "transient" a 429 or a 5xx, "other" a transport error, another 403
\* or a permanent status.
Answers == {"ok", "key", "account", "auth", "transient", "other"}

Labels ==
  { "idle", "loop", "primary", "primary_session", "pass1", "pass2", "login",
    "wait", "asleep", "race", "won", "promote", "judge", "move", "hand", "on_slot",
    "charge", "send", "answer", "retry", "refresh" }

VARIABLES
  ready,      \* has_ready_session() of each slot's Auth
  left,       \* remaining cooldown of each slot; 0 is "not in cooldown"
  primary,    \* the slot trading and streaming use
  cursor,     \* the round-robin cursor, modulo the pool
  pc,         \* where each caller awaits
  call,       \* the request it makes
  tried,      \* request_internal: the slots this request went to
  replayed,   \* request_internal: the one replay is spent
  replay_on,  \* request_internal: the slot the replay is pinned to
  start,      \* reserve_slot: where its scan of the pool begins
  offset,     \* reserve_slot: how far the scan is
  waiting,    \* reserve_slot: the slots select_all waits on
  wake,       \* reserve_slot: ticks left of its sleep
  seen,       \* promote_primary_if_needed: the primary it has read
  slot,       \* the slot the request is on
  attempt,    \* make_http_request_paced: the attempt in progress
  result,     \* what the last request returned, "none" while one runs
  proved,     \* history: the keys that have logged in
  held,       \* history: the key whose token the request holds
  charged,    \* history: it holds a token of the account bucket
  sends,      \* history: how often the request went on the wire
  refused     \* history: the keys that refused it for their allowance

pool    == <<ready, left, primary, cursor, proved>>
request == <<call, tried, replayed, replay_on>>
scan    == <<start, offset, waiting, wake, seen>>
ledger  == <<held, charged, sends, refused>>
vars    == <<pool, pc, request, scan, slot, attempt, result, ledger>>

InCooldown(k) == left[k] > 0

Goto(c, label) == pc' = [pc EXCEPT ![c] = label]

\* The request returns, and its locals go with it.
Return(c, outcome) ==
  /\ Goto(c, "idle")
  /\ result' = [result EXCEPT ![c] = outcome]
  /\ tried' = [tried EXCEPT ![c] = {}]
  /\ replayed' = [replayed EXCEPT ![c] = FALSE]
  /\ slot' = [slot EXCEPT ![c] = 0]
  /\ attempt' = [attempt EXCEPT ![c] = 0]
  /\ held' = [held EXCEPT ![c] = NoKey]
  /\ sends' = [sends EXCEPT ![c] = 0]
  /\ refused' = [refused EXCEPT ![c] = {}]
  /\ UNCHANGED charged

\* The slot the scan of a caller looks at.
Candidate(c) == (start[c] + offset[c]) % N

\* Mutant: the selector does not filter the keys the request has been to.
CandidatesUnfiltered(c) == Keys

\* The slots the request has not been to.
Candidates(c) == Keys \ tried[c]

\* Mutant: a request rotates even when it has been to every key.
RotatesForever(c) == MayRotate(call[c])

\* retry.max_retries() of the attempt on the current slot: none while another key
\* is left to try.
Rotates(c) == MayRotate(call[c]) /\ tried[c] # Keys

\* Mutants: order traffic is retried; a key that rotation will leave is retried.
RetriesOrders(c) == IF Rotates(c) THEN 0 ELSE MaxRetries
RetriesEveryKey(c) == IF Policy(call[c]) = "SingleAttempt" THEN 0 ELSE MaxRetries

Retries(c) ==
  IF Rotates(c) \/ Policy(call[c]) = "SingleAttempt" THEN 0 ELSE MaxRetries

\* A rejected session is refreshed and the request replayed once, if it may be sent
\* again at all.
MayReplay(c) == Policy(call[c]) = "Standard" /\ ~replayed[c]

LoginOutcomesOf(k) == IF ready[k] THEN {"ok"} ELSE LoginOutcomes

\* A login that succeeds leaves a session behind.
Installs(k, outcome) ==
  /\ ready' = [ready EXCEPT ![k] = @ \/ outcome = "ok"]
  /\ proved' = IF outcome = "ok" THEN proved \cup {k} ELSE proved

MarkExhausted(k) == left' = [left EXCEPT ![k] = Cooldown]

\* reserve_slot hands out slot k, whose token it holds; request_internal records
\* the slot and goes on to request_on_slot.
Enter(c, k) ==
  /\ Goto(c, "on_slot")
  /\ slot' = [slot EXCEPT ![c] = k]
  /\ held' = [held EXCEPT ![c] = k]
  /\ tried' = [tried EXCEPT ![c] = @ \cup {k}]
  /\ attempt' = [attempt EXCEPT ![c] = 0]
  /\ UNCHANGED <<call, replayed, result, charged, sends, refused>>

\* The scan of reserve_slot is over.
EndScan(c) ==
  /\ start' = [start EXCEPT ![c] = 0]
  /\ offset' = [offset EXCEPT ![c] = 0]
  /\ waiting' = [waiting EXCEPT ![c] = {}]
  /\ wake' = [wake EXCEPT ![c] = 0]
  /\ UNCHANGED seen
-----------------------------------------------------------------------------
\* HttpClient::new logs in on the first key that accepts it and parks the ones
\* before it; new_lazy logs in nowhere.
Init ==
  /\ \/ /\ primary = 0
        /\ ready = [k \in Keys |-> FALSE]
        /\ left = [k \in Keys |-> 0]
     \/ \E first \in Keys :
          /\ primary = first
          /\ ready = [k \in Keys |-> k = first]
          /\ left = [k \in Keys |-> IF k < first THEN Cooldown ELSE 0]
  /\ cursor = 0
  /\ proved = {k \in Keys : ready[k]}
  /\ pc = [c \in Callers |-> "idle"]
  /\ call = [c \in Callers |-> CHOOSE r \in Workload[c] : TRUE]
  /\ tried = [c \in Callers |-> {}]
  /\ replayed = [c \in Callers |-> FALSE]
  /\ replay_on = [c \in Callers |-> NoKey]
  /\ start = [c \in Callers |-> 0]
  /\ offset = [c \in Callers |-> 0]
  /\ waiting = [c \in Callers |-> {}]
  /\ wake = [c \in Callers |-> 0]
  /\ seen = [c \in Callers |-> 0]
  /\ slot = [c \in Callers |-> 0]
  /\ attempt = [c \in Callers |-> 0]
  /\ result = [c \in Callers |-> "none"]
  /\ held = [c \in Callers |-> NoKey]
  /\ charged = [c \in Callers |-> FALSE]
  /\ sends = [c \in Callers |-> 0]
  /\ refused = [c \in Callers |-> {}]

\* A caller makes a request: request_internal enters its loop.
Begin(c) ==
  /\ pc[c] = "idle"
  /\ Goto(c, "loop")
  /\ \E r \in Workload[c] : call' = [call EXCEPT ![c] = r]
  /\ result' = [result EXCEPT ![c] = "none"]
  /\ UNCHANGED <<pool, tried, replayed, replay_on, scan, slot, attempt, ledger>>
-----------------------------------------------------------------------------
(* reserve_slot, trading: the primary of now, its token, its session.      *)

SelectPrimary(c) ==
  /\ pc[c] = "loop"
  /\ replay_on[c] = NoKey
  /\ Class(call[c]) = "Trading"
  /\ Goto(c, "primary")
  /\ slot' = [slot EXCEPT ![c] = primary]
  /\ UNCHANGED <<pool, request, scan, attempt, result, ledger>>

ReservePrimary(c) ==
  /\ pc[c] = "primary"
  /\ Goto(c, "primary_session")
  /\ held' = [held EXCEPT ![c] = slot[c]]
  /\ UNCHANGED <<pool, request, scan, slot, attempt, result, charged, sends, refused>>

\* `self.pool[primary].auth.get_session().await?`: no error parks the key.
PrimarySession(c) ==
  /\ pc[c] = "primary_session"
  /\ \E outcome \in LoginOutcomesOf(slot[c]) :
       /\ Installs(slot[c], outcome)
       /\ \/ /\ outcome = "ok"
             /\ Enter(c, slot[c])
          \/ /\ outcome # "ok"
             /\ Return(c, outcome)
             /\ UNCHANGED call
  /\ UNCHANGED <<left, primary, cursor, replay_on, scan>>
-----------------------------------------------------------------------------
(* reserve_slot, every other class.                                        *)

\* Mutant: the cursor is not wrapped.
NextCursorUnwrapped == cursor + 1

\* cursor.fetch_add(1), modulo the pool.
NextCursor == (cursor + 1) % N

SelectSlot(c) ==
  /\ pc[c] = "loop"
  /\ replay_on[c] = NoKey
  /\ Class(call[c]) # "Trading"
  /\ Goto(c, "pass1")
  /\ start' = [start EXCEPT ![c] = cursor]
  /\ cursor' = NextCursor
  /\ UNCHANGED <<ready, left, primary, proved, request, offset, waiting, wake, seen, slot,
                 attempt, result, ledger>>

NextCandidate(c) == offset' = [offset EXCEPT ![c] = @ + 1]

\* A pass is over: the next one starts from the first candidate.
EndPass(c, label) ==
  /\ offset[c] = N
  /\ Goto(c, label)
  /\ offset' = [offset EXCEPT ![c] = 0]
  /\ UNCHANGED <<pool, request, start, waiting, wake, seen, slot, attempt, result, ledger>>

\* Mutant: pass 1 takes keys whether or not they hold a session.
Pass1Unready(c) ==
  /\ pc[c] = "pass1"
  /\ \/ EndPass(c, "pass2")
     \/ /\ offset[c] < N
        /\ Candidate(c) \in Candidates(c)
        /\ ~InCooldown(Candidate(c))
        /\ Goto(c, "promote")
        /\ slot' = [slot EXCEPT ![c] = Candidate(c)]
        /\ held' = [held EXCEPT ![c] = Candidate(c)]
        /\ EndScan(c)
        /\ UNCHANGED <<pool, request, attempt, result, charged, sends, refused>>

\* Pass 1: keys that can send without logging in.  A candidate is passed over
\* when it cannot, or when its bucket refuses a token now.
Pass1(c) ==
  /\ pc[c] = "pass1"
  /\ \/ EndPass(c, "pass2")
     \/ /\ offset[c] < N
        /\ NextCandidate(c)
        /\ UNCHANGED <<pool, pc, request, start, waiting, wake, seen, slot, attempt, result,
                       ledger>>
     \/ /\ offset[c] < N
        /\ Candidate(c) \in Candidates(c)
        /\ ~InCooldown(Candidate(c))
        /\ ready[Candidate(c)]
        /\ Goto(c, "promote")
        /\ slot' = [slot EXCEPT ![c] = Candidate(c)]
        /\ held' = [held EXCEPT ![c] = Candidate(c)]
        /\ EndScan(c)
        /\ UNCHANGED <<pool, request, attempt, result, charged, sends, refused>>

\* Pass 2: the first key that is neither parked nor logged in is asked to log in.
NeedsLogin(c) ==
  /\ Candidate(c) \in Candidates(c)
  /\ ~InCooldown(Candidate(c))
  /\ ~ready[Candidate(c)]

Pass2(c) ==
  /\ pc[c] = "pass2"
  /\ \/ EndPass(c, "wait")
     \/ /\ offset[c] < N
        /\ IF NeedsLogin(c)
           THEN Goto(c, "login") /\ UNCHANGED offset
           ELSE NextCandidate(c) /\ UNCHANGED pc
        /\ UNCHANGED <<pool, request, start, waiting, wake, seen, slot, attempt, result,
                       ledger>>

\* The login of pass 2.  A key whose allowance is spent is parked and the next one
\* asked; one that logs in has no token yet.
Login(c) ==
  LET k == Candidate(c)
  IN /\ pc[c] = "login"
     /\ \E outcome \in LoginOutcomesOf(k) :
          /\ Installs(k, outcome)
          /\ \/ /\ outcome = "ok"
                /\ Goto(c, "promote")
                /\ slot' = [slot EXCEPT ![c] = k]
                /\ held' = [held EXCEPT ![c] = NoKey]
                /\ EndScan(c)
                /\ UNCHANGED <<left, tried, replayed, attempt, result, charged, sends,
                               refused>>
             \/ /\ outcome = "key"
                /\ N > 1
                /\ MarkExhausted(k)
                /\ Goto(c, "pass2")
                /\ NextCandidate(c)
                /\ UNCHANGED <<tried, replayed, start, waiting, wake, seen, slot, attempt,
                               result, ledger>>
             \/ /\ outcome # "ok"
                /\ outcome = "key" => N = 1
                /\ Return(c, outcome)
                /\ EndScan(c)
                /\ UNCHANGED left
     /\ UNCHANGED <<primary, cursor, call, replay_on>>

\* Mutant: keys without a session are dropped even when there are no others.
PreferReadyOnly(keys) == {k \in keys : ready[k]}

\* Of the keys to wait on, those that hold a session when there is one.
PreferReady(keys) ==
  LET sessions == {k \in keys : ready[k]}
  IN IF sessions = {} THEN keys ELSE sessions

\* Nothing can serve now: wait on the live keys, or sleep out the shortest
\* cooldown when every candidate is parked.
Wait(c) ==
  LET live == {k \in Candidates(c) : ~InCooldown(k)}
  IN /\ pc[c] = "wait"
     /\ \/ /\ live # {}
           /\ Goto(c, "race")
           /\ waiting' = [waiting EXCEPT ![c] = PreferReady(live)]
           /\ UNCHANGED wake
        \/ /\ live = {}
           /\ Goto(c, "asleep")
           /\ \E k \in Candidates(c) :
                /\ \A other \in Candidates(c) : left[k] <= left[other]
                /\ wake' = [wake EXCEPT ![c] = left[k]]
           /\ UNCHANGED waiting
     /\ UNCHANGED <<pool, request, start, offset, seen, slot, attempt, result, ledger>>

\* After the sleep the pool waits on every candidate, parked or not.
Wake(c) ==
  /\ pc[c] = "asleep"
  /\ wake[c] = 0
  /\ Goto(c, "race")
  /\ waiting' = [waiting EXCEPT ![c] = PreferReady(Candidates(c))]
  /\ UNCHANGED <<pool, request, start, offset, wake, seen, slot, attempt, result, ledger>>

\* select_all: one of the buckets refills, and its token is taken.
Race(c) ==
  /\ pc[c] = "race"
  /\ \E k \in waiting[c] :
       /\ slot' = [slot EXCEPT ![c] = k]
       /\ held' = [held EXCEPT ![c] = k]
  /\ Goto(c, "won")
  /\ EndScan(c)
  /\ UNCHANGED <<pool, request, attempt, result, charged, sends, refused>>

\* `self.pool[winner].auth.get_session().await?`
Won(c) ==
  /\ pc[c] = "won"
  /\ \E outcome \in LoginOutcomesOf(slot[c]) :
       /\ Installs(slot[c], outcome)
       /\ \/ /\ outcome = "ok"
             /\ Goto(c, "promote")
             /\ UNCHANGED <<tried, replayed, slot, attempt, result, ledger>>
          \/ outcome # "ok" /\ Return(c, outcome)
  /\ UNCHANGED <<left, primary, cursor, call, replay_on, scan>>

\* promote_primary_if_needed: the primary is read ...
Promote(c) ==
  /\ pc[c] = "promote"
  /\ IF primary = slot[c]
     THEN Goto(c, "hand") /\ UNCHANGED seen
     ELSE Goto(c, "judge") /\ seen' = [seen EXCEPT ![c] = primary]
  /\ UNCHANGED <<pool, request, start, offset, waiting, wake, slot, attempt, result, ledger>>

\* ... the key that was read is judged by its cooldown ...
Judge(c) ==
  /\ pc[c] = "judge"
  /\ IF InCooldown(seen[c])
     THEN Goto(c, "move") /\ UNCHANGED seen
     ELSE Goto(c, "hand") /\ seen' = [seen EXCEPT ![c] = 0]
  /\ UNCHANGED <<pool, request, start, offset, waiting, wake, slot, attempt, result, ledger>>

\* ... and the primary stored, whatever it has become since.
Move(c) ==
  /\ pc[c] = "move"
  /\ Goto(c, "hand")
  /\ primary' = slot[c]
  /\ seen' = [seen EXCEPT ![c] = 0]
  /\ UNCHANGED <<ready, left, cursor, proved, request, start, offset, waiting, wake, slot,
                 attempt, result, ledger>>

\* The key is handed out, unless it has only just logged in and its bucket refuses.
HandOut(c) ==
  /\ pc[c] = "hand"
  /\ \/ Enter(c, slot[c])
     \/ /\ held[c] = NoKey
        /\ Goto(c, "wait")
        /\ slot' = [slot EXCEPT ![c] = 0]
        /\ UNCHANGED <<call, tried, replayed, attempt, result, ledger>>
  /\ UNCHANGED <<pool, replay_on, scan>>
-----------------------------------------------------------------------------
(* request_on_slot and make_http_request_paced.                            *)

\* The match of request_internal on the result of request_on_slot.  A key that
\* refused is parked, and left when another one is to be had; a session IG rejects
\* is refreshed once; any other result is the caller's.
Settle(c, outcome) ==
  \/ /\ outcome = "key"
     /\ MarkExhausted(slot[c])
     /\ \/ /\ Rotates(c)
           /\ Goto(c, "loop")
           /\ refused' = [refused EXCEPT ![c] = @ \cup {slot[c]}]
           /\ slot' = [slot EXCEPT ![c] = 0]
           /\ held' = [held EXCEPT ![c] = NoKey]
           /\ UNCHANGED <<tried, replayed, attempt, result, charged, sends>>
        \/ ~Rotates(c) /\ Return(c, "key")
  \/ /\ outcome = "auth"
     /\ MayReplay(c)
     /\ Goto(c, "refresh")
     /\ UNCHANGED <<left, tried, replayed, slot, attempt, result, ledger>>
  \/ /\ outcome # "key"
     /\ outcome = "auth" => ~MayReplay(c)
     /\ Return(c, outcome)
     /\ UNCHANGED left

\* The pinned replay pays its own token.
Replay(c) ==
  /\ pc[c] = "loop"
  /\ replay_on[c] # NoKey
  /\ Enter(c, replay_on[c])
  /\ replay_on' = [replay_on EXCEPT ![c] = NoKey]
  /\ UNCHANGED <<pool, scan>>

\* The session is resolved before the send; a login it needs may fail.
OnSlot(c) ==
  /\ pc[c] = "on_slot"
  /\ \E outcome \in LoginOutcomesOf(slot[c]) :
       /\ Installs(slot[c], outcome)
       /\ \/ /\ outcome = "ok"
             /\ Goto(c, "charge")
             /\ UNCHANGED <<left, tried, replayed, slot, attempt, result, ledger>>
          \/ outcome # "ok" /\ Settle(c, outcome)
  /\ UNCHANGED <<primary, cursor, call, replay_on, scan>>

\* Pacing::charge_account: trading does not draw on the account bucket.
Charge(c) ==
  /\ pc[c] = "charge"
  /\ Goto(c, "send")
  /\ charged' = [charged EXCEPT ![c] = Class(call[c]) # "Trading"]
  /\ UNCHANGED <<pool, request, scan, slot, attempt, result, held, sends, refused>>

\* The physical send uses the tokens up.
Send(c) ==
  /\ pc[c] = "send"
  /\ Goto(c, "answer")
  /\ sends' = [sends EXCEPT ![c] = @ + 1]
  /\ held' = [held EXCEPT ![c] = NoKey]
  /\ charged' = [charged EXCEPT ![c] = FALSE]
  /\ UNCHANGED <<pool, request, scan, slot, attempt, result, refused>>

\* IG answers, or the transport fails.  A transient failure is retried on the same
\* key while the budget lasts.
Answer(c) ==
  /\ pc[c] = "answer"
  /\ \E answer \in Answers :
       \/ /\ answer = "transient"
          /\ attempt[c] < Retries(c)
          /\ attempt' = [attempt EXCEPT ![c] = @ + 1]
          /\ Goto(c, "retry")
          /\ UNCHANGED <<left, tried, replayed, slot, result, ledger>>
       \/ /\ answer = "transient" => attempt[c] >= Retries(c)
          /\ Settle(c, answer)
  /\ UNCHANGED <<ready, primary, cursor, proved, call, replay_on, scan>>

\* Mutant: the reserved flag also covers the retries, which then pay nothing.
RetryUnpaid(c) ==
  /\ pc[c] = "retry"
  /\ Goto(c, "charge")
  /\ UNCHANGED <<pool, request, scan, slot, attempt, result, ledger>>

\* After its backoff a retry waits for a key token of its own.
Retry(c) ==
  /\ pc[c] = "retry"
  /\ Goto(c, "charge")
  /\ held' = [held EXCEPT ![c] = slot[c]]
  /\ UNCHANGED <<pool, request, scan, slot, attempt, result, charged, sends, refused>>

\* Mutant: the replay re-enters the selector instead of the refreshed slot.
RefreshUnpinned(c) ==
  /\ pc[c] = "refresh"
  /\ \E outcome \in LoginOutcomes :
       /\ Installs(slot[c], outcome)
       /\ \/ /\ outcome = "ok"
             /\ Goto(c, "loop")
             /\ replayed' = [replayed EXCEPT ![c] = TRUE]
             /\ UNCHANGED <<tried, slot, attempt, result, ledger>>
          \/ outcome # "ok" /\ Return(c, outcome)
  /\ UNCHANGED <<left, primary, cursor, call, replay_on, scan>>

\* force_refresh is a login on the slot whose session IG rejected.
Refresh(c) ==
  /\ pc[c] = "refresh"
  /\ \E outcome \in LoginOutcomes :
       /\ Installs(slot[c], outcome)
       /\ \/ /\ outcome = "ok"
             /\ Goto(c, "loop")
             /\ replayed' = [replayed EXCEPT ![c] = TRUE]
             /\ replay_on' = [replay_on EXCEPT ![c] = slot[c]]
             /\ UNCHANGED <<tried, slot, attempt, result, ledger>>
          \/ outcome # "ok" /\ Return(c, outcome) /\ UNCHANGED replay_on
  /\ UNCHANGED <<left, primary, cursor, call, scan>>
-----------------------------------------------------------------------------
(* The environment.                                                        *)

Minus1(n) == IF n > 0 THEN n - 1 ELSE 0

\* Time passes: cooldowns and sleeps run down.
Tick ==
  /\ \/ \E k \in Keys : left[k] > 0
     \/ \E c \in Callers : wake[c] > 0
  /\ left' = [k \in Keys |-> Minus1(left[k])]
  /\ wake' = [c \in Callers |-> Minus1(wake[c])]
  /\ UNCHANGED <<ready, primary, cursor, proved, pc, request, start, offset, waiting, seen,
                 slot, attempt, result, ledger>>

\* A session enters its refresh margin, or is logged out.
Lapse(k) ==
  /\ ready[k]
  /\ ready' = [ready EXCEPT ![k] = FALSE]
  /\ UNCHANGED <<left, primary, cursor, proved, pc, request, scan, slot, attempt, result,
                 ledger>>

\* get_session or ws_info on the client itself logs the primary in.
LoginPrimary ==
  /\ ~ready[primary]
  /\ Installs(primary, "ok")
  /\ UNCHANGED <<left, primary, cursor, pc, request, scan, slot, attempt, result, ledger>>

Step(c) ==
  \/ SelectPrimary(c) \/ ReservePrimary(c) \/ PrimarySession(c)
  \/ SelectSlot(c) \/ Pass1(c) \/ Pass2(c) \/ Login(c)
  \/ Wait(c) \/ Wake(c) \/ Race(c) \/ Won(c)
  \/ Promote(c) \/ Judge(c) \/ Move(c) \/ HandOut(c)
  \/ Replay(c) \/ OnSlot(c) \/ Charge(c) \/ Send(c) \/ Answer(c) \/ Retry(c) \/ Refresh(c)

Next ==
  \/ \E c \in Callers : Begin(c) \/ Step(c)
  \/ Tick
  \/ \E k \in Keys : Lapse(k)
  \/ LoginPrimary

Spec == Init /\ [][Next]_vars

\* A task that can run is polled again, timers fire, and every wait on a bucket ends
\* because the bucket refills.  IG answers, or the connection breaks: the code itself
\* bounds no network call.
Fairness == WF_vars(Tick) /\ \A c \in Callers : WF_vars(Step(c))

FairSpec == Spec /\ Fairness
-----------------------------------------------------------------------------
(* Properties.                                                             *)

\* Every variable has its type; a scan never looks past the end of the pool.
TypeOK ==
  /\ ready \in [Keys -> BOOLEAN]
  /\ left \in [Keys -> 0 .. Cooldown]
  /\ primary \in Keys
  /\ cursor \in Keys
  /\ pc \in [Callers -> Labels]
  /\ call \in [Callers -> Calls]
  /\ tried \in [Callers -> SUBSET Keys]
  /\ replayed \in [Callers -> BOOLEAN]
  /\ replay_on \in [Callers -> Keys \cup {NoKey}]
  /\ start \in [Callers -> Keys]
  /\ offset \in [Callers -> 0 .. N]
  /\ waiting \in [Callers -> SUBSET Keys]
  /\ wake \in [Callers -> 0 .. Cooldown]
  /\ seen \in [Callers -> Keys]
  /\ slot \in [Callers -> Keys]
  /\ attempt \in [Callers -> 0 .. MaxRetries]
  /\ result \in [Callers -> LoginOutcomes \cup Answers \cup {"none"}]
  /\ proved \subseteq Keys
  /\ held \in [Callers -> Keys \cup {NoKey}]
  /\ charged \in [Callers -> BOOLEAN]
  /\ sends \in [Callers -> Nat]
  /\ refused \in [Callers -> SUBSET Keys]

\* An order, an escaped mutation or a request made single-attempt goes on the
\* wire once at most, whatever IG answers: neither the retry loop, nor rotation,
\* nor the replay after a 401 sends it again.
SentOnce(r) ==
  \/ r.mutation /\ r.route = "otc"
  \/ r.mutation /\ r.escaped
  \/ r.asked = "SingleAttempt"

SingleAttemptSentOnce ==
  \A c \in Callers : SentOnce(call[c]) => sends[c] <= 1

\* The three repetitions of a standard request - retries, rotation, replay -
\* nest without multiplying: one send per key that is left behind, and on the last
\* key a first try and a replay, each with its own retries.
Budget(r) ==
  CASE Policy(r) = "SingleAttempt" -> 1
    [] MayRotate(r)                -> (N - 1) + 2 * (MaxRetries + 1)
    [] OTHER                       -> 2 * (MaxRetries + 1)

SendsWithinBudget == \A c \in Callers : sends[c] <= Budget(call[c])

\* The pipeline implements the contract of a request: on the wire only between the
\* call and its answer, and within the budget of its kind.
Contract == INSTANCE RequestContract WITH
  Limits <- {Budget(r) : r \in Calls},
  open <- [c \in Callers |-> pc[c] # "idle"],
  allowed <- [c \in Callers |-> Budget(call[c])],
  sent <- sends

ImplementsContract == Contract!Spec

\* Every physical send, a retry and a replay included, has taken a token of the
\* bucket of the key it goes out on, and one of the account unless it is an order.
EverySendPaid ==
  \A c \in Callers : pc[c] = "send" =>
    /\ held[c] = slot[c]
    /\ charged[c] = (Class(call[c]) # "Trading")

\* A request is never sent on a key that has refused it for its allowance, not
\* even when every other key is parked and the pool waits on all candidates.
NotSentOnRefusedKey ==
  \A c \in Callers : pc[c] = "send" => slot[c] \notin refused[c]

\* A key is left behind only because it refused the request: an account
\* allowance, a transient failure or a rejected session never burn another key.
LeavesOnlyRefusedKeys ==
  \A c \in Callers : tried[c] \ {slot[c]} \subseteq refused[c]

\* A request that goes back to the selector finds a slot to select: the error
\* return of request_internal for a pool out of candidates is never taken.
CandidateLeft ==
  \A c \in Callers : pc[c] = "loop" /\ replay_on[c] = NoKey => Candidates(c) # {}

\* The doc of HttpClient::auth: the primary, which trading and streaming follow, moves to
\* keys only that have logged in, whatever is refused and parked while it moves.
PrimaryAuthenticated == [][primary' # primary => primary' \in proved]_vars

\* A request that has begun returns: the loops of the selector, of the retries
\* and of request_internal all end, however IG answers and sessions lapse.
RequestReturns == \A c \in Callers : pc[c] # "idle" ~> pc[c] = "idle"

\* doc/RATE_LIMITER.md: HTTP 429 and 5xx responses use finite retries.  A standard
\* request that gives up on a transient failure has spent its retries.
TransientFailuresRetried ==
  [][\A c \in Callers :
       /\ pc[c] # "idle" /\ pc'[c] = "idle"
       /\ result'[c] = "transient"
       /\ Policy(call[c]) = "Standard"
       => attempt[c] = MaxRetries]_vars

\* The comment of reserve_slot: when every key is parked the pool waits out the
\* shortest cooldown and honours it.  It then waits on no key still parked.
CooldownHonoured ==
  [][\A c \in Callers :
       pc[c] = "asleep" /\ pc'[c] = "race" =>
         \A k \in waiting'[c] : ~InCooldown(k)]_vars

=============================================================================
