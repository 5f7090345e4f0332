------------------------- MODULE RequestPoolProofs -------------------------
(***************************************************************************)
(* What holds of RequestPool for every pool, every set of callers and      *)
(* every workload.                                                         *)
(***************************************************************************)
EXTENDS RequestPool, TLAPS, FiniteSetTheorems

-----------------------------------------------------------------------------
(* Typing.  The lemmas say what the shared pieces of the actions do to the *)
(* types; the step lemma puts them together, one case per action.          *)

\* The first key, a full cooldown and the empty counters are in the ranges of the variables,
\* and the cursor modulo the pool's length is a key of it.
LEMMA KeyFacts ==
  /\ 0 \in Keys
  /\ Cooldown \in 0 .. Cooldown
  /\ 0 \in 0 .. Cooldown
  /\ 0 \in 0 .. MaxRetries
  /\ 0 \in 0 .. N
  /\ \A a \in Nat : a % N \in Keys
  BY PoolAssumption DEF Keys

\* The labels the actions go to are labels.
LEMMA LabelFacts ==
  /\ "idle" \in Labels /\ "loop" \in Labels /\ "primary" \in Labels
  /\ "primary_session" \in Labels /\ "pass1" \in Labels /\ "pass2" \in Labels
  /\ "login" \in Labels /\ "wait" \in Labels /\ "asleep" \in Labels
  /\ "race" \in Labels /\ "won" \in Labels /\ "promote" \in Labels
  /\ "judge" \in Labels /\ "move" \in Labels /\ "hand" \in Labels /\ "on_slot" \in Labels
  /\ "charge" \in Labels /\ "send" \in Labels /\ "answer" \in Labels
  /\ "retry" \in Labels /\ "refresh" \in Labels
  BY DEF Labels

\* Goto keeps the type of pc.
LEMMA GotoType ==
  ASSUME TypeOK, NEW c \in Callers, NEW label \in Labels, Goto(c, label)
  PROVE  pc' \in [Callers -> Labels]
  BY DEF Goto, TypeOK

\* A request that returns leaves every variable it resets with its type.
LEMMA ReturnType ==
  ASSUME TypeOK, NEW c \in Callers, NEW o \in LoginOutcomes \cup Answers, Return(c, o)
  PROVE  /\ pc' \in [Callers -> Labels]
         /\ result' \in [Callers -> LoginOutcomes \cup Answers \cup {"none"}]
         /\ tried' \in [Callers -> SUBSET Keys]
         /\ replayed' \in [Callers -> BOOLEAN]
         /\ slot' \in [Callers -> Keys]
         /\ attempt' \in [Callers -> 0 .. MaxRetries]
         /\ held' \in [Callers -> Keys \cup {NoKey}]
         /\ charged' \in [Callers -> BOOLEAN]
         /\ sends' \in [Callers -> Nat]
         /\ refused' \in [Callers -> SUBSET Keys]
  BY KeyFacts, LabelFacts, GotoType DEF Return, TypeOK

\* A request that is handed a key (request_on_slot) has a key for a slot.
LEMMA EnterType ==
  ASSUME TypeOK, NEW c \in Callers, NEW k \in Keys, Enter(c, k)
  PROVE  /\ pc' \in [Callers -> Labels]
         /\ slot' \in [Callers -> Keys]
         /\ held' \in [Callers -> Keys \cup {NoKey}]
         /\ tried' \in [Callers -> SUBSET Keys]
         /\ attempt' \in [Callers -> 0 .. MaxRetries]
         /\ call' = call /\ replayed' = replayed /\ result' = result
         /\ charged' = charged /\ sends' = sends /\ refused' = refused
  BY KeyFacts, LabelFacts, GotoType DEF Enter, TypeOK

\* A pass over the pool that ends resets the scan of reserve_slot.
LEMMA EndScanType ==
  ASSUME TypeOK, NEW c \in Callers, EndScan(c)
  PROVE  /\ start' \in [Callers -> Keys]
         /\ offset' \in [Callers -> 0 .. N]
         /\ waiting' \in [Callers -> SUBSET Keys]
         /\ wake' \in [Callers -> 0 .. Cooldown]
         /\ seen' = seen
  BY KeyFacts DEF EndScan, TypeOK

\* A login installs a session or leaves the key as it is.
LEMMA InstallsType ==
  ASSUME TypeOK, NEW k \in Keys, NEW o, Installs(k, o)
  PROVE  ready' \in [Keys -> BOOLEAN] /\ proved' \subseteq Keys
  BY DEF Installs, TypeOK

\* A key that is parked is parked for a cooldown.
LEMMA MarkExhaustedType ==
  ASSUME TypeOK, NEW k \in Keys, MarkExhausted(k)
  PROVE  left' \in [Keys -> 0 .. Cooldown]
  BY KeyFacts DEF MarkExhausted, TypeOK

\* The cursor of a scan wraps: what it points at is a key of the pool.
LEMMA CandidateType ==
  ASSUME TypeOK, NEW c \in Callers
  PROVE  Candidate(c) \in Keys
  <1>1. start[c] + offset[c] \in Nat
    BY PoolAssumption DEF TypeOK, Keys
  <1>2. QED
    BY <1>1, KeyFacts DEF Candidate

\* The retry budget of a request is a number, whatever the policy.
LEMMA RetriesType ==
  \A c \in Callers : Retries(c) \in Nat /\ Retries(c) <= MaxRetries
  BY PoolAssumption DEF Retries

\* One more attempt is within the retries.
LEMMA AttemptType ==
  ASSUME TypeOK, NEW c \in Callers, attempt[c] < Retries(c)
  PROVE  attempt[c] + 1 \in 0 .. MaxRetries
  <1>1. attempt[c] \in 0 .. MaxRetries
    BY DEF TypeOK
  <1>2. QED
    BY <1>1, RetriesType, PoolAssumption

\* A key whose session is usable answers as some login would.
LEMMA LoginOutcomesType == \A k \in Keys : LoginOutcomesOf(k) \subseteq LoginOutcomes
  BY DEF LoginOutcomesOf, LoginOutcomes

\* The match on a send's result, in request_internal, keeps every type.
LEMMA SettleType ==
  ASSUME TypeOK, NEW c \in Callers, NEW o \in LoginOutcomes \cup Answers, Settle(c, o)
  PROVE  /\ pc' \in [Callers -> Labels]
         /\ left' \in [Keys -> 0 .. Cooldown]
         /\ result' \in [Callers -> LoginOutcomes \cup Answers \cup {"none"}]
         /\ tried' \in [Callers -> SUBSET Keys]
         /\ replayed' \in [Callers -> BOOLEAN]
         /\ slot' \in [Callers -> Keys]
         /\ attempt' \in [Callers -> 0 .. MaxRetries]
         /\ held' \in [Callers -> Keys \cup {NoKey}]
         /\ charged' \in [Callers -> BOOLEAN]
         /\ sends' \in [Callers -> Nat]
         /\ refused' \in [Callers -> SUBSET Keys]
  <1>1. slot[c] \in Keys
    BY DEF TypeOK
  <1>2. CASE o = "key" /\ MarkExhausted(slot[c]) /\ ~Rotates(c) /\ Return(c, o)
    BY <1>1, <1>2, ReturnType, MarkExhaustedType
  <1>3. CASE o = "key" /\ Rotates(c) /\ Goto(c, "loop")
             /\ MarkExhausted(slot[c])
             /\ refused' = [refused EXCEPT ![c] = @ \cup {slot[c]}]
             /\ slot' = [slot EXCEPT ![c] = 0]
             /\ held' = [held EXCEPT ![c] = NoKey]
             /\ UNCHANGED <<tried, replayed, attempt, result, charged, sends>>
    BY <1>1, <1>3, MarkExhaustedType, GotoType, LabelFacts, KeyFacts DEF TypeOK
  <1>4. CASE Goto(c, "refresh")
             /\ UNCHANGED <<left, tried, replayed, slot, attempt, result, ledger>>
    BY <1>4, GotoType, LabelFacts DEF TypeOK, ledger
  <1>5. CASE Return(c, o) /\ UNCHANGED left
    BY <1>5, ReturnType DEF TypeOK
  <1>6. QED
    BY <1>2, <1>3, <1>4, <1>5 DEF Settle

\* A client that has just been built has the types.
LEMMA InitTypeOK == Init => TypeOK
  <1> SUFFICES ASSUME Init PROVE TypeOK
    OBVIOUS
  <1>1. [c \in Callers |-> CHOOSE r \in Workload[c] : TRUE] \in [Callers -> Calls]
    BY PoolAssumption
  <1>2. QED
    BY <1>1, KeyFacts, LabelFacts DEF Init, TypeOK

\* A login is that of a candidate: the scan of pass 2 has not ended.
LoginInScan == \A c \in Callers : pc[c] = "login" => offset[c] < N

\* Every step of a caller keeps the types.
LEMMA StepTypeOK ==
  ASSUME TypeOK, LoginInScan, NEW c \in Callers, Begin(c) \/ Step(c)
  PROVE  TypeOK'
  <1> USE KeyFacts, LabelFacts, GotoType DEF TypeOK, pool, request, scan, ledger
  <1>0. slot[c] \in Keys
    OBVIOUS
  <1>1. CASE Begin(c)
    <2>1. call' \in [Callers -> Calls]
      <3>1. Workload[c] \subseteq Calls
        BY PoolAssumption
      <3>2. PICK r \in Workload[c] : call' = [call EXCEPT ![c] = r]
        BY <1>1 DEF Begin
      <3>3. QED
        BY <3>1, <3>2
    <2>2. result' \in [Callers -> LoginOutcomes \cup Answers \cup {"none"}]
      BY <1>1 DEF Begin
    <2>3. Goto(c, "loop") /\ UNCHANGED <<pool, tried, replayed, replay_on, scan, slot, attempt, ledger>>
      BY <1>1 DEF Begin
    <2>4. QED
      BY <2>1, <2>2, <2>3
  <1>2. CASE SelectPrimary(c)
    BY <1>2 DEF SelectPrimary
  <1>3. CASE ReservePrimary(c)
    BY <1>3 DEF ReservePrimary
  <1>4. CASE PrimarySession(c)
    <2>1. PICK o \in LoginOutcomes :
            /\ Installs(slot[c], o)
            /\ \/ Enter(c, slot[c])
               \/ Return(c, o) /\ UNCHANGED call
      BY <1>0, <1>4, LoginOutcomesType DEF PrimarySession
    <2>2. UNCHANGED <<left, primary, cursor, replay_on, scan>>
      BY <1>4 DEF PrimarySession
    <2>3. ready' \in [Keys -> BOOLEAN] /\ proved' \subseteq Keys
      BY <1>0, <2>1, InstallsType
    <2>4. CASE Enter(c, slot[c])
      BY <1>0, <2>2, <2>3, <2>4, EnterType
    <2>5. CASE Return(c, o) /\ UNCHANGED call
      BY <2>2, <2>3, <2>5, ReturnType
    <2>6. QED
      BY <2>1, <2>4, <2>5
  <1>5. CASE SelectSlot(c)
    <2>1. cursor' \in Keys
      <3>1. cursor + 1 \in Nat
        BY PoolAssumption DEF Keys
      <3>2. QED
        BY <1>5, <3>1 DEF SelectSlot, NextCursor
    <2>2. QED
      BY <1>5, <2>1 DEF SelectSlot
  <1>6. CASE Pass1(c)
    <2>1. CASE EndPass(c, "pass2")
      BY <2>1 DEF EndPass
    <2>2. CASE offset[c] < N /\ NextCandidate(c)
               /\ UNCHANGED <<pool, pc, request, start, waiting, wake, seen, slot, attempt,
                              result, ledger>>
      <3>1. offset[c] + 1 \in 0 .. N
        BY <2>2, PoolAssumption
      <3>2. QED
        BY <2>2, <3>1 DEF NextCandidate
    <2>3. CASE /\ Goto(c, "promote") /\ EndScan(c)
               /\ slot' = [slot EXCEPT ![c] = Candidate(c)]
               /\ held' = [held EXCEPT ![c] = Candidate(c)]
               /\ UNCHANGED <<pool, request, attempt, result, charged, sends, refused>>
      BY <2>3, EndScanType, CandidateType
    <2>4. QED
      BY <1>6, <2>1, <2>2, <2>3 DEF Pass1
  <1>7. CASE Pass2(c)
    <2>1. CASE EndPass(c, "wait")
      BY <2>1 DEF EndPass
    <2>2. CASE Goto(c, "login") /\ UNCHANGED offset
               /\ UNCHANGED <<pool, request, start, waiting, wake, seen, slot, attempt, result,
                              ledger>>
      BY <2>2
    <2>3. CASE offset[c] < N /\ NextCandidate(c)
               /\ UNCHANGED <<pool, pc, request, start, waiting, wake, seen, slot, attempt,
                              result, ledger>>
      <3>1. offset[c] + 1 \in 0 .. N
        BY <2>3, PoolAssumption
      <3>2. QED
        BY <2>3, <3>1 DEF NextCandidate
    <2>4. QED
      BY <1>7, <2>1, <2>2, <2>3 DEF Pass2
  <1>8. CASE Login(c)
    <2>. DEFINE k == Candidate(c)
    <2>1. k \in Keys
      BY CandidateType
    <2>. HIDE DEF k
    <2>2. PICK o \in LoginOutcomesOf(k) :
            /\ pc[c] = "login"
            /\ Installs(k, o)
            /\ \/ /\ Goto(c, "promote") /\ EndScan(c)
                  /\ slot' = [slot EXCEPT ![c] = k]
                  /\ held' = [held EXCEPT ![c] = NoKey]
                  /\ UNCHANGED <<left, tried, replayed, attempt, result, charged, sends,
                                 refused>>
               \/ /\ MarkExhausted(k) /\ Goto(c, "pass2")
                  /\ NextCandidate(c)
                  /\ UNCHANGED <<tried, replayed, start, waiting, wake, seen, slot, attempt,
                                 result, ledger>>
               \/ Return(c, o) /\ EndScan(c) /\ UNCHANGED left
      BY <1>8 DEF Login, k
    <2>3. UNCHANGED <<primary, cursor, call, replay_on>>
      BY <1>8 DEF Login
    <2>4. o \in LoginOutcomes /\ ready' \in [Keys -> BOOLEAN] /\ proved' \subseteq Keys
      BY <2>1, <2>2, LoginOutcomesType, InstallsType
    <2>5. CASE /\ Goto(c, "promote") /\ EndScan(c)
               /\ slot' = [slot EXCEPT ![c] = k]
               /\ held' = [held EXCEPT ![c] = NoKey]
               /\ UNCHANGED <<left, tried, replayed, attempt, result, charged, sends, refused>>
      BY <2>1, <2>3, <2>4, <2>5, EndScanType
    <2>6. CASE /\ MarkExhausted(k) /\ Goto(c, "pass2")
               /\ NextCandidate(c)
               /\ UNCHANGED <<tried, replayed, start, waiting, wake, seen, slot, attempt,
                              result, ledger>>
      <3>1. left' \in [Keys -> 0 .. Cooldown]
        BY <2>1, <2>6, MarkExhaustedType
      <3>2. offset[c] + 1 \in 0 .. N
        BY <2>2, PoolAssumption DEF LoginInScan
      <3>3. QED
        BY <2>3, <2>4, <2>6, <3>1, <3>2 DEF NextCandidate
    <2>7. CASE Return(c, o) /\ EndScan(c) /\ UNCHANGED left
      BY <2>3, <2>4, <2>7, ReturnType, EndScanType
    <2>8. QED
      BY <2>2, <2>5, <2>6, <2>7
  <1>9. CASE Wait(c)
    <2>1. CASE /\ Goto(c, "race")
               /\ \E keys \in SUBSET Candidates(c) :
                    waiting' = [waiting EXCEPT ![c] = PreferReady(keys)]
               /\ UNCHANGED <<wake, pool, request, start, offset, seen, slot, attempt, result,
                              ledger>>
      BY <2>1 DEF PreferReady, Candidates
    <2>2. CASE /\ Goto(c, "asleep")
               /\ \E k \in Candidates(c) : wake' = [wake EXCEPT ![c] = left[k]]
               /\ UNCHANGED <<waiting, pool, request, start, offset, seen, slot, attempt,
                              result, ledger>>
      BY <2>2 DEF Candidates
    <2>3. QED
      BY <1>9, <2>1, <2>2 DEF Wait
  <1>10. CASE Wake(c)
    <2>1. PreferReady(Candidates(c)) \subseteq Keys
      BY DEF PreferReady, Candidates
    <2>2. QED
      BY <1>10, <2>1 DEF Wake
  <1>11. CASE Race(c)
    BY <1>11, EndScanType DEF Race
  <1>12. CASE Won(c)
    <2>1. PICK o \in LoginOutcomes :
            /\ Installs(slot[c], o)
            /\ \/ /\ Goto(c, "promote")
                  /\ UNCHANGED <<tried, replayed, slot, attempt, result, ledger>>
               \/ Return(c, o)
      BY <1>0, <1>12, LoginOutcomesType DEF Won
    <2>2. UNCHANGED <<left, primary, cursor, call, replay_on, scan>>
      BY <1>12 DEF Won
    <2>3. ready' \in [Keys -> BOOLEAN] /\ proved' \subseteq Keys
      BY <1>0, <2>1, InstallsType
    <2>4. CASE /\ Goto(c, "promote")
               /\ UNCHANGED <<tried, replayed, slot, attempt, result, ledger>>
      BY <2>2, <2>3, <2>4
    <2>5. CASE Return(c, o)
      BY <2>2, <2>3, <2>5, ReturnType
    <2>6. QED
      BY <2>1, <2>4, <2>5
  <1>13. CASE Replay(c)
    <2>1. replay_on[c] \in Keys
      BY <1>13 DEF Replay
    <2>2. QED
      BY <1>13, <2>1, EnterType DEF Replay
  <1>14. CASE OnSlot(c)
    <2>1. PICK o \in LoginOutcomes :
            /\ Installs(slot[c], o)
            /\ \/ /\ Goto(c, "charge")
                  /\ UNCHANGED <<left, tried, replayed, slot, attempt, result, ledger>>
               \/ Settle(c, o)
      BY <1>0, <1>14, LoginOutcomesType DEF OnSlot
    <2>2. UNCHANGED <<primary, cursor, call, replay_on, scan>>
      BY <1>14 DEF OnSlot
    <2>3. ready' \in [Keys -> BOOLEAN] /\ proved' \subseteq Keys
      BY <1>0, <2>1, InstallsType
    <2>4. CASE /\ Goto(c, "charge")
               /\ UNCHANGED <<left, tried, replayed, slot, attempt, result, ledger>>
      BY <2>2, <2>3, <2>4
    <2>5. CASE Settle(c, o)
      BY <2>2, <2>3, <2>5, SettleType
    <2>6. QED
      BY <2>1, <2>4, <2>5
  <1>15. CASE Charge(c)
    BY <1>15 DEF Charge
  <1>16. CASE Send(c)
    BY <1>16 DEF Send
  <1>17. CASE Answer(c)
    <2>1. UNCHANGED <<ready, primary, cursor, proved, call, replay_on, scan>>
      BY <1>17 DEF Answer
    <2>2. CASE /\ attempt[c] < Retries(c)
               /\ attempt' = [attempt EXCEPT ![c] = @ + 1]
               /\ Goto(c, "retry")
               /\ UNCHANGED <<left, tried, replayed, slot, result, ledger>>
      <3>1. attempt[c] + 1 \in 0 .. MaxRetries
        BY <2>2, AttemptType
      <3>2. QED
        BY <2>1, <2>2, <3>1
    <2>3. CASE \E answer \in Answers : Settle(c, answer)
      BY <2>1, <2>3, SettleType
    <2>4. QED
      BY <1>17, <2>2, <2>3 DEF Answer
  <1>18. CASE Retry(c)
    BY <1>18 DEF Retry
  <1>19. CASE Refresh(c)
    <2>1. PICK o \in LoginOutcomes :
            /\ Installs(slot[c], o)
            /\ \/ /\ Goto(c, "loop")
                  /\ replayed' = [replayed EXCEPT ![c] = TRUE]
                  /\ replay_on' = [replay_on EXCEPT ![c] = slot[c]]
                  /\ UNCHANGED <<tried, slot, attempt, result, ledger>>
               \/ Return(c, o) /\ UNCHANGED replay_on
      BY <1>19 DEF Refresh
    <2>2. UNCHANGED <<left, primary, cursor, call, scan>>
      BY <1>19 DEF Refresh
    <2>3. ready' \in [Keys -> BOOLEAN] /\ proved' \subseteq Keys
      BY <1>0, <2>1, InstallsType
    <2>4. CASE /\ Goto(c, "loop")
               /\ replayed' = [replayed EXCEPT ![c] = TRUE]
               /\ replay_on' = [replay_on EXCEPT ![c] = slot[c]]
               /\ UNCHANGED <<tried, slot, attempt, result, ledger>>
      BY <1>0, <2>2, <2>3, <2>4
    <2>5. CASE Return(c, o) /\ UNCHANGED replay_on
      BY <2>2, <2>3, <2>5, ReturnType
    <2>6. QED
      BY <2>1, <2>4, <2>5
  <1>20. CASE Promote(c) \/ Judge(c) \/ Move(c)
    BY <1>0, <1>20 DEF Promote, Judge, Move
  <1>21. CASE HandOut(c)
    <2>1. UNCHANGED <<pool, replay_on, scan>>
      BY <1>21 DEF HandOut
    <2>2. CASE Enter(c, slot[c])
      BY <1>0, <2>1, <2>2, EnterType
    <2>3. CASE /\ Goto(c, "wait")
               /\ slot' = [slot EXCEPT ![c] = 0]
               /\ UNCHANGED <<call, tried, replayed, attempt, result, ledger>>
      BY <2>1, <2>3
    <2>4. QED
      BY <1>21, <2>2, <2>3 DEF HandOut
  <1>22. QED
    BY <1>1, <1>2, <1>3, <1>4, <1>5, <1>6, <1>7, <1>8, <1>9, <1>10, <1>11, <1>12, <1>13,
       <1>14, <1>15, <1>16, <1>17, <1>18, <1>19, <1>20, <1>21 DEF Step

-----------------------------------------------------------------------------
(* The inductive invariant of a request.  Each part relates the locals of  *)
(* one caller to the place its request has reached.                        *)

\* The request is in the selector, or on its way into it.
Selecting(c) ==
  \/ pc[c] = "loop" /\ replay_on[c] = NoKey
  \/ pc[c] \in {"primary", "primary_session", "pass1", "pass2", "login", "wait",
                "asleep", "race", "won", "promote", "judge", "move", "hand"}

\* The request is on a key, or pinned to it for its replay.
OnKey(c) ==
  \/ pc[c] = "loop" /\ replay_on[c] # NoKey
  \/ pc[c] \in {"on_slot", "charge", "send", "answer", "retry", "refresh"}

IdleInv(c) ==
  pc[c] = "idle" => sends[c] = 0 /\ tried[c] = {} /\ ~replayed[c] /\ refused[c] = {}

PinInv(c) ==
  /\ replay_on[c] # NoKey => pc[c] = "loop" /\ replayed[c] /\ replay_on[c] = slot[c]
  /\ pc[c] = "refresh" => ~replayed[c]

\* In the selector the keys tried are those that refused, and one is left; a
\* request that may not rotate has not been anywhere.
SelectInv(c) ==
  Selecting(c) =>
    /\ refused[c] = tried[c]
    /\ tried[c] # Keys
    /\ ~MayRotate(call[c]) => tried[c] = {} /\ sends[c] = 0 /\ ~replayed[c]

\* What the selector is about to hand out is a candidate.
CandidateInv(c) ==
  /\ pc[c] \in {"primary", "primary_session"} => ~MayRotate(call[c])
  /\ pc[c] = "login" => Candidate(c) \notin tried[c]
  /\ pc[c] = "race" => waiting[c] \cap tried[c] = {}
  /\ pc[c] \in {"won", "promote", "judge", "move", "hand"} => slot[c] \notin tried[c]

KeyInv(c) ==
  OnKey(c) =>
    /\ slot[c] \in tried[c]
    /\ refused[c] = tried[c] \ {slot[c]}
    /\ ~MayRotate(call[c]) => tried[c] = {slot[c]}
    /\ attempt[c] <= Retries(c)

SingleInv(c) ==
  Policy(call[c]) = "SingleAttempt" => ~replayed[c] /\ pc[c] # "refresh"

PaidInv(c) ==
  /\ pc[c] \in {"on_slot", "charge", "send"} => held[c] = slot[c]
  /\ pc[c] = "send" => charged[c] = (Class(call[c]) # "Trading")

\* The sends of the attempts on the current key, after its replay if there was one.
InProgress(c) ==
  IF pc[c] = "loop" THEN 0
  ELSE attempt[c] + (IF pc[c] \in {"answer", "refresh"} THEN 1 ELSE 0)

\* One send for each key left behind, and one more for a replay.
CountInv(c) ==
  /\ Selecting(c) =>
       sends[c] <= Cardinality(tried[c]) + (IF replayed[c] THEN 1 ELSE 0)
  /\ OnKey(c) =>
       sends[c] + 1 <= Cardinality(tried[c]) + InProgress(c)
                       + (IF replayed[c] THEN Retries(c) + 1 ELSE 0)

CallerInv(c) ==
  /\ IdleInv(c) /\ PinInv(c) /\ SelectInv(c) /\ CandidateInv(c) /\ KeyInv(c)
  /\ SingleInv(c) /\ PaidInv(c) /\ CountInv(c)

RequestInv == TypeOK /\ LoginInScan /\ \A c \in Callers : CallerInv(c)

-----------------------------------------------------------------------------
(* A step of one caller leaves the locals of the others alone.             *)

Untouched(d) ==
  /\ pc'[d] = pc[d] /\ call'[d] = call[d] /\ tried'[d] = tried[d]
  /\ replayed'[d] = replayed[d] /\ replay_on'[d] = replay_on[d]
  /\ start'[d] = start[d] /\ offset'[d] = offset[d] /\ waiting'[d] = waiting[d]
  /\ slot'[d] = slot[d] /\ attempt'[d] = attempt[d] /\ held'[d] = held[d]
  /\ charged'[d] = charged[d] /\ sends'[d] = sends[d] /\ refused'[d] = refused[d]

\* A step of one caller leaves the local variables of the others alone.
LEMMA StepIsLocal ==
  ASSUME TypeOK, NEW c \in Callers, Begin(c) \/ Step(c), NEW d \in Callers, d # c
  PROVE  Untouched(d)
  <1> USE DEF TypeOK, pool, request, scan, ledger, Goto, Untouched
  <1>1. CASE Begin(c)
    BY <1>1 DEF Begin
  <1>2. CASE SelectPrimary(c)
    BY <1>2 DEF SelectPrimary
  <1>3. CASE ReservePrimary(c)
    BY <1>3 DEF ReservePrimary
  <1>4. CASE PrimarySession(c)
    BY <1>4 DEF PrimarySession, Enter, Return
  <1>5. CASE SelectSlot(c)
    BY <1>5 DEF SelectSlot
  <1>6. CASE Pass1(c)
    BY <1>6 DEF Pass1, EndPass, NextCandidate, EndScan
  <1>7. CASE Pass2(c)
    BY <1>7 DEF Pass2, EndPass, NextCandidate
  <1>8. CASE Login(c)
    BY <1>8 DEF Login, EndScan, NextCandidate, Return
  <1>9. CASE Wait(c)
    BY <1>9 DEF Wait
  <1>10. CASE Wake(c)
    BY <1>10 DEF Wake
  <1>11. CASE Race(c)
    BY <1>11 DEF Race, EndScan
  <1>12. CASE Won(c)
    BY <1>12 DEF Won, Return
  <1>13. CASE Replay(c)
    BY <1>13 DEF Replay, Enter
  <1>14. CASE OnSlot(c)
    BY <1>14 DEF OnSlot, Settle, Return
  <1>15. CASE Charge(c)
    BY <1>15 DEF Charge
  <1>16. CASE Send(c)
    BY <1>16 DEF Send
  <1>17. CASE Answer(c)
    BY <1>17 DEF Answer, Settle, Return
  <1>18. CASE Retry(c)
    BY <1>18 DEF Retry
  <1>19. CASE Refresh(c)
    BY <1>19 DEF Refresh, Return
  <1>20. CASE Promote(c) \/ Judge(c) \/ Move(c) \/ HandOut(c)
    BY <1>20 DEF Promote, Judge, Move, HandOut, Enter
  <1>21. QED
    BY <1>1, <1>2, <1>3, <1>4, <1>5, <1>6, <1>7, <1>8, <1>9, <1>10, <1>11, <1>12, <1>13,
       <1>14, <1>15, <1>16, <1>17, <1>18, <1>19, <1>20 DEF Step

\* The invariant of a caller speaks of nothing another caller changes.
LEMMA UntouchedInv ==
  ASSUME NEW d \in Callers, CallerInv(d), Untouched(d)
  PROVE  CallerInv(d)'
  <1>1. IdleInv(d)' /\ PinInv(d)' /\ SingleInv(d)' /\ PaidInv(d)'
    BY DEF CallerInv, Untouched, IdleInv, PinInv, SingleInv, PaidInv, Policy, Class
  <1>2. Selecting(d)' = Selecting(d) /\ OnKey(d)' = OnKey(d)
    BY DEF Untouched, Selecting, OnKey
  <1>3. MayRotate(call[d])' = MayRotate(call[d])
    BY DEF Untouched, MayRotate, Policy, Class
  <1>4. Retries(d)' = Retries(d)
    BY <1>3 DEF Untouched, Retries, Rotates, Policy, Class
  <1>5. SelectInv(d)'
    BY <1>2, <1>3 DEF CallerInv, Untouched, SelectInv
  <1>6. CandidateInv(d)'
    BY <1>3 DEF CallerInv, Untouched, CandidateInv, Candidate
  <1>7. KeyInv(d)'
    BY <1>2, <1>3, <1>4 DEF CallerInv, Untouched, KeyInv
  <1>8. CountInv(d)'
    BY <1>2, <1>4 DEF CallerInv, Untouched, CountInv, InProgress
  <1>9. QED
    BY <1>1, <1>5, <1>6, <1>7, <1>8 DEF CallerInv

\* No step enters a login with the scan already at the end of the pool.
LEMMA LoginInScanStep ==
  ASSUME TypeOK, LoginInScan, NEW c \in Callers, Begin(c) \/ Step(c)
  PROVE  LoginInScan'
  <1> SUFFICES ASSUME NEW d \in Callers, pc'[d] = "login" PROVE offset'[d] < N
    BY DEF LoginInScan
  <1>1. CASE d # c
    BY <1>1, StepIsLocal DEF LoginInScan, Untouched
  <1>2. CASE d = c
    <2> USE <1>2 DEF TypeOK, Goto
    <2>1. CASE Pass2(c)
      BY <2>1 DEF Pass2, EndPass, NextCandidate
    <2>2. CASE Begin(c)
      BY <2>2 DEF Begin
    <2>3. CASE \/ SelectPrimary(c) \/ ReservePrimary(c) \/ PrimarySession(c)
               \/ SelectSlot(c) \/ Pass1(c)
      BY <2>3 DEF SelectPrimary, ReservePrimary, PrimarySession, SelectSlot, Pass1, EndPass,
                  Enter, Return
    <2>4. CASE Login(c) \/ Wait(c) \/ Wake(c) \/ Race(c) \/ Won(c)
      BY <2>4 DEF Login, Wait, Wake, Race, Won, Return
    <2>5. CASE Replay(c) \/ OnSlot(c) \/ Charge(c) \/ Send(c) \/ Answer(c) \/ Retry(c)
               \/ Refresh(c)
      BY <2>5 DEF Replay, OnSlot, Charge, Send, Answer, Retry, Refresh, Settle, Enter, Return
    <2>6. CASE Promote(c) \/ Judge(c) \/ Move(c) \/ HandOut(c)
      BY <2>6 DEF Promote, Judge, Move, HandOut, Enter
    <2>7. QED
      BY <2>1, <2>2, <2>3, <2>4, <2>5, <2>6 DEF Step
  <1>3. QED
    BY <1>1, <1>2

-----------------------------------------------------------------------------
(* What the shared pieces of the actions do to the invariant of the caller *)
(* that takes them.                                                        *)

\* How the set of keys left behind is counted, as rotation adds to it.
LEMMA TriedFacts ==
  /\ Cardinality({}) = 0
  /\ \A k : Cardinality({k}) = 1
  /\ \A t \in SUBSET Keys :
       /\ Cardinality(t) \in Nat
       /\ Cardinality(t) <= N
       /\ \A k \in Keys \ t : Cardinality(t \cup {k}) = Cardinality(t) + 1
  <1>1. IsFiniteSet(Keys) /\ Cardinality(Keys) = N
    <2>1. N \in Nat /\ N > 0
      BY PoolAssumption
    <2>2. 0 \in Int /\ N - 1 \in Int /\ ~(0 > N - 1) /\ (N - 1) - 0 + 1 = N
      BY <2>1
    <2>3. QED
      BY <2>2, FS_Interval DEF Keys
  <1>2. ASSUME NEW t \in SUBSET Keys
        PROVE  /\ Cardinality(t) \in Nat
               /\ Cardinality(t) <= N
               /\ \A k \in Keys \ t : Cardinality(t \cup {k}) = Cardinality(t) + 1
    <2>1. IsFiniteSet(t) /\ Cardinality(t) <= Cardinality(Keys)
      BY <1>1, FS_Subset
    <2>2. Cardinality(t) \in Nat
      BY <2>1, FS_CardinalityType
    <2>3. ASSUME NEW k \in Keys \ t
          PROVE  Cardinality(t \cup {k}) = Cardinality(t) + 1
      BY <2>1, <2>3, FS_AddElement
    <2>4. QED
      BY <1>1, <2>1, <2>2, <2>3
  <1>3. QED
    BY <1>2, FS_EmptySet, FS_Singleton

\* A request that returns leaves no trace.
LEMMA ReturnInv ==
  ASSUME TypeOK, NEW c \in Callers, NEW o, Return(c, o), replay_on'[c] = NoKey
  PROVE  CallerInv(c)'
  <1>1. /\ pc'[c] = "idle" /\ sends'[c] = 0 /\ tried'[c] = {} /\ ~replayed'[c]
        /\ refused'[c] = {}
    BY DEF Return, Goto, TypeOK
  <1>2. ~Selecting(c)' /\ ~OnKey(c)'
    BY <1>1 DEF Selecting, OnKey
  <1>3. QED
    BY <1>1, <1>2 DEF CallerInv, IdleInv, PinInv, SelectInv, CandidateInv, KeyInv, SingleInv,
                      PaidInv, CountInv

\* The selector hands out a key the request has not been to.
LEMMA EnterInv ==
  ASSUME TypeOK, NEW c \in Callers, CallerInv(c), Selecting(c),
         NEW k \in Keys, k \notin tried[c], Enter(c, k), replay_on'[c] = NoKey,
         TypeOK'
  PROVE  CallerInv(c)'
  <1>1. /\ pc'[c] = "on_slot" /\ slot'[c] = k /\ held'[c] = k
        /\ tried'[c] = tried[c] \cup {k} /\ attempt'[c] = 0
        /\ call'[c] = call[c] /\ replayed'[c] = replayed[c] /\ sends'[c] = sends[c]
        /\ refused'[c] = refused[c]
    BY DEF Enter, Goto, TypeOK
  <1>2. OnKey(c)' /\ ~Selecting(c)'
    BY <1>1 DEF OnKey, Selecting
  <1>3. MayRotate(call[c])' = MayRotate(call[c])
    BY <1>1 DEF MayRotate, Policy, Class
  <1>4. Retries(c)' \in Nat
    BY PoolAssumption DEF Retries
  <1>5. IdleInv(c)' /\ PinInv(c)' /\ CandidateInv(c)' /\ PaidInv(c)' /\ SelectInv(c)'
    BY <1>1, <1>2 DEF IdleInv, PinInv, CandidateInv, PaidInv, SelectInv
  <1>6. SingleInv(c)'
    BY <1>1 DEF CallerInv, SingleInv, Policy, Class
  <1>7. KeyInv(c)'
    <2>1. attempt'[c] <= Retries(c)'
      BY <1>1, <1>4
    <2>2. refused'[c] = tried'[c] \ {slot'[c]}
      BY <1>1 DEF CallerInv, SelectInv
    <2>3. ~MayRotate(call[c])' => tried'[c] = {slot'[c]}
      BY <1>1, <1>3 DEF CallerInv, SelectInv
    <2>4. QED
      BY <1>1, <2>1, <2>2, <2>3 DEF KeyInv
  <1>8. CountInv(c)'
    <2>1. /\ sends[c] \in Nat /\ Cardinality(tried[c]) \in Nat
          /\ Cardinality(tried'[c]) = Cardinality(tried[c]) + 1
      BY <1>1, TriedFacts DEF TypeOK
    <2>2. sends[c] <= Cardinality(tried[c]) + (IF replayed[c] THEN 1 ELSE 0)
      BY DEF CallerInv, CountInv
    <2>3. InProgress(c)' = 0
      BY <1>1 DEF InProgress
    <2>4. sends'[c] + 1 <= Cardinality(tried'[c]) + InProgress(c)'
                           + (IF replayed'[c] THEN Retries(c)' + 1 ELSE 0)
      BY <1>1, <1>4, <2>1, <2>2, <2>3
    <2>5. QED
      BY <1>2, <2>4 DEF CountInv
  <1>9. QED
    BY <1>5, <1>6, <1>7, <1>8 DEF CallerInv

\* The result of a request on its key is settled.
LEMMA SettleInv ==
  ASSUME TypeOK, NEW c \in Callers, CallerInv(c), pc[c] \in {"on_slot", "answer"},
         NEW o, Settle(c, o), call' = call, replay_on' = replay_on
  PROVE  CallerInv(c)'
  <1>1. replay_on[c] = NoKey /\ replay_on'[c] = NoKey /\ OnKey(c)
    BY DEF CallerInv, PinInv, OnKey
  <1>2. MayRotate(call[c])' = MayRotate(call[c]) /\ Policy(call[c])' = Policy(call[c])
    BY DEF MayRotate, Policy, Class
  <1>3. /\ slot[c] \in tried[c] /\ refused[c] = tried[c] \ {slot[c]}
        /\ ~MayRotate(call[c]) => tried[c] = {slot[c]}
        /\ attempt[c] <= Retries(c)
    BY <1>1 DEF CallerInv, KeyInv
  <1>4. /\ sends[c] \in Nat /\ attempt[c] \in Nat /\ Cardinality(tried[c]) \in Nat
        /\ Retries(c) \in Nat
    BY TriedFacts, RetriesType DEF TypeOK
  <1>5. sends[c] + 1 <= Cardinality(tried[c]) + InProgress(c)
                        + (IF replayed[c] THEN Retries(c) + 1 ELSE 0)
    BY <1>1 DEF CallerInv, CountInv
  <1>6. InProgress(c) = attempt[c] + (IF pc[c] = "answer" THEN 1 ELSE 0)
    BY DEF InProgress
  <1>7. CASE Return(c, o)
    BY <1>1, <1>7, ReturnInv
  <1>8. CASE /\ Rotates(c)
             /\ Goto(c, "loop")
             /\ refused' = [refused EXCEPT ![c] = @ \cup {slot[c]}]
             /\ UNCHANGED <<tried, replayed, attempt, result, charged, sends>>
    <2>1. /\ pc'[c] = "loop" /\ refused'[c] = tried[c]
          /\ tried'[c] = tried[c] /\ sends'[c] = sends[c] /\ replayed'[c] = replayed[c]
      BY <1>3, <1>8 DEF Goto, TypeOK
    <2>2. Selecting(c)' /\ ~OnKey(c)'
      BY <1>1, <2>1 DEF Selecting, OnKey
    <2>3. Retries(c) = 0 /\ MayRotate(call[c]) /\ tried[c] # Keys
      BY <1>8 DEF Retries, Rotates
    <2>4. IdleInv(c)' /\ PinInv(c)' /\ CandidateInv(c)' /\ PaidInv(c)' /\ KeyInv(c)'
      BY <1>1, <2>1, <2>2 DEF IdleInv, PinInv, CandidateInv, PaidInv, KeyInv
    <2>5. SelectInv(c)'
      BY <1>2, <2>1, <2>3 DEF SelectInv
    <2>6. SingleInv(c)'
      BY <1>2, <2>1 DEF CallerInv, SingleInv
    <2>7. CountInv(c)'
      <3>1. attempt[c] = 0
        BY <1>3, <1>4, <2>3
      <3>2. sends[c] <= Cardinality(tried[c]) + (IF replayed[c] THEN 1 ELSE 0)
        BY <1>4, <1>5, <1>6, <2>3, <3>1
      <3>3. QED
        BY <2>1, <2>2, <3>2 DEF CountInv
    <2>8. QED
      BY <2>4, <2>5, <2>6, <2>7 DEF CallerInv
  <1>9. CASE /\ MayReplay(c) /\ Goto(c, "refresh")
             /\ UNCHANGED <<left, tried, replayed, slot, attempt, result, ledger>>
    <2>1. /\ pc'[c] = "refresh" /\ refused'[c] = refused[c] /\ slot'[c] = slot[c]
          /\ tried'[c] = tried[c] /\ sends'[c] = sends[c] /\ replayed'[c] = replayed[c]
          /\ attempt'[c] = attempt[c]
      BY <1>9 DEF Goto, TypeOK, ledger
    <2>2. OnKey(c)' /\ ~Selecting(c)'
      BY <2>1 DEF OnKey, Selecting
    <2>3. Retries(c)' = Retries(c)
      BY <1>2, <2>1 DEF Retries, Rotates
    <2>4. ~replayed[c] /\ Policy(call[c]) # "SingleAttempt"
      BY <1>9 DEF MayReplay
    <2>5. /\ IdleInv(c)' /\ PinInv(c)' /\ CandidateInv(c)' /\ PaidInv(c)' /\ SelectInv(c)'
          /\ SingleInv(c)'
      BY <1>1, <1>2, <2>1, <2>2, <2>4
      DEF IdleInv, PinInv, CandidateInv, PaidInv, SelectInv, SingleInv
    <2>6. KeyInv(c)'
      BY <1>2, <1>3, <2>1, <2>3 DEF KeyInv
    <2>7. CountInv(c)'
      <3>1. InProgress(c)' = attempt[c] + 1
        BY <2>1 DEF InProgress
      <3>2. sends[c] + 1 <= Cardinality(tried[c]) + InProgress(c)'
        BY <1>4, <1>5, <1>6, <2>4, <3>1
      <3>3. QED
        BY <1>4, <2>1, <2>2, <2>4, <3>1, <3>2 DEF CountInv
    <2>8. QED
      BY <2>5, <2>6, <2>7 DEF CallerInv
  <1>10. QED
    BY <1>7, <1>8, <1>9 DEF Settle

-----------------------------------------------------------------------------
(* A step of a caller preserves its own invariant: the selector ...        *)

\* The steps of reserve_slot that hand out no key keep the caller's invariant.
LEMMA SelectorInv ==
  ASSUME TypeOK, TypeOK', NEW c \in Callers, CallerInv(c),
         \/ Begin(c) \/ SelectPrimary(c) \/ ReservePrimary(c) \/ SelectSlot(c) \/ Pass2(c)
         \/ Wait(c) \/ Wake(c) \/ Race(c)
  PROVE  CallerInv(c)'
  <1>1. replay_on[c] = NoKey /\ replay_on'[c] = NoKey
    BY DEF CallerInv, PinInv, Begin, SelectPrimary, ReservePrimary, SelectSlot, Pass2, EndPass,
           Wait, Wake, Race, request
  <1>2. /\ tried'[c] = tried[c] /\ replayed'[c] = replayed[c] /\ sends'[c] = sends[c]
        /\ refused'[c] = refused[c] /\ attempt'[c] = attempt[c]
    BY DEF Begin, SelectPrimary, ReservePrimary, SelectSlot, Pass2, EndPass, Wait, Wake, Race,
           request, ledger
  <1>3. Selecting(c)' /\ ~OnKey(c)'
    BY <1>1 DEF Selecting, OnKey, Begin, SelectPrimary, ReservePrimary, SelectSlot, Pass2,
                EndPass, Wait, Wake, Race, Goto, TypeOK
  <1>4. /\ refused[c] = tried[c] /\ tried[c] # Keys
        /\ sends[c] <= Cardinality(tried[c]) + (IF replayed[c] THEN 1 ELSE 0)
        /\ ~MayRotate(call'[c]) => tried[c] = {} /\ sends[c] = 0 /\ ~replayed[c]
        /\ Policy(call'[c]) = "SingleAttempt" => ~replayed[c]
    <2>1. CASE Begin(c)
      <3>1. sends[c] = 0 /\ tried[c] = {} /\ ~replayed[c] /\ refused[c] = {}
        BY <2>1 DEF CallerInv, IdleInv, Begin
      <3>2. QED
        BY <3>1, TriedFacts, KeyFacts
    <2>2. CASE ~Begin(c)
      <3>1. call' = call /\ Selecting(c)
        BY <1>1, <2>2 DEF SelectPrimary, ReservePrimary, SelectSlot, Pass2, EndPass, Wait, Wake,
                          Race, request, Selecting
      <3>2. QED
        BY <3>1 DEF CallerInv, SelectInv, CountInv, SingleInv
    <2>3. QED
      BY <2>1, <2>2
  <1>5. IdleInv(c)' /\ PinInv(c)' /\ KeyInv(c)' /\ PaidInv(c)'
    BY <1>1, <1>3 DEF IdleInv, PinInv, KeyInv, PaidInv, Selecting
  <1>6. SelectInv(c)' /\ CountInv(c)' /\ SingleInv(c)'
    BY <1>2, <1>3, <1>4 DEF SelectInv, CountInv, SingleInv, MayRotate, Policy, Class, Selecting
  <1>7. CandidateInv(c)'
    <2> USE DEF TypeOK, Goto, CallerInv
    <2>1. CASE Begin(c)
      BY <2>1 DEF Begin, CandidateInv
    <2>2. CASE SelectPrimary(c)
      BY <2>2 DEF SelectPrimary, CandidateInv, MayRotate, request
    <2>3. CASE ReservePrimary(c)
      BY <2>3 DEF ReservePrimary, CandidateInv, request
    <2>4. CASE SelectSlot(c)
      BY <2>4 DEF SelectSlot, CandidateInv
    <2>5. CASE Pass2(c)
      <3>1. CASE pc'[c] = "login"
        BY <2>5, <3>1 DEF Pass2, EndPass, NeedsLogin, Candidates, CandidateInv, Candidate,
                          NextCandidate, request
      <3>2. CASE pc'[c] # "login"
        BY <2>5, <3>2 DEF Pass2, EndPass, CandidateInv
      <3>3. QED
        BY <3>1, <3>2
    <2>6. CASE Wait(c)
      BY <1>2, <2>6 DEF Wait, PreferReady, Candidates, CandidateInv
    <2>7. CASE Wake(c)
      BY <1>2, <2>7 DEF Wake, PreferReady, Candidates, CandidateInv
    <2>8. CASE Race(c)
      BY <1>2, <2>8 DEF Race, CandidateInv
    <2>9. QED
      BY <2>1, <2>2, <2>3, <2>4, <2>5, <2>6, <2>7, <2>8
  <1>8. QED
    BY <1>5, <1>6, <1>7 DEF CallerInv

\* A step inside the selector that leaves the request as it was; the key it promotes is one
\* the request has not been to.
LEMMA StaysInSelector ==
  ASSUME TypeOK, NEW c \in Callers, CallerInv(c), Selecting(c), replay_on[c] = NoKey,
         \/ pc'[c] \in {"pass1", "pass2", "wait"}
         \/ pc'[c] \in {"promote", "judge", "move", "hand"} /\ slot'[c] \notin tried[c],
         call' = call, tried' = tried, replayed' = replayed, replay_on' = replay_on,
         sends' = sends, refused' = refused
  PROVE  CallerInv(c)'
  <1>1. Selecting(c)' /\ ~OnKey(c)'
    BY DEF Selecting, OnKey
  <1>2. IdleInv(c)' /\ PinInv(c)' /\ KeyInv(c)' /\ PaidInv(c)' /\ CandidateInv(c)'
    BY <1>1 DEF IdleInv, PinInv, KeyInv, PaidInv, CandidateInv
  <1>3. SelectInv(c)' /\ CountInv(c)' /\ SingleInv(c)'
    BY <1>1 DEF CallerInv, SelectInv, CountInv, SingleInv, MayRotate, Policy, Class
  <1>4. QED
    BY <1>2, <1>3 DEF CallerInv

\* ... the steps of reserve_slot that find a key, or fail to ...
LEMMA FindInv ==
  ASSUME TypeOK, TypeOK', NEW c \in Callers, CallerInv(c),
         PrimarySession(c) \/ Pass1(c) \/ Login(c) \/ Won(c)
  PROVE  CallerInv(c)'
  <1>1. Selecting(c) /\ replay_on[c] = NoKey /\ replay_on'[c] = NoKey
    BY DEF CallerInv, PinInv, Selecting, PrimarySession, Pass1, EndPass, Login, Won, request
  <1>2. slot[c] \in Keys /\ Candidate(c) \in Keys
    BY CandidateType DEF TypeOK
  <1>3. CASE PrimarySession(c)
    <2>1. slot[c] \notin tried[c]
      BY <1>1, <1>3 DEF PrimarySession, CallerInv, CandidateInv, SelectInv
    <2>2. Enter(c, slot[c]) \/ \E o : Return(c, o)
      BY <1>3 DEF PrimarySession
    <2>3. QED
      BY <1>1, <1>2, <2>1, <2>2, EnterInv, ReturnInv
  <1>4. CASE Pass1(c)
    <2>1. CASE /\ Candidate(c) \in Candidates(c) /\ Goto(c, "promote")
               /\ slot' = [slot EXCEPT ![c] = Candidate(c)]
               /\ UNCHANGED <<pool, request, attempt, result, charged, sends, refused>>
      <3>1. pc'[c] = "promote" /\ slot'[c] \notin tried[c]
        BY <2>1 DEF Goto, Candidates, TypeOK
      <3>2. QED
        BY <1>1, <2>1, <3>1, StaysInSelector DEF request
    <2>2. CASE EndPass(c, "pass2")
      <3>1. pc'[c] = "pass2"
        BY <2>2 DEF EndPass, Goto, TypeOK
      <3>2. QED
        BY <1>1, <2>2, <3>1, StaysInSelector DEF EndPass, request, ledger
    <2>3. CASE UNCHANGED <<pool, pc, request, start, waiting, wake, seen, slot, attempt,
                           result, ledger>>
      <3>1. pc'[c] = "pass1"
        BY <1>4, <2>3 DEF Pass1
      <3>2. QED
        BY <1>1, <2>3, <3>1, StaysInSelector DEF request, ledger
    <2>4. QED
      BY <1>4, <2>1, <2>2, <2>3 DEF Pass1
  <1>5. CASE Login(c)
    <2>1. Candidate(c) \notin tried[c] /\ call' = call /\ replay_on' = replay_on
      BY <1>5 DEF Login, CallerInv, CandidateInv
    <2>2. CASE /\ Goto(c, "promote")
               /\ slot' = [slot EXCEPT ![c] = Candidate(c)]
               /\ UNCHANGED <<left, tried, replayed, attempt, result, charged, sends, refused>>
      <3>1. pc'[c] = "promote" /\ slot'[c] \notin tried[c]
        BY <2>1, <2>2 DEF Goto, TypeOK
      <3>2. QED
        BY <1>1, <2>1, <2>2, <3>1, StaysInSelector
    <2>3. CASE \E o : Return(c, o)
      BY <1>1, <2>3, ReturnInv
    <2>4. CASE /\ Goto(c, "pass2")
               /\ UNCHANGED <<tried, replayed, start, waiting, wake, seen, slot, attempt,
                              result, ledger>>
      <3>1. pc'[c] = "pass2"
        BY <2>4 DEF Goto, TypeOK
      <3>2. QED
        BY <1>1, <2>1, <2>4, <3>1, StaysInSelector DEF ledger
    <2>5. QED
      BY <1>5, <2>2, <2>3, <2>4 DEF Login
  <1>6. CASE Won(c)
    <2>1. slot[c] \notin tried[c] /\ call' = call /\ replay_on' = replay_on
      BY <1>6 DEF Won, CallerInv, CandidateInv
    <2>2. CASE \E o : Return(c, o)
      BY <1>1, <2>2, ReturnInv
    <2>3. CASE /\ Goto(c, "promote")
               /\ UNCHANGED <<tried, replayed, slot, attempt, result, ledger>>
      <3>1. pc'[c] = "promote" /\ slot'[c] \notin tried[c]
        BY <2>1, <2>3 DEF Goto, TypeOK
      <3>2. QED
        BY <1>1, <2>1, <2>3, <3>1, StaysInSelector DEF ledger
    <2>4. QED
      BY <1>6, <2>2, <2>3 DEF Won
  <1>7. QED
    BY <1>3, <1>4, <1>5, <1>6

\* ... those that promote it and hand it out ...
LEMMA HandOutInv ==
  ASSUME TypeOK, TypeOK', NEW c \in Callers, CallerInv(c),
         Promote(c) \/ Judge(c) \/ Move(c) \/ HandOut(c)
  PROVE  CallerInv(c)'
  <1>1. /\ Selecting(c) /\ replay_on[c] = NoKey /\ replay_on' = replay_on
        /\ slot[c] \notin tried[c] /\ slot[c] \in Keys
    BY DEF CallerInv, PinInv, CandidateInv, Selecting, Promote, Judge, Move, HandOut, request,
           TypeOK
  <1>2. CASE Promote(c) \/ Judge(c) \/ Move(c)
    <2>1. /\ pc'[c] \in {"judge", "move", "hand"}
          /\ UNCHANGED <<request, slot, ledger>>
      BY <1>2 DEF Promote, Judge, Move, Goto, TypeOK
    <2>2. QED
      BY <1>1, <2>1, StaysInSelector DEF request, ledger
  <1>3. CASE Enter(c, slot[c])
    BY <1>1, <1>3, EnterInv
  <1>4. CASE /\ Goto(c, "wait")
             /\ UNCHANGED <<call, tried, replayed, attempt, result, ledger>>
    <2>1. pc'[c] = "wait"
      BY <1>4 DEF Goto, TypeOK
    <2>2. QED
      BY <1>1, <1>4, <2>1, StaysInSelector DEF ledger
  <1>5. QED
    BY <1>2, <1>3, <1>4 DEF HandOut

(* ... and the request on its key.                                         *)

\* What a step on a key finds there.
LEMMA OnKeyFacts ==
  ASSUME TypeOK, NEW c \in Callers, CallerInv(c), OnKey(c)
  PROVE  /\ slot[c] \in tried[c] /\ refused[c] = tried[c] \ {slot[c]}
         /\ ~MayRotate(call[c]) => tried[c] = {slot[c]}
         /\ attempt[c] <= Retries(c)
         /\ sends[c] + 1 <= Cardinality(tried[c]) + InProgress(c)
                            + (IF replayed[c] THEN Retries(c) + 1 ELSE 0)
         /\ sends[c] \in Nat /\ attempt[c] \in Nat /\ Cardinality(tried[c]) \in Nat
         /\ Retries(c) \in Nat
  BY TriedFacts, RetriesType DEF TypeOK, CallerInv, KeyInv, CountInv

\* The tokens, the send and a retry: the request moves along on its key.
LEMMA SendingInv ==
  ASSUME TypeOK, TypeOK', NEW c \in Callers, CallerInv(c),
         pc[c] \in {"on_slot", "charge", "send", "answer", "retry"},
         pc'[c] \in {"charge", "send", "answer", "retry"},
         call' = call, tried' = tried, replayed' = replayed, replay_on' = replay_on,
         slot' = slot, refused' = refused,
         attempt'[c] <= Retries(c),
         sends'[c] - sends[c] <= InProgress(c)' - InProgress(c),
         PaidInv(c)'
  PROVE  CallerInv(c)'
  <1>1. OnKey(c) /\ OnKey(c)' /\ ~Selecting(c)' /\ replay_on'[c] = NoKey
    BY DEF OnKey, Selecting, CallerInv, PinInv
  <1>2. /\ Retries(c)' = Retries(c) /\ MayRotate(call[c])' = MayRotate(call[c])
        /\ Policy(call[c])' = Policy(call[c])
    BY DEF Retries, Rotates, MayRotate, Policy, Class
  <1>3. /\ IdleInv(c)' /\ PinInv(c)' /\ SelectInv(c)' /\ CandidateInv(c)' /\ SingleInv(c)'
        /\ KeyInv(c)'
    BY <1>1, <1>2, OnKeyFacts
    DEF CallerInv, IdleInv, PinInv, SelectInv, CandidateInv, SingleInv, KeyInv
  <1>4. CountInv(c)'
    <2>1. InProgress(c) \in Nat /\ InProgress(c)' \in Nat /\ sends'[c] \in Nat
      BY DEF InProgress, TypeOK
    <2>2. sends'[c] + 1 <= Cardinality(tried[c]) + InProgress(c)'
                           + (IF replayed[c] THEN Retries(c) + 1 ELSE 0)
      BY <1>1, <2>1, OnKeyFacts
    <2>3. QED
      BY <1>1, <1>2, <2>2 DEF CountInv
  <1>5. QED
    BY <1>3, <1>4 DEF CallerInv

\* ... the replay on the key whose session was refreshed ...
LEMMA ReplayInv ==
  ASSUME TypeOK, TypeOK', NEW c \in Callers, CallerInv(c), Replay(c)
  PROVE  CallerInv(c)'
  <1>1. /\ pc[c] = "loop" /\ replay_on[c] # NoKey /\ replayed[c] /\ replay_on[c] = slot[c]
        /\ OnKey(c) /\ InProgress(c) = 0
    BY DEF Replay, CallerInv, PinInv, OnKey, InProgress
  <1>2. /\ pc'[c] = "on_slot" /\ slot'[c] = slot[c] /\ held'[c] = slot[c]
        /\ tried'[c] = tried[c] /\ attempt'[c] = 0 /\ call' = call /\ replayed' = replayed
        /\ sends' = sends /\ refused' = refused /\ replay_on'[c] = NoKey
    BY <1>1, OnKeyFacts DEF Replay, Enter, Goto, TypeOK
  <1>3. OnKey(c)' /\ ~Selecting(c)' /\ InProgress(c)' = 0
    BY <1>2 DEF OnKey, Selecting, InProgress
  <1>4. /\ Retries(c)' = Retries(c) /\ MayRotate(call[c])' = MayRotate(call[c])
        /\ Policy(call[c])' = Policy(call[c])
    BY <1>2 DEF Retries, Rotates, MayRotate, Policy, Class
  <1>5. IdleInv(c)' /\ PinInv(c)' /\ SelectInv(c)' /\ CandidateInv(c)' /\ PaidInv(c)'
    BY <1>2, <1>3 DEF IdleInv, PinInv, SelectInv, CandidateInv, PaidInv
  <1>6. KeyInv(c)' /\ SingleInv(c)'
    BY <1>1, <1>2, <1>4, OnKeyFacts DEF KeyInv, CallerInv, SingleInv
  <1>7. CountInv(c)'
    BY <1>1, <1>2, <1>3, <1>4, OnKeyFacts DEF CountInv
  <1>8. QED
    BY <1>5, <1>6, <1>7 DEF CallerInv

\* ... the refresh after IG rejected the session, and its failures ...
LEMMA RefreshInv ==
  ASSUME TypeOK, TypeOK', NEW c \in Callers, CallerInv(c), Refresh(c)
  PROVE  CallerInv(c)'
  <1>1. /\ pc[c] = "refresh" /\ ~replayed[c] /\ OnKey(c) /\ replay_on[c] = NoKey
        /\ InProgress(c) = attempt[c] + 1 /\ Policy(call[c]) # "SingleAttempt"
    BY DEF Refresh, CallerInv, PinInv, OnKey, InProgress, SingleInv
  <1>2. CASE \E o : Return(c, o) /\ UNCHANGED replay_on
    BY <1>1, <1>2, ReturnInv
  <1>3. CASE /\ Goto(c, "loop")
             /\ replayed' = [replayed EXCEPT ![c] = TRUE]
             /\ replay_on' = [replay_on EXCEPT ![c] = slot[c]]
             /\ UNCHANGED <<tried, slot, attempt, result, ledger>>
    <2>1. /\ pc'[c] = "loop" /\ replayed'[c] /\ replay_on'[c] = slot[c] /\ call' = call
          /\ tried' = tried /\ slot' = slot /\ attempt' = attempt /\ sends' = sends
          /\ refused' = refused
      BY <1>3 DEF Refresh, Goto, TypeOK, ledger
    <2>2. slot[c] # NoKey
      BY PoolAssumption DEF TypeOK
    <2>3. OnKey(c)' /\ ~Selecting(c)' /\ InProgress(c)' = 0
      BY <2>1, <2>2 DEF OnKey, Selecting, InProgress
    <2>4. /\ Retries(c)' = Retries(c) /\ MayRotate(call[c])' = MayRotate(call[c])
          /\ Policy(call[c])' = Policy(call[c])
      BY <2>1 DEF Retries, Rotates, MayRotate, Policy, Class
    <2>5. IdleInv(c)' /\ PinInv(c)' /\ SelectInv(c)' /\ CandidateInv(c)' /\ PaidInv(c)'
      BY <2>1, <2>3 DEF IdleInv, PinInv, SelectInv, CandidateInv, PaidInv
    <2>6. KeyInv(c)' /\ SingleInv(c)'
      BY <1>1, <2>1, <2>4, OnKeyFacts DEF KeyInv, SingleInv
    <2>7. CountInv(c)'
      BY <1>1, <2>1, <2>3, <2>4, OnKeyFacts DEF CountInv
    <2>8. QED
      BY <2>5, <2>6, <2>7 DEF CallerInv
  <1>4. QED
    BY <1>2, <1>3 DEF Refresh

\* ... and the steps of a request on its key: charge, send, answer, retry.
LEMMA KeyStepInv ==
  ASSUME TypeOK, TypeOK', NEW c \in Callers, CallerInv(c),
         OnSlot(c) \/ Charge(c) \/ Send(c) \/ Answer(c) \/ Retry(c)
  PROVE  CallerInv(c)'
  <1> USE DEF TypeOK, Goto, request, ledger
  <1>1. sends[c] \in Nat /\ attempt[c] \in Nat
    OBVIOUS
  <1>2. CASE OnSlot(c)
    <2>1. CASE \E o : Settle(c, o)
      BY <1>2, <2>1, SettleInv DEF OnSlot
    <2>2. CASE Goto(c, "charge")
               /\ UNCHANGED <<left, tried, replayed, slot, attempt, result, ledger>>
      <3>1. PaidInv(c)'
        BY <1>2, <2>2 DEF OnSlot, CallerInv, PaidInv
      <3>2. InProgress(c)' = InProgress(c) /\ InProgress(c) \in Nat
        BY <1>1, <1>2, <2>2 DEF OnSlot, InProgress
      <3>3. attempt[c] <= Retries(c)
        BY <1>2, OnKeyFacts DEF OnSlot, OnKey
      <3>4. QED
        BY <1>1, <1>2, <2>2, <3>1, <3>2, <3>3, SendingInv DEF OnSlot
    <2>3. QED
      BY <1>2, <2>1, <2>2 DEF OnSlot
  <1>3. CASE Charge(c)
    <2>1. PaidInv(c)'
      BY <1>3 DEF Charge, CallerInv, PaidInv, Class
    <2>2. InProgress(c)' = InProgress(c) /\ InProgress(c) \in Nat
      BY <1>1, <1>3 DEF Charge, InProgress
    <2>3. attempt[c] <= Retries(c)
      BY <1>3, OnKeyFacts DEF Charge, OnKey
    <2>4. QED
      BY <1>1, <1>3, <2>1, <2>2, <2>3, SendingInv DEF Charge
  <1>4. CASE Send(c)
    <2>1. PaidInv(c)'
      BY <1>4 DEF Send, PaidInv
    <2>2. InProgress(c)' = InProgress(c) + 1 /\ InProgress(c) \in Nat
      BY <1>1, <1>4 DEF Send, InProgress
    <2>3. attempt[c] <= Retries(c)
      BY <1>4, OnKeyFacts DEF Send, OnKey
    <2>4. sends'[c] = sends[c] + 1
      BY <1>4 DEF Send
    <2>5. QED
      BY <1>1, <1>4, <2>1, <2>2, <2>3, <2>4, SendingInv DEF Send
  <1>5. CASE Answer(c)
    <2>1. CASE \E answer : Settle(c, answer)
      BY <1>5, <2>1, SettleInv DEF Answer
    <2>2. CASE /\ attempt[c] < Retries(c)
               /\ attempt' = [attempt EXCEPT ![c] = @ + 1]
               /\ Goto(c, "retry")
               /\ UNCHANGED <<left, tried, replayed, slot, result, ledger>>
      <3>1. PaidInv(c)'
        BY <2>2 DEF PaidInv
      <3>2. InProgress(c)' = InProgress(c) /\ InProgress(c) \in Nat
        BY <1>1, <1>5, <2>2 DEF Answer, InProgress
      <3>3. attempt'[c] <= Retries(c)
        BY <1>1, <2>2, RetriesType
      <3>4. QED
        BY <1>1, <1>5, <2>2, <3>1, <3>2, <3>3, SendingInv DEF Answer
    <2>3. QED
      BY <1>5, <2>1, <2>2 DEF Answer
  <1>6. CASE Retry(c)
    <2>1. PaidInv(c)'
      BY <1>6 DEF Retry, PaidInv
    <2>2. InProgress(c)' = InProgress(c) /\ InProgress(c) \in Nat
      BY <1>1, <1>6 DEF Retry, InProgress
    <2>3. attempt[c] <= Retries(c)
      BY <1>6, OnKeyFacts DEF Retry, OnKey
    <2>4. QED
      BY <1>1, <1>6, <2>1, <2>2, <2>3, SendingInv DEF Retry
  <1>7. QED
    BY <1>2, <1>3, <1>4, <1>5, <1>6

-----------------------------------------------------------------------------
(* The steps of the environment touch no request.                          *)

\* Time, lapsing sessions and the primary's own login keep the invariant.
LEMMA EnvironmentInv ==
  ASSUME RequestInv, Tick \/ (\E k \in Keys : Lapse(k)) \/ LoginPrimary \/ UNCHANGED vars
  PROVE  RequestInv'
  <1> USE DEF pool, request, scan, ledger
  <1>1. TypeOK'
    <2> USE DEF RequestInv, TypeOK
    <2>1. CASE Tick
      <3>1. \A n \in 0 .. Cooldown : Minus1(n) \in 0 .. Cooldown
        BY PoolAssumption DEF Minus1
      <3>2. QED
        BY <2>1, <3>1 DEF Tick
    <2>2. CASE \E k \in Keys : Lapse(k)
      BY <2>2 DEF Lapse
    <2>3. CASE LoginPrimary
      BY <2>3, InstallsType DEF LoginPrimary
    <2>4. CASE UNCHANGED vars
      BY <2>4 DEF vars
    <2>5. QED
      BY <2>1, <2>2, <2>3, <2>4
  <1>2. \A c \in Callers : Untouched(c)
    BY DEF Tick, Lapse, LoginPrimary, vars, Untouched
  <1>3. LoginInScan'
    BY <1>2 DEF RequestInv, LoginInScan, Untouched
  <1>4. QED
    BY <1>1, <1>2, <1>3, UntouchedInv DEF RequestInv

\* The invariant holds of a client that has just been built ...
LEMMA InitInv == Init => RequestInv
  <1> SUFFICES ASSUME Init PROVE RequestInv
    OBVIOUS
  <1>1. TypeOK
    BY InitTypeOK
  <1>2. LoginInScan
    BY DEF Init, LoginInScan
  <1>3. ASSUME NEW c \in Callers PROVE CallerInv(c)
    <2>1. /\ pc[c] = "idle" /\ sends[c] = 0 /\ tried[c] = {} /\ ~replayed[c]
          /\ refused[c] = {} /\ replay_on[c] = NoKey
      BY DEF Init
    <2>2. ~Selecting(c) /\ ~OnKey(c)
      BY <2>1 DEF Selecting, OnKey
    <2>3. QED
      BY <2>1, <2>2 DEF CallerInv, IdleInv, PinInv, SelectInv, CandidateInv, KeyInv, SingleInv,
                        PaidInv, CountInv
  <1>4. QED
    BY <1>1, <1>2, <1>3 DEF RequestInv

\* ... and every step keeps it.
LEMMA NextInv == RequestInv /\ [Next]_vars => RequestInv'
  <1> SUFFICES ASSUME RequestInv, [Next]_vars PROVE RequestInv'
    OBVIOUS
  <1>1. CASE \E c \in Callers : Begin(c) \/ Step(c)
    <2>1. PICK c \in Callers : Begin(c) \/ Step(c)
      BY <1>1
    <2>2. TypeOK /\ LoginInScan /\ \A d \in Callers : CallerInv(d)
      BY DEF RequestInv
    <2>3. TypeOK'
      BY <2>1, <2>2, StepTypeOK
    <2>4. LoginInScan'
      BY <2>1, <2>2, LoginInScanStep
    <2>5. CallerInv(c)'
      BY <2>1, <2>2, <2>3, SelectorInv, FindInv, HandOutInv, ReplayInv, RefreshInv, KeyStepInv DEF Step
    <2>6. ASSUME NEW d \in Callers, d # c PROVE CallerInv(d)'
      BY <2>1, <2>2, <2>6, StepIsLocal, UntouchedInv
    <2>7. QED
      BY <2>3, <2>4, <2>5, <2>6 DEF RequestInv
  <1>2. CASE Tick \/ (\E k \in Keys : Lapse(k)) \/ LoginPrimary \/ UNCHANGED vars
    BY <1>2, EnvironmentInv
  <1>3. QED
    BY <1>1, <1>2 DEF Next

\* The invariant holds of every state of every pool.
THEOREM Requests == Spec => []RequestInv
  <1>1. QED
    BY InitInv, NextInv, PTL DEF Spec

-----------------------------------------------------------------------------
(* What follows from it.                                                   *)

\* Every variable of the pipeline keeps its type.
THEOREM Typing == Spec => []TypeOK
  <1>1. RequestInv => TypeOK
    BY DEF RequestInv
  <1>2. QED
    BY <1>1, Requests, PTL

\* Retries, rotation and replay together send a request no more often than its
\* budget, for every size of the pool and every retry count.
THEOREM BoundedSends == Spec => []SendsWithinBudget
  <1>1. RequestInv => SendsWithinBudget
    <2> SUFFICES ASSUME RequestInv, NEW c \in Callers PROVE sends[c] <= Budget(call[c])
      BY DEF SendsWithinBudget
    <2> USE PoolAssumption
    <2>1. CallerInv(c) /\ TypeOK /\ sends[c] \in Nat
      BY DEF RequestInv, TypeOK
    <2>2. Budget(call[c]) \in Nat /\ Budget(call[c]) >= 1
      BY DEF Budget
    <2>3. CASE pc[c] = "idle"
      BY <2>1, <2>2, <2>3 DEF CallerInv, IdleInv
    <2>4. CASE Selecting(c)
      <3>1. CASE ~MayRotate(call[c])
        BY <2>1, <2>2, <2>4, <3>1 DEF CallerInv, SelectInv
      <3>2. CASE MayRotate(call[c])
        <4>1. Budget(call[c]) = (N - 1) + 2 * (MaxRetries + 1)
          BY <3>2 DEF Budget, MayRotate
        <4>2. sends[c] <= Cardinality(tried[c]) + 1
          BY <2>1, <2>4, TriedFacts DEF CallerInv, CountInv, TypeOK
        <4>3. Cardinality(tried[c]) \in Nat /\ Cardinality(tried[c]) <= N
          BY <2>1, TriedFacts DEF TypeOK
        <4>4. QED
          BY <2>1, <4>1, <4>2, <4>3
      <3>3. QED
        BY <3>1, <3>2
    <2>5. CASE OnKey(c)
      <3>1. /\ attempt[c] <= Retries(c)
            /\ sends[c] + 1 <= Cardinality(tried[c]) + InProgress(c)
                               + (IF replayed[c] THEN Retries(c) + 1 ELSE 0)
            /\ ~MayRotate(call[c]) => tried[c] = {slot[c]}
            /\ attempt[c] \in Nat /\ Cardinality(tried[c]) \in Nat /\ Retries(c) \in Nat
            /\ Cardinality(tried[c]) <= N
        BY <2>1, <2>5, OnKeyFacts, TriedFacts DEF TypeOK
      <3>2. InProgress(c) \in Nat /\ InProgress(c) <= attempt[c] + 1
        BY <3>1 DEF InProgress
      <3>3. sends[c] <= Cardinality(tried[c]) + Retries(c)
                        + (IF replayed[c] THEN Retries(c) + 1 ELSE 0)
        BY <2>1, <3>1, <3>2
      <3>4. CASE Policy(call[c]) = "SingleAttempt"
        <4>1. ~replayed[c] /\ Retries(c) = 0 /\ ~MayRotate(call[c]) /\ Budget(call[c]) = 1
          BY <2>1, <3>4 DEF CallerInv, SingleInv, Retries, MayRotate, Budget
        <4>2. Cardinality(tried[c]) = 1
          BY <3>1, <4>1, TriedFacts
        <4>3. QED
          BY <2>1, <3>3, <4>1, <4>2
      <3>5. CASE Policy(call[c]) # "SingleAttempt"
        <4>1. Retries(c) <= MaxRetries
          BY DEF Retries
        <4>2. sends[c] <= Cardinality(tried[c]) + 2 * MaxRetries + 1
          BY <2>1, <3>1, <3>3, <4>1
        <4>3. CASE MayRotate(call[c])
          BY <2>1, <3>1, <3>5, <4>2, <4>3 DEF Budget
        <4>4. CASE ~MayRotate(call[c])
          <5>1. Cardinality(tried[c]) = 1
            BY <3>1, <4>4, TriedFacts
          <5>2. Budget(call[c]) = 2 * (MaxRetries + 1)
            BY <3>5, <4>4 DEF Budget
          <5>3. QED
            BY <2>1, <4>2, <5>1, <5>2
        <4>5. QED
          BY <4>3, <4>4
      <3>6. QED
        BY <3>4, <3>5
    <2>6. pc[c] = "idle" \/ Selecting(c) \/ OnKey(c)
      BY <2>1 DEF TypeOK, Labels, Selecting, OnKey
    <2>7. QED
      BY <2>3, <2>4, <2>5, <2>6
  <1>2. QED
    BY <1>1, Requests, PTL

\* Orders and the other single-attempt requests go on the wire once at most.
THEOREM SentOnceTheorem == Spec => []SingleAttemptSentOnce
  <1>1. ASSUME NEW r, SentOnce(r) PROVE Budget(r) = 1
    <2>1. CASE r.mutation /\ r.route = "otc"
      <3>1. Class(r) = "Trading"
        BY <2>1 DEF Class
      <3>2. QED
        BY <3>1 DEF Budget, Policy, MayRotate
    <2>2. CASE (r.mutation /\ r.escaped) \/ r.asked = "SingleAttempt"
      BY <2>2 DEF Budget, Policy, MayRotate
    <2>3. QED
      BY <1>1, <2>1, <2>2 DEF SentOnce
  <1>2. SendsWithinBudget => SingleAttemptSentOnce
    BY <1>1 DEF SendsWithinBudget, SingleAttemptSentOnce
  <1>3. QED
    BY <1>2, BoundedSends, PTL

\* Every send holds a token of its key and, unless it is an order, of the account.
THEOREM Paid == Spec => []EverySendPaid
  <1>1. RequestInv => EverySendPaid
    BY DEF RequestInv, CallerInv, PaidInv, EverySendPaid
  <1>2. QED
    BY <1>1, Requests, PTL

\* No request is sent on a key that has refused it.
THEOREM NeverOnRefusedKey == Spec => []NotSentOnRefusedKey
  <1>1. RequestInv => NotSentOnRefusedKey
    BY DEF RequestInv, CallerInv, KeyInv, OnKey, NotSentOnRefusedKey
  <1>2. QED
    BY <1>1, Requests, PTL

\* Only a key that refused the request is left behind.
THEOREM LeavesRefused == Spec => []LeavesOnlyRefusedKeys
  <1>1. RequestInv => LeavesOnlyRefusedKeys
    <2> SUFFICES ASSUME RequestInv, NEW c \in Callers
                 PROVE  tried[c] \ {slot[c]} \subseteq refused[c]
      BY DEF LeavesOnlyRefusedKeys
    <2>1. pc[c] = "idle" \/ Selecting(c) \/ OnKey(c)
      BY DEF RequestInv, TypeOK, Labels, Selecting, OnKey
    <2>2. QED
      BY <2>1 DEF RequestInv, CallerInv, IdleInv, SelectInv, KeyInv
  <1>2. QED
    BY <1>1, Requests, PTL

\* The selector always has a candidate: "every key has been tried" is dead code.
THEOREM AlwaysACandidate == Spec => []CandidateLeft
  <1>1. RequestInv => CandidateLeft
    <2> SUFFICES ASSUME RequestInv, NEW c \in Callers, pc[c] = "loop", replay_on[c] = NoKey
                 PROVE  Candidates(c) # {}
      BY DEF CandidateLeft
    <2>1. tried[c] # Keys /\ tried[c] \subseteq Keys
      BY DEF RequestInv, TypeOK, CallerInv, SelectInv, Selecting
    <2>2. QED
      BY <2>1 DEF Candidates
  <1>2. QED
    BY <1>1, Requests, PTL

\* The keys that hold a session, and those that are being promoted, have logged in.
ProvedInv ==
  /\ \A k \in Keys : ready[k] => k \in proved
  /\ \A c \in Callers : pc[c] \in {"promote", "judge", "move"} => slot[c] \in proved

LEMMA ProvedInit == Init => ProvedInv
  BY DEF Init, ProvedInv

LEMMA ProvedNext == TypeOK /\ ProvedInv /\ [Next]_vars => ProvedInv'
  <1> SUFFICES ASSUME TypeOK, ProvedInv, [Next]_vars PROVE ProvedInv'
    OBVIOUS
  <1>1. CASE \E c \in Callers : Begin(c) \/ Step(c)
    <2>1. PICK c \in Callers : Begin(c) \/ Step(c)
      BY <1>1
    <2>2. slot[c] \in Keys /\ Candidate(c) \in Keys
      BY CandidateType DEF TypeOK
    <2>3. /\ proved \subseteq proved'
          /\ \A k \in Keys : ready'[k] => k \in proved'
      <3> USE DEF ProvedInv, TypeOK, Installs, pool
      <3>1. CASE \/ Begin(c) \/ SelectPrimary(c) \/ ReservePrimary(c) \/ SelectSlot(c)
                 \/ Pass1(c) \/ Pass2(c) \/ Wait(c) \/ Wake(c) \/ Race(c)
        BY <3>1 DEF Begin, SelectPrimary, ReservePrimary, SelectSlot, Pass1, Pass2, EndPass,
                    Wait, Wake, Race
      <3>2. CASE PrimarySession(c) \/ Won(c) \/ OnSlot(c) \/ Refresh(c)
        BY <2>2, <3>2 DEF PrimarySession, Won, OnSlot, Refresh
      <3>3. CASE Login(c)
        BY <2>2, <3>3 DEF Login
      <3>4. CASE \/ Promote(c) \/ Judge(c) \/ Move(c) \/ HandOut(c) \/ Replay(c) \/ Charge(c)
                 \/ Send(c) \/ Answer(c) \/ Retry(c)
        BY <3>4 DEF Promote, Judge, Move, HandOut, Replay, Charge, Send, Answer, Retry
      <3>5. QED
        BY <2>1, <3>1, <3>2, <3>3, <3>4 DEF Step
    <2>4. pc'[c] \in {"promote", "judge", "move"} => slot'[c] \in proved'
      <3> USE DEF ProvedInv, TypeOK, Goto
      <3>1. CASE Begin(c) \/ SelectPrimary(c) \/ ReservePrimary(c) \/ SelectSlot(c)
        BY <3>1 DEF Begin, SelectPrimary, ReservePrimary, SelectSlot
      <3>2. CASE Pass1(c)
        BY <2>2, <3>2 DEF Pass1, EndPass, pool
      <3>3. CASE Pass2(c) \/ Wait(c) \/ Wake(c) \/ Race(c)
        BY <3>3 DEF Pass2, EndPass, Wait, Wake, Race
      <3>4. CASE Login(c)
        BY <2>2, <3>4 DEF Login, Installs, Return
      <3>5. CASE Won(c)
        BY <2>2, <3>5 DEF Won, Installs, Return
      <3>6. CASE Promote(c) \/ Judge(c) \/ Move(c) \/ HandOut(c)
        BY <3>6 DEF Promote, Judge, Move, HandOut, Enter, pool
      <3>7. CASE PrimarySession(c) \/ Replay(c) \/ OnSlot(c) \/ Answer(c) \/ Refresh(c)
        BY <3>7 DEF PrimarySession, Replay, OnSlot, Answer, Refresh, Settle, Enter, Return
      <3>8. CASE Charge(c) \/ Send(c) \/ Retry(c)
        BY <3>8 DEF Charge, Send, Retry
      <3>9. QED
        BY <2>1, <3>1, <3>2, <3>3, <3>4, <3>5, <3>6, <3>7, <3>8 DEF Step
    <2>5. ASSUME NEW d \in Callers, d # c, pc'[d] \in {"promote", "judge", "move"}
          PROVE  slot'[d] \in proved'
      BY <2>1, <2>3, <2>5, StepIsLocal DEF Untouched, ProvedInv
    <2>6. QED
      BY <2>3, <2>4, <2>5 DEF ProvedInv
  <1>2. CASE Tick \/ (\E k \in Keys : Lapse(k)) \/ LoginPrimary \/ UNCHANGED vars
    BY <1>2 DEF Tick, Lapse, LoginPrimary, Installs, vars, pool, TypeOK, ProvedInv
  <1>3. QED
    BY <1>1, <1>2 DEF Next

\* The primary moves to keys only that have logged in: the key a request promotes has
\* proved itself before its promotion began, however long the move takes and whatever
\* other requests park and promote meanwhile.
THEOREM PrimaryIsProved == Spec => PrimaryAuthenticated
  <1>1. ASSUME TypeOK, ProvedInv, ProvedInv', [Next]_vars
        PROVE  [primary' # primary => primary' \in proved]_vars
    <2> SUFFICES ASSUME primary' # primary PROVE primary' \in proved
      OBVIOUS
    <2>1. PICK c \in Callers : Begin(c) \/ Step(c)
      BY <1>1 DEF Next, Tick, Lapse, LoginPrimary, vars, pool
    <2>2. Move(c)
      BY <2>1 DEF Begin, Step, SelectPrimary, ReservePrimary, PrimarySession, SelectSlot, Pass1,
                  Pass2, Login, EndPass, Wait, Wake, Race, Won, Promote, Judge, HandOut, Replay,
                  OnSlot, Charge, Send, Answer, Retry, Refresh, pool
    <2>3. QED
      BY <1>1, <2>2 DEF Move, ProvedInv
  <1>2. Spec => []ProvedInv
    BY ProvedInit, ProvedNext, Typing, PTL DEF Spec
  <1>3. QED
    BY <1>1, <1>2, Typing, PTL DEF Spec, PrimaryAuthenticated

\* What a step of a caller is to one who sees only the wire and the answer.
LEMMA StepKinds ==
  ASSUME TypeOK, NEW c \in Callers, Step(c)
  PROVE  /\ pc[c] # "idle" /\ call' = call
         /\ \/ /\ pc' = [pc EXCEPT ![c] = "idle"]
               /\ sends' = [sends EXCEPT ![c] = 0]
            \/ /\ pc' = [pc EXCEPT ![c] = "answer"]
               /\ sends' = [sends EXCEPT ![c] = @ + 1]
            \/ /\ \E label : label # "idle" /\ pc' = [pc EXCEPT ![c] = label]
               /\ sends' = sends
            \/ pc' = pc /\ sends' = sends
  <1> USE DEF Goto, request, ledger
  <1>1. CASE SelectPrimary(c) \/ ReservePrimary(c) \/ SelectSlot(c)
    BY <1>1 DEF SelectPrimary, ReservePrimary, SelectSlot
  <1>2. CASE PrimarySession(c)
    BY <1>2 DEF PrimarySession, Enter, Return
  <1>3. CASE Pass1(c)
    BY <1>3 DEF Pass1, EndPass
  <1>4. CASE Pass2(c)
    BY <1>4 DEF Pass2, EndPass
  <1>5. CASE Login(c)
    BY <1>5 DEF Login, Return
  <1>6. CASE Wait(c) \/ Wake(c) \/ Race(c)
    BY <1>6 DEF Wait, Wake, Race
  <1>7. CASE Won(c)
    BY <1>7 DEF Won, Return
  <1>8. CASE Replay(c)
    BY <1>8 DEF Replay, Enter
  <1>9. CASE OnSlot(c)
    BY <1>9 DEF OnSlot, Settle, Return
  <1>10. CASE Charge(c) \/ Send(c) \/ Retry(c)
    BY <1>10 DEF Charge, Send, Retry
  <1>11. CASE Answer(c)
    BY <1>11 DEF Answer, Settle, Return
  <1>12. CASE Refresh(c)
    BY <1>12 DEF Refresh, Return
  <1>13. CASE Promote(c) \/ Judge(c) \/ Move(c) \/ HandOut(c)
    BY <1>13 DEF Promote, Judge, Move, HandOut, Enter
  <1>14. QED
    BY <1>1, <1>2, <1>3, <1>4, <1>5, <1>6, <1>7, <1>8, <1>9, <1>10, <1>11, <1>12, <1>13
    DEF Step

\* The pipeline implements the contract of a request.
THEOREM Implements == Spec => ImplementsContract
  <1>1. ASSUME Init PROVE Contract!Init
    <2>1. call \in [Callers -> Calls]
      BY <1>1, InitTypeOK DEF TypeOK
    <2>2. QED
      BY <1>1, <2>1 DEF Init, Contract!Init
  <1>2. ASSUME TypeOK, SendsWithinBudget', [Next]_vars PROVE [Contract!Next]_(Contract!vars)
    <2> USE <1>2 DEF TypeOK
    <2>1. CASE \E c \in Callers : Begin(c) \/ Step(c)
      <3>1. PICK c \in Callers : Begin(c) \/ Step(c)
        BY <2>1
      <3>2. CASE Begin(c)
        <4>1. PICK r \in Workload[c] : call' = [call EXCEPT ![c] = r]
          BY <3>2 DEF Begin
        <4>2. r \in Calls
          BY PoolAssumption
        <4>3. pc[c] = "idle" /\ pc' = [pc EXCEPT ![c] = "loop"] /\ sends' = sends
          BY <3>2 DEF Begin, Goto, ledger
        <4>4. Contract!Issue(c)
          BY <4>1, <4>2, <4>3 DEF Contract!Issue
        <4>5. QED
          BY <4>4 DEF Contract!Next
      <3>3. CASE Step(c)
        <4>1. pc[c] # "idle" /\ call' = call
          BY <3>3, StepKinds
        <4>2. CASE pc' = [pc EXCEPT ![c] = "idle"] /\ sends' = [sends EXCEPT ![c] = 0]
          <5>1. Contract!Answer(c)
            BY <4>1, <4>2 DEF Contract!Answer
          <5>2. QED
            BY <5>1 DEF Contract!Next
        <4>3. CASE /\ pc' = [pc EXCEPT ![c] = "answer"]
                   /\ sends' = [sends EXCEPT ![c] = @ + 1]
          <5>1. sends[c] < Budget(call[c])
            <6>1. sends'[c] <= Budget(call'[c]) /\ sends'[c] = sends[c] + 1
              BY <4>3 DEF SendsWithinBudget
            <6>2. sends[c] \in Nat /\ Budget(call[c]) \in Nat
              BY PoolAssumption DEF Budget
            <6>3. QED
              BY <4>1, <6>1, <6>2
          <5>2. Contract!Transmit(c)
            BY <4>1, <4>3, <5>1 DEF Contract!Transmit
          <5>3. QED
            BY <5>2 DEF Contract!Next
        <4>4. CASE /\ \E label : label # "idle" /\ pc' = [pc EXCEPT ![c] = label]
                   /\ sends' = sends
          <5>1. \A d \in Callers : (pc'[d] # "idle") = (pc[d] # "idle")
            BY <4>1, <4>4
          <5>2. QED
            BY <4>1, <4>4, <5>1 DEF Contract!vars
        <4>5. CASE pc' = pc /\ sends' = sends
          BY <4>1, <4>5 DEF Contract!vars
        <4>6. QED
          BY <3>3, <4>2, <4>3, <4>4, <4>5, StepKinds
      <3>4. QED
        BY <3>1, <3>2, <3>3
    <2>2. CASE Tick \/ (\E k \in Keys : Lapse(k)) \/ LoginPrimary \/ UNCHANGED vars
      BY <2>2 DEF Tick, Lapse, LoginPrimary, vars, request, ledger, Contract!vars
    <2>3. QED
      BY <2>1, <2>2 DEF Next
  <1>3. QED
    BY <1>1, <1>2, Typing, BoundedSends, PTL DEF Spec, ImplementsContract, Contract!Spec
=============================================================================
