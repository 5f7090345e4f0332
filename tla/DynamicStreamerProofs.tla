------------------------ MODULE DynamicStreamerProofs ------------------------
(***************************************************************************)
(* The dynamic streamer's safety, for any callers, markets and number of   *)
(* connections.  Its properties speak of orderly operations, so the        *)
(* invariant first says that one caller at most is in one (Alone) and that *)
(* a task about to report its end is the latest (Reports), then what that  *)
(* caller may rely on while it waits.  That the running connection is the  *)
(* current one needs a streamer not started twice: a second start() opens  *)
(* a second connection and forgets the first.                              *)
(***************************************************************************)
EXTENDS DynamicStreamer, TLAPS

\* A caller that opens a connection has one, and one that is idle clears nothing.
Waits ==
  \A c \in Callers :
    /\ pc[c] = "opening" => mine[c] \in Conns /\ state[mine[c]] = "opening"
    /\ pc[c] = "idle" => ~clearing[c]
    /\ \A d \in Callers :
         pc[c] = "opening" /\ pc[d] = "opening" /\ mine[c] = mine[d] => c = d

Typed == TypeOK /\ Waits

\* Orderly operations: one caller at a time.
Alone == Orderly => \A c, d \in Callers : pc[c] # "idle" /\ pc[d] # "idle" => c = d

\* What the caller in an operation may rely on.
Opening ==
  Orderly =>
    \A c \in Callers :
      /\ pc[c] = "opening" => subs[mine[c]] = epics /\ latest = mine[c] /\ ~clearing[c]
      /\ clearing[c] => epics = {}

\* The write of a task that passed the check is about the latest connection.
Reports == Orderly => \A s \in Conns : state[s] = "reporting" => s = latest

\* The connection that runs.
OneRuns ==
  Orderly =>
    /\ ~Quiet => Running = {}
    /\ \A s \in Running : s = current /\ s = latest /\ is_connected /\ subs[s] = epics

\* The connection a connected streamer speaks of.
Speaks ==
  past = "clean" /\ is_connected =>
    /\ current \in Conns /\ state[current] \in {"live", "closing", "reporting"}
    /\ latest = current /\ ~stopped[current]
    /\ \A c \in Callers : pc[c] # "opening" /\ (pc[c] = "wait" => mine[c] = current)

\* The values of past.
Histories == {"clean", "expired", "raced", "overlapped"}

USE DEF Histories

StreamerInv == Typed /\ Alone /\ Opening /\ Reports /\ OneRuns /\ Speaks

\* Signal tells the current connection alone, if it is live.
LEMMA SignalFacts ==
  ASSUME TypeOK, Signal
  PROVE  /\ signalled' \in [Conns -> BOOLEAN]
         /\ \A s \in Conns : signalled'[s] = (signalled[s] \/ (s = current /\ state[s] = "live"))
  BY DEF TypeOK, Signal

\* An operation that begins in good order finds every caller idle, and one that claims a
\* connection no task about to report its end.
LEMMA BeginsAlone ==
  ASSUME StreamerInv, NEW c \in Callers, Begin(c), past' \in {Overlap, Raced(Overlap)}
  PROVE  /\ pc[c] = "idle" /\ past' \in Histories
         /\ Orderly' => Quiet /\ Orderly /\ past' = past
  BY DEF StreamerInv, Typed, TypeOK, Begin, Orderly, Overlap, Raced, Histories

LEMMA ClaimsAlone ==
  ASSUME NEW before \in Histories, past' = Raced(before), Orderly'
  PROVE  past' = before /\ \A s \in Conns : state[s] # "reporting"
  BY DEF Raced, Orderly, Histories

\* The three operations that change the list.
LEMMA ChangeInv ==
  ASSUME StreamerInv, NEW c \in Callers,
         (\E e \in Epics : Add(c, e) \/ Remove(c, e)) \/ Clear(c)
  PROVE  StreamerInv'
  <1>1. /\ Begin(c) /\ past' = Overlap /\ Reconnect(c) /\ epics' \subseteq Epics
        /\ UNCHANGED <<is_connected, current, latest, state, subs, stopped>>
        /\ \/ clearing' = clearing
           \/ epics' = {} /\ clearing' = [clearing EXCEPT ![c] = is_connected]
        BY DEF Add, Remove, Clear, StreamerInv, Typed, TypeOK
  <1>2. /\ pc[c] = "idle" /\ past' \in Histories
        /\ Orderly' => Quiet /\ Orderly /\ past' = past
        BY <1>1, BeginsAlone
  <1>3. CASE is_connected
    <2>1. Signal /\ pc' = [pc EXCEPT ![c] = "wait"] /\ mine' = [mine EXCEPT ![c] = current]
          BY <1>1, <1>3 DEF Reconnect
    <2>2. /\ signalled' \in [Conns -> BOOLEAN]
          /\ \A s \in Conns : signalled'[s] = (signalled[s] \/ (s = current /\ state[s] = "live"))
          BY <2>1, SignalFacts DEF StreamerInv, Typed
    <2>3. Typed'
          BY <1>1, <1>2, <2>1, <2>2 DEF StreamerInv, Typed, TypeOK, Waits
    <2>4. Alone' /\ Opening' /\ Reports'
          BY <1>1, <1>2, <2>1
          DEF StreamerInv, Typed, TypeOK, Waits, Alone, Opening, Reports, Quiet, Orderly
    <2>5. Orderly' => Running' = {}
          BY <1>1, <1>2, <2>2 DEF StreamerInv, OneRuns, Running
    <2>6. OneRuns'
          BY <2>5 DEF OneRuns
    <2>7. Speaks'
          BY <1>1, <1>2, <2>1 DEF StreamerInv, Typed, TypeOK, Speaks, Quiet, Orderly
    <2> QED BY <2>3, <2>4, <2>6, <2>7 DEF StreamerInv
  <1>4. CASE ~is_connected
    <2>1. UNCHANGED <<signalled, pc, mine>>
          BY <1>1, <1>4 DEF Reconnect
    <2>2. clearing' = clearing
          BY <1>1, <1>2, <1>4 DEF StreamerInv, Typed, TypeOK, Waits
    <2>3. Typed'
          BY <1>1, <1>2, <2>1, <2>2 DEF StreamerInv, Typed, TypeOK, Waits
    <2>4. Alone' /\ Opening' /\ Reports'
          BY <1>1, <1>2, <2>1, <2>2
          DEF StreamerInv, Typed, TypeOK, Waits, Alone, Opening, Reports, Quiet, Orderly
    <2>5. Orderly' => Running' = {}
          BY <1>1, <1>2, <1>4, <2>1 DEF StreamerInv, OneRuns, Running
    <2>6. OneRuns' /\ Speaks'
          BY <1>1, <1>4, <2>5 DEF OneRuns, Speaks
    <2> QED BY <2>3, <2>4, <2>6 DEF StreamerInv
  <1> QED BY <1>3, <1>4

\* A connection that is claimed is free, and the caller's.
LEMMA ClaimFacts ==
  ASSUME Typed, NEW c \in Callers, pc[c] # "opening", Claim(c)
  PROVE  \E s \in Conns :
           /\ state[s] = "gone" /\ s # current /\ \A d \in Callers : mine[d] # s
           /\ latest' = s
           /\ state' = [state EXCEPT ![s] = "opening"]
           /\ subs' = [subs EXCEPT ![s] = epics]
           /\ pc' = [pc EXCEPT ![c] = "opening"]
           /\ mine' = [mine EXCEPT ![c] = s]
  BY DEF Claim, Free

\* What a claim leaves of the invariant, when nothing runs and nothing is connected.
LEMMA ClaimInv ==
  ASSUME StreamerInv, NEW c \in Callers, pc[c] # "opening", Claim(c), epics # {},
         UNCHANGED <<epics, is_connected, current, signalled, clearing>>,
         stopped' \in [Conns -> BOOLEAN], past' \in Histories,
         Orderly' =>
           /\ Orderly /\ Running = {}
           /\ \A s \in Conns : state[s] # "reporting"
           /\ \A d \in Callers : d # c => pc[d] = "idle",
         past' = "clean" => ~is_connected
  PROVE  StreamerInv'
  <1>1. PICK s \in Conns :
          /\ state[s] = "gone" /\ s # current /\ \A d \in Callers : mine[d] # s
          /\ latest' = s
          /\ state' = [state EXCEPT ![s] = "opening"]
          /\ subs' = [subs EXCEPT ![s] = epics]
          /\ pc' = [pc EXCEPT ![c] = "opening"]
          /\ mine' = [mine EXCEPT ![c] = s]
        BY ClaimFacts DEF StreamerInv
  <1>2. TypeOK'
        BY <1>1 DEF StreamerInv, Typed, TypeOK, States
  <1>3. Waits'
        BY <1>1 DEF StreamerInv, Typed, TypeOK, Waits
  <1>4. Alone' /\ Opening'
        BY <1>1 DEF StreamerInv, Typed, TypeOK, Waits, Alone, Opening, Orderly
  <1>5. Orderly' => Running' = {}
        BY <1>1 DEF StreamerInv, Typed, TypeOK, Running
  <1>6. Reports'
        BY <1>1 DEF StreamerInv, Typed, TypeOK, Reports
  <1>7. OneRuns' /\ Speaks'
        BY <1>5 DEF OneRuns, Orderly, Speaks
  <1> QED BY <1>2, <1>3, <1>4, <1>6, <1>7 DEF StreamerInv, Typed

\* start() on a streamer that is not connected claims the next connection.
LEMMA StartInv ==
  ASSUME StreamerInv, NEW c \in Callers, Start(c), DoubleStart = FALSE
  PROVE  StreamerInv'
  <1>1. /\ Begin(c) /\ past' = Raced(Overlap) /\ ~is_connected /\ epics # {} /\ Claim(c)
        /\ UNCHANGED <<epics, is_connected, current, signalled, stopped, clearing>>
        BY DEF Start
  <1>2. /\ pc[c] = "idle" /\ past' \in Histories
        /\ Orderly' => Quiet /\ Orderly /\ past' = past
        BY <1>1, BeginsAlone
  <1>3. Orderly' => Running = {}
        BY <1>1, <1>2 DEF StreamerInv, OneRuns
  <1>4. stopped' \in [Conns -> BOOLEAN]
        BY <1>1 DEF StreamerInv, Typed, TypeOK
  <1>5. Orderly' =>
          /\ Orderly /\ Running = {}
          /\ \A s \in Conns : state[s] # "reporting"
          /\ \A d \in Callers : d # c => pc[d] = "idle"
    <2>1. Overlap \in Histories BY DEF StreamerInv, Typed, TypeOK, Overlap, Histories
    <2> QED BY <1>1, <1>2, <1>3, <2>1, ClaimsAlone DEF Quiet
  <1> QED BY <1>1, <1>2, <1>4, <1>5, ClaimInv

\* disconnect() signals the connection that is current and leaves the others as they are.
LEMMA DisconnectInv ==
  ASSUME StreamerInv, NEW c \in Callers, Disconnect(c)
  PROVE  StreamerInv'
  <1>1. /\ Begin(c) /\ past' = Overlap /\ Signal /\ is_connected' = FALSE
        /\ UNCHANGED <<epics, current, latest, state, subs, stopped, pc, mine, clearing>>
        BY DEF Disconnect, calls
  <1>2. /\ pc[c] = "idle" /\ past' \in Histories
        /\ Orderly' => Quiet /\ Orderly /\ past' = past
        BY <1>1, BeginsAlone
  <1>3. /\ signalled' \in [Conns -> BOOLEAN]
        /\ \A s \in Conns : signalled'[s] = (signalled[s] \/ (s = current /\ state[s] = "live"))
        BY <1>1, SignalFacts DEF StreamerInv, Typed
  <1>4. Typed'
        BY <1>1, <1>2, <1>3 DEF StreamerInv, Typed, TypeOK, Waits
  <1>5. Alone' /\ Opening' /\ Reports'
        BY <1>1, <1>2 DEF StreamerInv, Alone, Opening, Reports, Orderly
  <1>6. Orderly' => Running' = {}
        BY <1>1, <1>2, <1>3 DEF StreamerInv, OneRuns, Running
  <1>7. OneRuns' /\ Speaks'
        BY <1>1, <1>6 DEF OneRuns, Speaks
  <1> QED BY <1>4, <1>5, <1>7 DEF StreamerInv

\* reconnect goes on.
LEMMA ReconnectedInv ==
  ASSUME StreamerInv, NEW c \in Callers, Reconnected(c)
  PROVE  StreamerInv'
  <1>1. /\ pc[c] = "wait" /\ UNCHANGED <<epics, current, signalled>>
        /\ stopped' \in [Conns -> BOOLEAN]
        /\ \A s \in Conns : stopped'[s] => stopped[s]
        BY DEF Reconnected, StreamerInv, Typed, TypeOK
  <1>2. PICK before \in Histories :
          /\ Continue(c, before)
          /\ before \in {"clean", "expired"} => Orderly
          /\ before = "clean" => past = "clean" /\ stopped[mine[c]]
        BY DEF Reconnected, StreamerInv, Typed, TypeOK, Orderly
  <1>3. /\ past' \in Histories
        /\ Orderly' => Orderly /\ past' = before
        /\ past' = "clean" => past = "clean" /\ stopped[mine[c]]
        BY <1>2 DEF Continue, Raced, Orderly
  <1>4. past' = "clean" => ~is_connected
        BY <1>3, <1>1 DEF StreamerInv, Speaks
  <1>5. Orderly' => Running = {} /\ \A d \in Callers : d # c => pc[d] = "idle"
        BY <1>3, <1>1 DEF StreamerInv, OneRuns, Alone, Quiet
  <1>6. CASE epics # {}
    <2>1. Claim(c) /\ past' = Raced(before) /\ UNCHANGED <<is_connected, clearing>>
          BY <1>2, <1>6 DEF Continue
    <2>2. Orderly' =>
            /\ Orderly /\ Running = {}
            /\ \A s \in Conns : state[s] # "reporting"
            /\ \A d \in Callers : d # c => pc[d] = "idle"
          BY <1>3, <1>5, <2>1, ClaimsAlone
    <2> QED BY <1>3, <1>1, <1>4, <1>6, <2>1, <2>2, ClaimInv
  <1>7. CASE epics = {}
    <2>1. /\ is_connected' = (is_connected /\ ~clearing[c]) /\ Finish(c)
          /\ UNCHANGED <<latest, state, subs>>
          BY <1>2, <1>7 DEF Continue
    <2>2. TypeOK'
          BY <1>3, <1>1, <2>1 DEF Finish, StreamerInv, Typed, TypeOK
    <2>3. Waits'
          BY <1>1, <2>1 DEF Finish, StreamerInv, Typed, TypeOK, Waits
    <2>4. Alone' /\ Opening' /\ Reports'
          BY <1>3, <1>1, <2>1
          DEF Finish, StreamerInv, Typed, TypeOK, Alone, Opening, Reports
    <2>5. Orderly' => Running' = {}
          BY <1>1, <1>5, <2>1 DEF Running
    <2>6. OneRuns' /\ Speaks'
          BY <1>4, <2>1, <2>5 DEF StreamerInv, Typed, TypeOK, OneRuns, Speaks
    <2> QED BY <2>2, <2>3, <2>4, <2>6 DEF StreamerInv, Typed
  <1> QED BY <1>6, <1>7

\* start_internal ends, with a connection or without.
LEMMA OpenedInv ==
  ASSUME StreamerInv, NEW c \in Callers, Opened(c)
  PROVE  StreamerInv'
  <1>1. /\ pc[c] = "opening" /\ Finish(c) /\ UNCHANGED <<epics, latest, signalled>>
        /\ mine[c] \in Conns /\ state[mine[c]] = "opening"
        BY DEF Opened, StreamerInv, Typed, Waits
  <1>2. Orderly =>
          /\ \A d \in Callers : d # c => pc[d] = "idle"
          /\ Running = {} /\ subs[mine[c]] = epics /\ latest = mine[c] /\ ~clearing[c]
        BY <1>1 DEF StreamerInv, Alone, Opening, OneRuns, Quiet
  <1>3. CASE /\ state' = [state EXCEPT ![mine[c]] = "live"]
             /\ stopped' = [stopped EXCEPT ![mine[c]] = FALSE]
             /\ current' = mine[c]
             /\ is_connected' = ~clearing[c]
             /\ past' = IF past = "expired" THEN "clean" ELSE past
             /\ UNCHANGED subs
    <2>1. TypeOK'
          BY <1>1, <1>3 DEF Finish, StreamerInv, Typed, TypeOK, States
    <2>2. Waits'
          BY <1>1, <1>3 DEF Finish, StreamerInv, Typed, TypeOK, Waits
    <2>3. Orderly' => Orderly
          BY <1>3 DEF Orderly
    <2>4. Alone' /\ Opening' /\ Reports'
          BY <1>1, <1>2, <1>3, <2>3
          DEF Finish, StreamerInv, Typed, TypeOK, Waits, Alone, Opening, Reports
    <2>5. Orderly' => Quiet' /\ Running' \subseteq {mine[c]}
          BY <1>1, <1>2, <1>3, <2>3 DEF Finish, StreamerInv, Typed, TypeOK, Running, Quiet
    <2>6. OneRuns'
          BY <1>1, <1>2, <1>3, <2>3, <2>5 DEF OneRuns
    <2>7. Speaks'
      <3> SUFFICES ASSUME past' = "clean", is_connected'
                   PROVE  /\ current' \in Conns /\ state'[current'] \in {"live", "closing", "reporting"}
                          /\ latest' = current' /\ ~stopped'[current']
                          /\ \A d \in Callers :
                               pc'[d] # "opening" /\ (pc'[d] = "wait" => mine'[d] = current')
          BY DEF Speaks
      <3>1. Orderly' BY DEF Orderly
      <3> QED BY <1>1, <1>2, <1>3, <2>3, <2>5, <3>1 DEF StreamerInv, Typed, TypeOK, Quiet
    <2> QED BY <2>1, <2>2, <2>4, <2>6, <2>7 DEF StreamerInv, Typed
  <1>4. CASE /\ state' = [state EXCEPT ![mine[c]] = "gone"]
             /\ subs' = [subs EXCEPT ![mine[c]] = {}]
             /\ UNCHANGED <<stopped, current, is_connected, past>>
    <2>1. TypeOK'
          BY <1>1, <1>4 DEF Finish, StreamerInv, Typed, TypeOK, States
    <2>2. Waits'
          BY <1>1, <1>4 DEF Finish, StreamerInv, Typed, TypeOK, Waits
    <2>3. Alone' /\ Opening'
          BY <1>1, <1>2, <1>4
          DEF Finish, StreamerInv, Typed, TypeOK, Waits, Alone, Opening, Orderly
    <2>4. Reports'
          BY <1>1, <1>4 DEF StreamerInv, Typed, TypeOK, Reports, Orderly
    <2>5. Orderly' => Running' = {}
          BY <1>1, <1>2, <1>4 DEF StreamerInv, Typed, TypeOK, Running, Orderly
    <2>6. OneRuns' /\ Speaks'
          BY <1>1, <1>4, <2>5 DEF StreamerInv, OneRuns, Speaks
    <2> QED BY <2>1, <2>2, <2>3, <2>6, <2>4 DEF StreamerInv, Typed
  <1> QED BY <1>3, <1>4 DEF Opened

\* The connections' tasks.
LEMMA ConnectionInv ==
  ASSUME StreamerInv, NEW s \in Conns, ShutDown(s) \/ Lost(s) \/ Check(s) \/ Report(s) \/ Confirm(s)
  PROVE  StreamerInv'
  <1>1. CASE Leaves(s)
    <2> USE <1>1 DEF Leaves, Moves, calls
    <2>1. TypeOK' BY DEF StreamerInv, Typed, TypeOK, States
    <2>2. Waits' BY DEF StreamerInv, Typed, TypeOK, Waits
    <2>3. Running' \subseteq Running BY DEF StreamerInv, Typed, TypeOK, Running
    <2>4. Alone' /\ Opening' /\ Reports' /\ OneRuns'
          BY <2>3 DEF StreamerInv, Typed, TypeOK, Alone, Opening, Reports, OneRuns, Orderly, Quiet
    <2>5. Speaks' BY DEF StreamerInv, Typed, TypeOK, Speaks
    <2> QED BY <2>1, <2>2, <2>4, <2>5 DEF StreamerInv, Typed
  <1>2. CASE Check(s)
    <2> USE <1>2 DEF Check, Moves, calls
    <2>1. TypeOK' BY DEF StreamerInv, Typed, TypeOK, States
    <2>2. Waits' BY DEF StreamerInv, Typed, TypeOK, Waits
    <2>3. Running' = Running /\ s \notin Running BY DEF StreamerInv, Typed, TypeOK, Running
    <2>4. Alone' /\ Reports' BY DEF StreamerInv, Typed, TypeOK, Alone, Reports, Orderly
    <2>5. Opening'
      <3>1. \A c \in Callers : pc[c] = "opening" => mine[c] # s BY DEF StreamerInv, Typed, Waits
      <3> QED BY <3>1 DEF StreamerInv, Typed, TypeOK, Opening, Orderly
    <2>6. OneRuns'
      <3>1. \A r \in Running : r # s /\ r \in Conns /\ subs'[r] = subs[r]
            BY <2>3 DEF StreamerInv, Typed, TypeOK, Running
      <3> QED BY <2>3, <3>1 DEF StreamerInv, OneRuns, Orderly, Quiet
    <2>7. Speaks' BY DEF StreamerInv, Typed, TypeOK, Speaks
    <2> QED BY <2>1, <2>2, <2>4, <2>5, <2>6, <2>7 DEF StreamerInv, Typed
  <1>3. CASE Report(s)
    <2> USE <1>3 DEF Report, Moves, calls
    <2>1. TypeOK' BY DEF StreamerInv, Typed, TypeOK, States
    <2>2. Waits' BY DEF StreamerInv, Typed, TypeOK, Waits
    <2>3. Running' = Running BY DEF StreamerInv, Typed, TypeOK, Running
    <2>4. Alone' /\ Opening' /\ Reports'
          BY DEF StreamerInv, Typed, TypeOK, Alone, Opening, Reports, Orderly
    <2>5. Orderly => Running = {}
      <3>1. Orderly => s = latest BY DEF StreamerInv, Reports
      <3>2. s \notin Running BY DEF Running
      <3> QED BY <3>1, <3>2 DEF StreamerInv, OneRuns
    <2>6. OneRuns' /\ Speaks' BY <2>3, <2>5 DEF OneRuns, Speaks, Orderly
    <2> QED BY <2>1, <2>2, <2>4, <2>6 DEF StreamerInv, Typed
  <1>4. CASE Confirm(s)
    <2> USE <1>4 DEF Confirm, Moves, calls
    <2>1. TypeOK' BY DEF StreamerInv, Typed, TypeOK, States
    <2>2. Waits' BY DEF StreamerInv, Typed, TypeOK, Waits
    <2>3. Running' = Running BY DEF StreamerInv, Typed, TypeOK, Running
    <2>4. Alone' /\ Opening' /\ Reports' /\ OneRuns'
          BY <2>3 DEF StreamerInv, Typed, TypeOK, Alone, Opening, Reports, OneRuns, Orderly, Quiet
    <2>5. Speaks' BY DEF StreamerInv, Typed, TypeOK, Speaks
    <2> QED BY <2>1, <2>2, <2>4, <2>5 DEF StreamerInv, Typed
  <1> QED BY <1>1, <1>2, <1>3, <1>4 DEF ShutDown, Lost

\* A new streamer has no connection.
LEMMA StreamerInit == Init => StreamerInv
  <1> SUFFICES ASSUME Init
               PROVE  StreamerInv
      OBVIOUS
  <1>1. Typed BY DEF Init, Typed, TypeOK, Waits, States
  <1>2. Alone /\ Opening /\ Reports BY DEF Init, Alone, Opening, Reports
  <1>3. OneRuns /\ Speaks BY DEF Init, OneRuns, Speaks, Running
  <1> QED BY <1>1, <1>2, <1>3 DEF StreamerInv

\* The invariant is inductive.
LEMMA StreamerNext == DoubleStart = FALSE /\ StreamerInv /\ [Next]_vars => StreamerInv'
  <1> SUFFICES ASSUME DoubleStart = FALSE, StreamerInv, [Next]_vars
               PROVE  StreamerInv'
      OBVIOUS
  <1>1. CASE UNCHANGED vars
        BY <1>1
        DEF vars, connections, calls, StreamerInv, Typed, TypeOK, Waits, Alone, Opening, Reports,
            OneRuns, Speaks, Orderly, Quiet, Running
  <1> QED BY <1>1, ChangeInv, StartInv, DisconnectInv, ReconnectedInv, OpenedInv, ConnectionInv
          DEF Next

\* The invariant holds of every behaviour in which start() is not called twice.
LEMMA StreamerHolds == DoubleStart = FALSE /\ Spec => []StreamerInv
  <1>1. CASE DoubleStart = FALSE
    <2>1. StreamerInv /\ [Next]_vars => StreamerInv' BY <1>1, StreamerNext
    <2> QED BY <2>1, StreamerInit, PTL DEF Spec
  <1>2. CASE DoubleStart # FALSE
        BY <1>2
  <1> QED BY <1>1, <1>2

\* Every variable keeps its type, and the stored pair belongs to a connection, for any
\* callers, markets and number of connections.
THEOREM Typing == DoubleStart = FALSE /\ Spec => []TypeOK
  <1>1. StreamerInv => TypeOK BY DEF StreamerInv, Typed
  <1> QED BY <1>1, StreamerHolds, PTL

\* Between orderly operations, which do not overlap and claim no connection while an earlier
\* task is about to report its end, what runs is the current connection, known to the streamer
\* and subscribed to the list as it is: through failed starts, lost sessions and
\* confirmations that came too late.
THEOREM Current == DoubleStart = FALSE /\ Spec => []RunningIsCurrent
  <1>1. StreamerInv => RunningIsCurrent
        BY DEF StreamerInv, OneRuns, RunningIsCurrent, Orderly
  <1> QED BY <1>1, StreamerHolds, PTL

\* A streamer that says it is connected has a connection, live or ending, as long as the
\* operations were orderly and no reconnect gave up waiting for the old one.
THEOREM Connected == DoubleStart = FALSE /\ Spec => []ConnectedIsTrue
  <1>1. StreamerInv => ConnectedIsTrue
        BY DEF StreamerInv, Speaks, ConnectedIsTrue
  <1> QED BY <1>1, StreamerHolds, PTL
=============================================================================
