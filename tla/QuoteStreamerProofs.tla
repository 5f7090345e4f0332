------------------------- MODULE QuoteStreamerProofs -------------------------
(***************************************************************************)
(* The quote streamer's safety, for any callers, instruments and capacity. *)
(*                                                                         *)
(* Control says who holds the mutex, and where the tasks that run are to   *)
(* be found while it is held.  Order says that the instruments in the      *)
(* order of their use are those of the map, each once, and how many there  *)
(* are; it needs Control, which does without it.                           *)
(***************************************************************************)
EXTENDS QuoteStreamer, FiniteSetTheorems, SequenceTheorems, TLAPS

Types ==
  /\ state \in {"idle", "open", "closed"}
  /\ events \in {"running", "ended"}
  /\ entries \in [Epics -> Tasks \cup {None}]
  /\ lock \in Callers \cup {None}
  /\ task \in [Tasks -> {"running", "aborted", "ended"}]
  /\ told \subseteq Tasks
  /\ events_told \in BOOLEAN
  /\ pc \in [Callers -> Labels]
  /\ asked \in [Callers -> Epics \cup {None}]
  /\ joins \in [Callers -> SUBSET Tasks]
  /\ since \in [Callers -> SUBSET Epics]
  /\ raced \in BOOLEAN

Empty == \A e \in Epics : entries[e] = None

\* What a caller may rely on while it waits.
Holds ==
  \A c \in Callers :
    /\ pc[c] \in {"opening", "subscribing", "joining"} => lock = c
    /\ pc[c] \in {"lock", "opening", "subscribing", "waiting"} => asked[c] \in Epics
    /\ pc[c] # "joining" => joins[c] = {}
    /\ pc[c] \in {"opening", "joining"} => Empty
    /\ pc[c] = "opening" => state = "idle"
    /\ pc[c] = "subscribing" => state = "open" /\ entries[asked[c]] = None

\* A closed streamer has nothing; the event task belongs to an open session.
Sessions ==
  /\ state = "closed" => Empty
  /\ events = "running" => state = "open"

Control == Types /\ Holds /\ Sessions /\ TasksOwned /\ ClosedIsSilent

\* Aborting tasks stops those that run among them, and starts none.
LEMMA AbortStops ==
  ASSUME Types, NEW ts, Abort(ts)
  PROVE  /\ task' \in [Tasks -> {"running", "aborted", "ended"}]
         /\ Running' = Running \ ts
  BY DEF Types, Abort, Running

\* Noting a request keeps the types of the history.
LEMMA NotedType ==
  ASSUME Types, NEW c \in Callers, asked[c] \in Epics, Noted(c)
  PROVE  since' \in [Callers -> SUBSET Epics]
  <1>1. \A d \in Callers : since[d] \cup ({asked[c]} \ {asked[d]}) \in SUBSET Epics
        BY DEF Types
  <1> QED BY <1>1 DEF Types, Noted

\* Taking the mutex keeps Control, in each of the four ways.
LEMMA TakeControl ==
  ASSUME Control, NEW c \in Callers, Take(c)
  PROVE  Control'
  <1>1. /\ pc[c] = "lock" /\ lock = None /\ UNCHANGED joins
        /\ asked[c] \in Epics /\ joins[c] = {}
        BY DEF Take, Control, Holds
  <1>2. \A d \in Callers : pc[d] \notin {"opening", "subscribing", "joining"} /\ joins[d] = {}
        BY <1>1, QuoteAssumption DEF Control, Holds
  <1>3. \A t \in Running : \E e \in Epics : entries[e] = t
        BY <1>2 DEF Control, TasksOwned
  <1>4. CASE Refuse(c)
    <2>1. Types'
          BY <1>1, <1>4 DEF Refuse, Release, Goto, Control, Types, Labels, streamer, tasks, history
    <2>2. Holds' /\ Sessions'
          BY <1>1, <1>2, <1>4, QuoteAssumption
          DEF Refuse, Release, Goto, Control, Types, Holds, Sessions, Empty, streamer, tasks,
              history
    <2>3. TasksOwned' /\ ClosedIsSilent'
          BY <1>1, <1>4
          DEF Refuse, Control, TasksOwned, ClosedIsSilent, Running, streamer, tasks, history
    <2> QED BY <2>1, <2>2, <2>3 DEF Control
  <1>5. CASE Reopen(c)
    <2>1. /\ task' \in [Tasks -> {"running", "aborted", "ended"}]
          /\ Running' = Running \ {entries[e] : e \in Epics}
          BY <1>5, AbortStops DEF Reopen, Control
    <2>2. Running' = {}
          BY <1>3, <2>1
    <2>3. Types'
          BY <1>1, <1>5, <2>1 DEF Reopen, Goto, Control, Types, Labels, history
    <2>4. Holds' /\ Sessions'
          BY <1>1, <1>2, <1>5, QuoteAssumption
          DEF Reopen, Goto, Control, Types, Holds, Sessions, Empty
    <2>5. TasksOwned' /\ ClosedIsSilent'
          BY <1>5, <2>2 DEF Reopen, TasksOwned, ClosedIsSilent
    <2> QED BY <2>3, <2>4, <2>5 DEF Control
  <1>6. CASE Find(c)
    <2>1. Types'
          BY <1>1, <1>6, NotedType DEF Find, Goto, Control, Types, Labels, tasks
    <2>2. Holds' /\ Sessions'
          BY <1>1, <1>2, <1>6 DEF Find, Goto, Control, Types, Holds, Sessions, Empty, tasks
    <2>3. TasksOwned' /\ ClosedIsSilent'
          BY <1>1, <1>6 DEF Find, Control, TasksOwned, ClosedIsSilent, Running, tasks
    <2> QED BY <2>1, <2>2, <2>3 DEF Control
  <1>7. CASE MakeRoom(c)
    <2> DEFINE others  == Without(asked[c])
               victims == {others[i] : i \in 1 .. Surplus(Len(others))}
    <2>1. /\ Drop({entries[e] : e \in victims})
          /\ entries' = [e \in Epics |-> IF e = asked[c] \/ e \in victims THEN None ELSE entries[e]]
          /\ Alive /\ entries[asked[c]] \notin Running /\ lock' = c
          /\ Goto(c, "subscribing") /\ Noted(c)
          /\ UNCHANGED <<state, events, told, events_told, asked, raced>>
          BY <1>7 DEF MakeRoom
    <2> HIDE DEF victims
    <2>2. /\ task' \in [Tasks -> {"running", "aborted", "ended"}]
          /\ Running' = Running \ {entries[e] : e \in victims}
          BY <2>1, AbortStops DEF Drop, Control
    <2>3. Types'
          BY <1>1, <2>1, <2>2, NotedType DEF Goto, Control, Types, Labels
    <2>4. Holds' /\ Sessions'
          BY <1>1, <1>2, <2>1, QuoteAssumption
          DEF Alive, Goto, Control, Types, Holds, Sessions, Empty
    <2>5. TasksOwned'
      <3> SUFFICES ASSUME NEW t \in Running'
                   PROVE  \E e \in Epics : entries'[e] = t
          BY DEF TasksOwned
      <3>1. PICK e \in Epics : entries[e] = t
            BY <1>3, <2>2
      <3>2. e \notin victims /\ e # asked[c]
            BY <2>1, <2>2, <3>1
      <3> QED BY <2>1, <3>1, <3>2
    <2>6. ClosedIsSilent'
          BY <2>1 DEF Alive, ClosedIsSilent
    <2> QED BY <2>3, <2>4, <2>5, <2>6 DEF Control
  <1> QED BY <1>4, <1>5, <1>6, <1>7 DEF Take

\* The steps of a caller outside the mutex, and those that hold it.
LEMMA CallControl ==
  ASSUME Control, NEW c \in Callers,
         \/ \E e \in Epics : Quote(c, e)
         \/ Shutdown(c) \/ CloseLocked(c) \/ Work(c)
  PROVE  Control'
  <1>1. CASE \E e \in Epics : Quote(c, e)
        BY <1>1
        DEF Quote, Goto, streamer, tasks, Control, Types, Labels, Holds, Empty, Sessions,
            TasksOwned, ClosedIsSilent, Running
  <1>2. CASE Shutdown(c)
        BY <1>2
        DEF Shutdown, Goto, Reached, streamer, Control, Types, Labels, Holds, Empty, Sessions,
            TasksOwned, ClosedIsSilent, Running
  <1>3. CASE CloseLocked(c)
    <2> USE <1>3 DEF CloseLocked, Goto, Control, tasks, history
    <2>1. Types'
          BY DEF Types, Labels
    <2>2. Empty'
          BY DEF Empty
    <2>3. Holds' /\ Sessions'
          BY <2>2, QuoteAssumption DEF Types, Holds, Sessions
    <2>4. TasksOwned'
      <3> SUFFICES ASSUME NEW t \in Running
                   PROVE  \E d \in Callers : t \in joins'[d]
          BY DEF TasksOwned, Running
      <3>1. CASE \E e \in Epics : entries[e] = t
            BY <3>1, QuoteAssumption DEF Types, Running
      <3>2. CASE \E d \in Callers : t \in joins[d]
            BY <3>2 DEF Types, Holds
      <3> QED BY <3>1, <3>2 DEF TasksOwned
    <2>5. ClosedIsSilent'
          BY DEF ClosedIsSilent, Running
    <2> QED BY <2>1, <2>3, <2>4, <2>5
  <1>4. CASE Opened(c)
    <2> USE <1>4 DEF Opened, Control
    <2>1. pc[c] = "opening" /\ lock = c /\ state = "idle" /\ Empty /\ asked[c] \in Epics
          BY DEF Holds
    <2>2. Types'
          BY <2>1, NotedType DEF Goto, Release, Types, Labels, tasks
    <2>3. \A d \in Callers \ {c} : pc[d] \notin {"opening", "subscribing", "joining"}
          BY <2>1 DEF Holds
    <2>4. Holds' /\ Sessions'
          BY <2>1, <2>3 DEF Goto, Release, Types, Holds, Sessions, Empty, tasks
    <2>5. TasksOwned' /\ ClosedIsSilent'
          BY <2>1 DEF Goto, Release, TasksOwned, ClosedIsSilent, Running, tasks
    <2> QED BY <2>2, <2>4, <2>5
  <1>5. CASE Subscribed(c)
    <2> USE <1>5 DEF Subscribed, Control
    <2>1. pc[c] = "subscribing" /\ lock = c /\ state = "open" /\ asked[c] \in Epics
          /\ entries[asked[c]] = None
          BY DEF Holds
    <2>2. Types'
          BY <2>1, SMTT(20) DEF Goto, Release, Types, Labels, Free, history
    <2>3. \A d \in Callers \ {c} : pc[d] \notin {"opening", "subscribing", "joining"}
          BY <2>1 DEF Holds
    <2>4. Holds' /\ Sessions'
          BY <2>1, <2>3 DEF Goto, Release, Types, Holds, Sessions, Empty, history
    <2>5. TasksOwned'
      <3>1. CASE Release(c) /\ UNCHANGED <<task, entries, last_used>>
            BY <3>1 DEF TasksOwned, Running
      <3>2. ASSUME NEW t \in Free, task' = [task EXCEPT ![t] = "running"],
                   entries' = [entries EXCEPT ![asked[c]] = t]
            PROVE  TasksOwned'
        <4> SUFFICES ASSUME NEW r \in Running'
                     PROVE  \/ \E e \in Epics : entries'[e] = r
                            \/ \E d \in Callers : r \in joins'[d]
            BY DEF TasksOwned
        <4>1. CASE r = t BY <2>1, <3>2, <4>1 DEF Types
        <4>2. CASE r # t
          <5>1. r \in Running BY <3>2, <4>2 DEF Types, Running
          <5>2. CASE \E d \in Callers : r \in joins[d] BY <5>2
          <5>3. ASSUME NEW e \in Epics, entries[e] = r
                PROVE  entries'[e] = r
                BY <2>1, <3>2, <5>1, <5>3, QuoteAssumption DEF Types, Running
          <5> QED BY <5>1, <5>2, <5>3 DEF TasksOwned
        <4> QED BY <4>1, <4>2
      <3> QED BY <3>1, <3>2
    <2>6. ClosedIsSilent'
          BY <2>1 DEF ClosedIsSilent
    <2> QED BY <2>2, <2>4, <2>5, <2>6
  <1>6. CASE Answered(c)
        BY <1>6
        DEF Answered, Goto, streamer, tasks, Control, Types, Labels, Holds, Empty, Sessions,
            TasksOwned, ClosedIsSilent, Running
  <1>7. CASE Closed(c)
    <2> USE <1>7 DEF Closed, Release, Goto, Control, tasks, history
    <2>1. pc[c] = "joining" /\ lock = c /\ Empty
          BY DEF Holds
    <2>2. Types'
          BY DEF Types, Labels
    <2>3. \A d \in Callers \ {c} :
            pc[d] \notin {"opening", "subscribing", "joining"} /\ joins[d] = {}
          BY <2>1 DEF Holds
    <2>4. Running = {}
          BY <2>1, <2>3, QuoteAssumption DEF Joined, TasksOwned, Empty, Running
    <2>5. events = "ended"
          BY DEF Joined, Sessions, Types
    <2>6. Holds' /\ Sessions'
          BY <2>1, <2>3, <2>5 DEF Types, Holds, Sessions, Empty
    <2>7. TasksOwned' /\ ClosedIsSilent'
          BY <2>4, <2>5 DEF TasksOwned, ClosedIsSilent, Running
    <2> QED BY <2>2, <2>6, <2>7
  <1> QED BY <1>1, <1>2, <1>3, <1>4, <1>5, <1>6, <1>7 DEF Work

\* The steps of the tasks: they end, and none begins.
LEMMA TaskControl ==
  ASSUME Control,
         \/ \E t \in Tasks : Stop(t) \/ EndsByItself(t) \/ Unsubscribe(t)
         \/ StopEvents \/ SessionLost
  PROVE  Control'
  <1>1. ASSUME NEW t \in Tasks, End(t)
        PROVE  Control'
        BY <1>1
        DEF End, streamer, history, Control, Types, Holds, Empty, Sessions, TasksOwned,
            ClosedIsSilent, Running
  <1>2. CASE EndEvents
        BY <1>2
        DEF EndEvents, history, Control, Types, Holds, Empty, Sessions, TasksOwned,
            ClosedIsSilent, Running
  <1> QED BY <1>1, <1>2 DEF Stop, EndsByItself, Unsubscribe, StopEvents, SessionLost

\* A streamer begins idle.
LEMMA InitControl == Init => Control
  <1> SUFFICES ASSUME Init
               PROVE  Control
      OBVIOUS
  <1>1. Types
        BY DEF Init, Types, Labels
  <1>2. Holds /\ Sessions
        BY DEF Init, Holds, Sessions, Empty
  <1>3. TasksOwned /\ ClosedIsSilent
        BY DEF Init, TasksOwned, ClosedIsSilent, Running
  <1> QED BY <1>1, <1>2, <1>3 DEF Control

\* Control is inductive.
LEMMA NextControl == Control /\ [Next]_vars => Control'
  <1> SUFFICES ASSUME Control, [Next]_vars
               PROVE  Control'
      OBVIOUS
  <1>1. CASE Next
        BY <1>1, TakeControl, CallControl, TaskControl DEF Next
  <1>2. CASE UNCHANGED vars
        BY <1>2
        DEF vars, streamer, tasks, history, Control, Types, Holds, Empty, Sessions, TasksOwned,
            ClosedIsSilent, Running
  <1> QED BY <1>1, <1>2

\* A task that runs has an owner who will stop it, whatever requests, closes, evictions
\* and lost sessions overlap.
THEOREM Owned == Spec => []TasksOwned
  <1>1. Control => TasksOwned BY DEF Control
  <1> QED BY <1>1, InitControl, NextControl, PTL DEF Spec

\* Once closed, nothing the streamer spawned runs, for good.
THEOREM Silent == Spec => []ClosedIsSilent
  <1>1. Control => ClosedIsSilent BY DEF Control
  <1> QED BY <1>1, InitControl, NextControl, PTL DEF Spec
-----------------------------------------------------------------------------
(* The order of use, and the capacity.                                     *)

Places == 1 .. Len(last_used)

\* The order lists the instruments of the map, each once.
Listed ==
  /\ last_used \in Seq(Epics)
  /\ \A i, j \in Places : last_used[i] = last_used[j] => i = j
  /\ \A i \in Places : entries[last_used[i]] # None
  /\ \A e \in Epics : entries[e] # None => \E i \in Places : last_used[i] = e

\* No more of them than IG grants, and room for the one being subscribed.
Room ==
  /\ Len(last_used) <= Capacity
  /\ \A c \in Callers : pc[c] = "subscribing" => Len(last_used) < Capacity

Order == Listed /\ Room /\ WithinCapacity

\* A sequence in the order of use.
InOrder(w) ==
  \A i, j \in 1 .. Len(w) : i < j =>
    \E p, q \in Places : p < q /\ last_used[p] = w[i] /\ last_used[q] = w[j]

\* What Without makes of the order.
LEMMA WithoutFacts ==
  ASSUME Types, Listed, NEW e \in Epics, NEW w, w = Without(e)
  PROVE  /\ w \in Seq(Epics)
         /\ Len(w) = IF entries[e] = None THEN Len(last_used) ELSE Len(last_used) - 1
         /\ \A i, j \in 1 .. Len(w) : w[i] = w[j] => i = j
         /\ \A i \in 1 .. Len(w) : w[i] # e /\ entries[w[i]] # None
         /\ \A f \in Epics \ {e} : entries[f] # None => \E i \in 1 .. Len(w) : w[i] = f
         /\ InOrder(w)
  <1>1. CASE entries[e] = None
    <2>1. w = last_used BY <1>1 DEF Without
    <2> QED BY <1>1, <2>1 DEF Listed, Places, InOrder
  <1>2. CASE entries[e] # None
    <2> DEFINE n == Len(last_used)
               place == CHOOSE i \in 1 .. n : last_used[i] = e
               before == SubSeq(last_used, 1, place - 1)
               after == SubSeq(last_used, place + 1, n)
    <2>1. n \in Nat /\ last_used \in [1 .. n -> Epics]
          BY DEF Listed
    <2>2. place \in 1 .. n /\ last_used[place] = e
          BY <1>2 DEF Listed, Places
    <2>3. w = before \o after
          BY <1>2 DEF Without
    <2> HIDE DEF place
    <2>4. before \in Seq(Epics) /\ Len(before) = place - 1
          /\ \A i \in 1 .. place - 1 : before[i] = last_used[i]
          BY <2>1, <2>2, SubSeqProperties
    <2>5. after \in Seq(Epics) /\ Len(after) = n - place
          /\ \A i \in 1 .. n - place : after[i] = last_used[place + i]
      <3>1. \A i \in place + 1 .. n : last_used[i] \in Epics
            BY <2>1, <2>2
      <3>2. /\ after \in Seq(Epics)
            /\ Len(after) = IF place + 1 <= n THEN n - (place + 1) + 1 ELSE 0
            /\ \A i \in 1 .. n - (place + 1) + 1 : after[i] = last_used[place + 1 + i - 1]
            BY <2>1, <2>2, <3>1, SubSeqProperties
      <3>3. Len(after) = n - place
        <4> HIDE DEF after, n
        <4>1. CASE place + 1 <= n BY <2>1, <2>2, <3>2, <4>1
        <4>2. CASE ~(place + 1 <= n)
          <5>1. place = n BY <2>1, <2>2, <4>2
          <5>2. Len(after) = 0 BY <3>2, <4>2
          <5> QED BY <2>1, <5>1, <5>2
        <4> QED BY <4>1, <4>2
      <3>4. ASSUME NEW i \in 1 .. n - place
            PROVE  after[i] = last_used[place + i]
        <4>1. i \in 1 .. n - (place + 1) + 1 /\ place + 1 + i - 1 = place + i
              BY <2>1, <2>2
        <4> QED BY <3>2, <4>1
      <3> QED BY <3>2, <3>3, <3>4
    <2> HIDE DEF before, after
    <2>6. w \in Seq(Epics) /\ Len(w) = n - 1
      <3>1. w \in Seq(Epics) /\ Len(w) = Len(before) + Len(after)
            BY <2>3, <2>4, <2>5, ConcatProperties
      <3> QED BY <2>1, <2>2, <2>4, <2>5, <3>1
    <2>7. \A i \in 1 .. n - 1 : w[i] = last_used[IF i < place THEN i ELSE i + 1]
      <3> SUFFICES ASSUME NEW i \in 1 .. n - 1
                   PROVE  w[i] = last_used[IF i < place THEN i ELSE i + 1]
          OBVIOUS
      <3>1. CASE i < place BY <2>1, <2>2, <2>3, <2>4, <2>5, <3>1
      <3>2. CASE ~(i < place)
        <4>1. i - (place - 1) \in 1 .. n - place /\ place + (i - (place - 1)) = i + 1
              BY <2>1, <2>2, <3>2
        <4>2. w[i] = after[i - (place - 1)]
              BY <2>1, <2>2, <2>3, <2>4, <2>5, <3>2, <4>1
        <4> QED BY <2>5, <3>2, <4>1, <4>2
      <3> QED BY <3>1, <3>2
    <2>8. \A i, j \in 1 .. n - 1 : w[i] = w[j] => i = j
      <3> SUFFICES ASSUME NEW i \in 1 .. n - 1, NEW j \in 1 .. n - 1, w[i] = w[j]
                   PROVE  i = j
          OBVIOUS
      <3> DEFINE from(k) == IF k < place THEN k ELSE k + 1
      <3>1. from(i) \in 1 .. n /\ from(j) \in 1 .. n
            BY <2>1, <2>2
      <3>2. last_used[from(i)] = last_used[from(j)]
            BY <2>7
      <3>3. from(i) = from(j)
            BY <3>1, <3>2 DEF Listed, Places
      <3> QED BY <2>2, <3>3
    <2>9. \A i \in 1 .. n - 1 : w[i] # e /\ entries[w[i]] # None
      <3> SUFFICES ASSUME NEW i \in 1 .. n - 1
                   PROVE  w[i] # e /\ entries[w[i]] # None
          OBVIOUS
      <3>1. PICK k \in 1 .. n : w[i] = last_used[k] /\ k # place
            BY <2>1, <2>2, <2>7
      <3> QED BY <2>2, <3>1 DEF Listed, Places
    <2>10. ASSUME NEW f \in Epics \ {e}, entries[f] # None
           PROVE  \E i \in 1 .. n - 1 : w[i] = f
      <3>1. PICK k \in 1 .. n : last_used[k] = f
            BY <2>10 DEF Listed, Places
      <3>2. k # place
            BY <2>2, <2>10, <3>1
      <3>3. CASE k < place
            BY <2>1, <2>2, <2>7, <3>1, <3>3
      <3>4. CASE k > place
        <4>1. k - 1 \in 1 .. n - 1 /\ ~(k - 1 < place) /\ k - 1 + 1 = k
              BY <2>1, <2>2, <3>4
        <4> QED BY <2>7, <3>1, <4>1
      <3> QED BY <2>1, <2>2, <3>2, <3>3, <3>4
    <2>11. ASSUME NEW i \in 1 .. n - 1, NEW j \in 1 .. n - 1, i < j
           PROVE  \E p, q \in 1 .. n : p < q /\ last_used[p] = w[i] /\ last_used[q] = w[j]
      <3> DEFINE from(k) == IF k < place THEN k ELSE k + 1
      <3>1. from(i) \in 1 .. n /\ from(j) \in 1 .. n /\ from(i) < from(j)
            BY <2>1, <2>2, <2>11
      <3>2. last_used[from(i)] = w[i] /\ last_used[from(j)] = w[j]
            BY <2>7
      <3> QED BY <3>1, <3>2
    <2> QED BY <1>2, <2>6, <2>8, <2>9, <2>10, <2>11 DEF Places, InOrder
  <1> QED BY <1>1, <1>2

\* While no close holds the mutex, no more tasks run than instruments are listed.
LEMMA RunningListed ==
  ASSUME Control, Listed, \A c \in Callers : joins[c] = {}
  PROVE  /\ IsFiniteSet(Running)
         /\ Cardinality(Running) \in Nat
         /\ Cardinality(Running) <= Len(last_used)
  <1> DEFINE n == Len(last_used)
             f == [i \in 1 .. n |-> entries[last_used[i]]]
             image == {f[i] : i \in 1 .. n}
  <1>1. n \in Nat /\ IsFiniteSet(1 .. n) /\ Cardinality(1 .. n) = n
    <2>1. n \in Nat BY DEF Listed
    <2> HIDE DEF n
    <2> QED BY <2>1, FS_Interval
  <1>2. f \in Surjection(1 .. n, image)
        BY DEF Surjection
  <1>3. IsFiniteSet(image) /\ Cardinality(image) <= n
    <2> HIDE DEF f, image, n
    <2> QED BY <1>1, <1>2, FS_Surjection
  <1>4. Running \subseteq image
    <2> SUFFICES ASSUME NEW t \in Running
                 PROVE  t \in image
        OBVIOUS
    <2>1. PICK e \in Epics : entries[e] = t
          BY DEF Control, TasksOwned
    <2>2. entries[e] # None
          BY <2>1, QuoteAssumption DEF Running
    <2>3. PICK i \in 1 .. n : last_used[i] = e
          BY <2>2 DEF Listed, Places
    <2> QED BY <2>1, <2>3
  <1> HIDE DEF image, n
  <1>5. IsFiniteSet(Running) /\ Cardinality(Running) <= Cardinality(image)
        BY <1>3, <1>4, FS_Subset
  <1>6. Cardinality(Running) \in Nat /\ Cardinality(image) \in Nat
        BY <1>3, <1>5, FS_CardinalityType
  <1> QED BY <1>1, <1>3, <1>5, <1>6 DEF n

\* Tasks that end leave the capacity alone.
LEMMA FewerRun ==
  ASSUME Types, WithinCapacity, Running' \subseteq Running
  PROVE  WithinCapacity'
  <1>1. IsFiniteSet(Running) /\ Running' \in SUBSET Running
        BY QuoteAssumption, FS_Subset DEF Running
  <1>2. Cardinality(Running') <= Cardinality(Running) /\ IsFiniteSet(Running')
        BY <1>1, FS_Subset
  <1>3. Cardinality(Running') \in Nat /\ Cardinality(Running) \in Nat
        BY <1>1, <1>2, FS_CardinalityType
  <1> QED BY <1>2, <1>3, QuoteAssumption DEF WithinCapacity

\* A step that leaves the map and the order alone.
LEMMA SameOrder ==
  ASSUME Types, Order, UNCHANGED <<entries, last_used>>, Running' \subseteq Running,
         \A c \in Callers : pc'[c] = "subscribing" => pc[c] = "subscribing"
  PROVE  Order'
  <1>1. Listed' /\ Room'
        BY DEF Order, Listed, Places, Room
  <1> QED BY <1>1, FewerRun DEF Order

\* Emptying both.
LEMMA NoOrder ==
  ASSUME Types, Order, Empty', last_used' = <<>>, Running' \subseteq Running
  PROVE  Order'
  <1>1. Listed' /\ Room'
        BY QuoteAssumption DEF Empty, Listed, Places, Room
  <1> QED BY <1>1, FewerRun DEF Order

\* The end of a sequence.
LEMMA Shortened ==
  ASSUME NEW w \in Seq(Epics), NEW k \in 0 .. Len(w), NEW short,
         short = SubSeq(w, k + 1, Len(w))
  PROVE  /\ short \in Seq(Epics) /\ Len(short) = Len(w) - k
         /\ \A i \in 1 .. Len(w) - k : short[i] = w[k + i]
  <1> DEFINE n == Len(w)
  <1>1. n \in Nat /\ \A i \in k + 1 .. n : w[i] \in Epics
        OBVIOUS
  <1> HIDE DEF n
  <1>2. /\ short \in Seq(Epics)
        /\ Len(short) = IF k + 1 <= n THEN n - (k + 1) + 1 ELSE 0
        /\ \A i \in 1 .. n - (k + 1) + 1 : short[i] = w[k + 1 + i - 1]
        BY <1>1, SubSeqProperties DEF n
  <1>3. k \in 0 .. n BY DEF n
  <1>4. Len(short) = n - k
    <2>1. CASE k + 1 <= n BY <1>1, <1>2, <1>3, <2>1
    <2>2. CASE ~(k + 1 <= n)
      <3>1. k = n BY <1>1, <1>3, <2>2
      <3>2. Len(short) = 0 BY <1>2, <2>2
      <3> QED BY <1>1, <3>1, <3>2
    <2> QED BY <2>1, <2>2
  <1>5. ASSUME NEW i \in 1 .. n - k
        PROVE  short[i] = w[k + i]
    <2>1. i \in 1 .. n - (k + 1) + 1 /\ k + 1 + i - 1 = k + i
          BY <1>1, <1>3
    <2> QED BY <1>2, <2>1
  <1> QED BY <1>2, <1>4, <1>5 DEF n

\* The four ways of taking the mutex.
LEMMA TakeOrder ==
  ASSUME Control, Order, NEW c \in Callers, Take(c)
  PROVE  Order'
  <1>1. pc[c] = "lock" /\ lock = None /\ asked[c] \in Epics /\ Types /\ Listed
        BY DEF Take, Control, Holds, Order
  <1>2. \A d \in Callers : pc[d] \notin {"opening", "subscribing", "joining"}
        BY <1>1, QuoteAssumption DEF Control, Holds
  <1>3. CASE Refuse(c)
        BY <1>1, <1>3, SameOrder DEF Refuse, Release, Goto, Types, Running, streamer, tasks
  <1>4. CASE Reopen(c)
    <2>1. Running' \subseteq Running
          BY <1>1, <1>4, AbortStops DEF Reopen
    <2>2. Empty' /\ last_used' = <<>>
          BY <1>4 DEF Reopen, Empty
    <2> QED BY <1>1, <2>1, <2>2, NoOrder
  <1>5. CASE Find(c)
    <2> DEFINE e == asked[c]
               w == Without(e)
    <2>1. /\ entries[e] # None /\ last_used' = Append(w, e)
          /\ entries' = entries /\ task' = task /\ Goto(c, "waiting")
          BY <1>5, QuoteAssumption DEF Find, Touched, Running, tasks
    <2>2. /\ w \in Seq(Epics) /\ Len(w) = Len(last_used) - 1
          /\ \A i, j \in 1 .. Len(w) : w[i] = w[j] => i = j
          /\ \A i \in 1 .. Len(w) : w[i] # e /\ entries[w[i]] # None
          /\ \A f \in Epics \ {e} : entries[f] # None => \E i \in 1 .. Len(w) : w[i] = f
          BY <1>1, <2>1, WithoutFacts
    <2> HIDE DEF w
    <2>3. /\ last_used' \in Seq(Epics) /\ Len(last_used') = Len(w) + 1
          /\ \A i \in 1 .. Len(w) : last_used'[i] = w[i]
          /\ last_used'[Len(w) + 1] = e
          BY <1>1, <2>1, <2>2, AppendProperties
    <2>4. Len(w) \in Nat /\ Len(last_used) \in Nat
          BY <1>1, <2>2 DEF Listed
    <2>5. Listed'
      <3>1. \A i, j \in 1 .. Len(w) + 1 : last_used'[i] = last_used'[j] => i = j
            BY <2>2, <2>3, <2>4, SMTT(20)
      <3>2. \A i \in 1 .. Len(w) + 1 : entries'[last_used'[i]] # None
            BY <2>1, <2>2, <2>3, <2>4
      <3>3. \A f \in Epics : entries'[f] # None =>
              \E i \in 1 .. Len(w) + 1 : last_used'[i] = f
            BY <2>1, <2>2, <2>3, <2>4
      <3> QED BY <2>3, <3>1, <3>2, <3>3 DEF Listed, Places
    <2>6. Room'
          BY <1>1, <1>2, <2>1, <2>2, <2>3, <2>4, QuoteAssumption
          DEF Order, Room, Goto, Types
    <2>7. WithinCapacity'
          BY <1>1, <2>1, FewerRun DEF Order, Running
    <2> QED BY <2>5, <2>6, <2>7 DEF Order
  <1>6. CASE MakeRoom(c)
    <2> DEFINE e == asked[c]
               w == Without(e)
               n == Len(w)
               k == Surplus(n)
               victims == {w[i] : i \in 1 .. k}
    <2>1. /\ Abort({entries[f] : f \in victims})
          /\ entries' = [f \in Epics |-> IF f = e \/ f \in victims THEN None ELSE entries[f]]
          /\ last_used' = SubSeq(w, k + 1, n)
          BY <1>6 DEF MakeRoom, Drop
    <2>2. /\ w \in Seq(Epics)
          /\ \A i, j \in 1 .. n : w[i] = w[j] => i = j
          /\ \A i \in 1 .. n : w[i] # e /\ entries[w[i]] # None
          /\ \A f \in Epics \ {e} : entries[f] # None => \E i \in 1 .. n : w[i] = f
          BY <1>1, WithoutFacts
    <2>3. n \in Nat /\ k \in 0 .. n /\ n - k < Capacity
      <3> HIDE DEF w
      <3>1. n \in Nat BY <2>2
      <3> HIDE DEF n
      <3> QED BY <3>1, QuoteAssumption DEF Surplus
    <2>4. Running' \subseteq Running
      <3> HIDE DEF victims
      <3> QED BY <1>1, <2>1, AbortStops
    <2> HIDE DEF w, n, k
    <2>5. /\ last_used' \in Seq(Epics) /\ Len(last_used') = n - k
          /\ \A i \in 1 .. n - k : last_used'[i] = w[k + i]
          BY <2>1, <2>2, <2>3, Shortened DEF n
    <2>6. \A i \in 1 .. n - k : k + i \in 1 .. n /\ w[k + i] \notin victims
      <3> SUFFICES ASSUME NEW i \in 1 .. n - k
                   PROVE  k + i \in 1 .. n /\ \A j \in 1 .. k : w[j] # w[k + i]
          OBVIOUS
      <3>1. k + i \in 1 .. n /\ \A j \in 1 .. k : j \in 1 .. n /\ j # k + i
            BY <2>3
      <3> QED BY <2>2, <3>1
    <2>7. Listed'
      <3>1. \A i, j \in 1 .. n - k : last_used'[i] = last_used'[j] => i = j
        <4> SUFFICES ASSUME NEW i \in 1 .. n - k, NEW j \in 1 .. n - k,
                            last_used'[i] = last_used'[j]
                     PROVE  i = j
            OBVIOUS
        <4>1. k + i = k + j
              BY <2>2, <2>5, <2>6
        <4> QED BY <2>3, <4>1
      <3>2. \A i \in 1 .. n - k : entries'[last_used'[i]] # None
        <4> SUFFICES ASSUME NEW i \in 1 .. n - k
                     PROVE  entries'[w[k + i]] # None
            BY <2>5
        <4>1. k + i \in 1 .. n /\ w[k + i] \in Epics
              BY <2>2, <2>6 DEF n
        <4> QED BY <2>1, <2>2, <2>6, <4>1
      <3>3. ASSUME NEW f \in Epics, entries'[f] # None
            PROVE  \E i \in 1 .. n - k : last_used'[i] = f
        <4>1. f # e /\ f \notin victims /\ entries[f] # None
              BY <2>1, <3>3
        <4>2. PICK i \in 1 .. n : w[i] = f
              BY <2>2, <4>1
        <4>3. i - k \in 1 .. n - k /\ k + (i - k) = i
          <5>1. i \notin 1 .. k BY <4>1, <4>2
          <5> QED BY <2>3, <5>1
        <4> QED BY <2>5, <4>2, <4>3
      <3> QED BY <2>5, <3>1, <3>2, <3>3 DEF Listed, Places
    <2>8. Room'
          BY <2>3, <2>5, QuoteAssumption DEF Room
    <2>9. WithinCapacity'
          BY <1>1, <2>4, FewerRun DEF Order
    <2> QED BY <2>7, <2>8, <2>9 DEF Order
  <1> QED BY <1>3, <1>4, <1>5, <1>6 DEF Take

\* The other steps of a caller.
LEMMA CallOrder ==
  ASSUME Control, Order, NEW c \in Callers,
         \/ \E e \in Epics : Quote(c, e)
         \/ Shutdown(c) \/ CloseLocked(c) \/ Work(c)
  PROVE  Order'
  <1>1. Types /\ Listed /\ Room
        BY DEF Control, Order
  <1>2. CASE \E e \in Epics : Quote(c, e)
        BY <1>1, <1>2, SameOrder DEF Quote, Goto, Types, Running, streamer, tasks
  <1>3. CASE Shutdown(c)
        BY <1>1, <1>3, SameOrder DEF Shutdown, Goto, Types, Running, streamer
  <1>4. CASE CloseLocked(c)
        BY <1>1, <1>4, NoOrder DEF CloseLocked, Empty, Running, tasks
  <1>5. CASE Opened(c)
    <2>1. pc[c] = "opening" /\ lock = c /\ Empty /\ UNCHANGED <<entries, last_used, task>>
          BY <1>5 DEF Opened, Control, Holds, tasks
    <2>2. \A d \in Callers : pc'[d] = "subscribing" => d = c
          BY <1>1, <1>5, <2>1 DEF Opened, Goto, Release, Control, Holds, Types
    <2>3. Len(last_used) = 0
      <3>1. Len(last_used) \in Nat /\ (Len(last_used) > 0 => 1 \in Places)
            BY <1>1 DEF Listed, Places
      <3>2. Places = {}
        <4> SUFFICES ASSUME NEW i \in Places
                     PROVE  FALSE
            OBVIOUS
        <4>1. last_used[i] \in Epics
              BY <1>1 DEF Listed, Places
        <4> QED BY <1>1, <2>1, <4>1 DEF Listed, Empty
      <3> QED BY <3>1, <3>2
    <2>4. Listed' /\ Room'
          BY <1>1, <2>1, <2>3, QuoteAssumption DEF Listed, Places, Room
    <2>5. WithinCapacity'
          BY <1>1, <2>1, FewerRun DEF Order, Running
    <2> QED BY <2>4, <2>5 DEF Order
  <1>6. CASE Subscribed(c)
    <2>1. /\ pc[c] = "subscribing" /\ lock = c /\ asked[c] \in Epics /\ entries[asked[c]] = None
          /\ \A d \in Callers : joins[d] = {} /\ (d # c => pc[d] # "subscribing")
          BY <1>6 DEF Subscribed, Control, Holds
    <2>2. \A d \in Callers : pc'[d] # "subscribing"
          BY <1>1, <1>6, <2>1 DEF Subscribed, Goto, Release, Types
    <2>3. CASE UNCHANGED <<task, entries, last_used>>
          BY <1>1, <2>2, <2>3, SameOrder DEF Running
    <2>4. ASSUME NEW t \in Free, task' = [task EXCEPT ![t] = "running"],
                 entries' = [entries EXCEPT ![asked[c]] = t],
                 last_used' = Append(last_used, asked[c])
          PROVE  Order'
      <3> DEFINE e == asked[c]
                 n == Len(last_used)
      <3>1. t \in Tasks /\ t # None
            BY QuoteAssumption DEF Free
      <3>2. n \in Nat /\ n < Capacity
            BY <1>1, <2>1 DEF Listed, Room
      <3>3. /\ last_used' \in Seq(Epics) /\ Len(last_used') = n + 1
            /\ \A i \in 1 .. n : last_used'[i] = last_used[i]
            /\ last_used'[n + 1] = e
            BY <1>1, <2>1, <2>4, AppendProperties DEF Listed
      <3>4. \A i \in 1 .. n : last_used[i] # e /\ last_used[i] \in Epics
            BY <1>1, <2>1 DEF Listed, Places
      <3>5. Listed'
        <4>1. \A i, j \in 1 .. n + 1 : last_used'[i] = last_used'[j] => i = j
              BY <1>1, <3>2, <3>3, <3>4 DEF Listed, Places
        <4>2. \A i \in 1 .. n + 1 : entries'[last_used'[i]] # None
              BY <1>1, <2>1, <2>4, <3>1, <3>2, <3>3, <3>4 DEF Listed, Places, Types
        <4>3. \A f \in Epics : entries'[f] # None =>
                \E i \in 1 .. n + 1 : last_used'[i] = f
              BY <1>1, <2>1, <2>4, <3>2, <3>3 DEF Listed, Places, Types
        <4> QED BY <3>3, <4>1, <4>2, <4>3 DEF Listed, Places
      <3>6. Room'
            BY <2>2, <3>2, <3>3, QuoteAssumption DEF Room
      <3>7. WithinCapacity'
        <4>1. /\ IsFiniteSet(Running) /\ Cardinality(Running) \in Nat
              /\ Cardinality(Running) <= n
              BY <1>1, <2>1, RunningListed
        <4>2. Running' = Running \cup {t}
              BY <1>1, <2>4, <3>1 DEF Running, Types
        <4>3. Cardinality(Running') = IF t \in Running THEN Cardinality(Running)
                                      ELSE Cardinality(Running) + 1
              BY <4>1, <4>2, FS_AddElement
        <4> QED BY <3>2, <4>1, <4>3, QuoteAssumption DEF WithinCapacity
      <3> QED BY <3>5, <3>6, <3>7 DEF Order
    <2> QED BY <1>6, <2>3, <2>4 DEF Subscribed
  <1>7. CASE Answered(c)
        BY <1>1, <1>7, SameOrder DEF Answered, Goto, Types, Running, streamer, tasks
  <1>8. CASE Closed(c)
        BY <1>1, <1>8, SameOrder DEF Closed, Release, Goto, Types, Running, tasks
  <1> QED BY <1>2, <1>3, <1>4, <1>5, <1>6, <1>7, <1>8 DEF Work

\* Tasks end.
LEMMA TaskOrder ==
  ASSUME Types, Order,
         \/ \E t \in Tasks : Stop(t) \/ EndsByItself(t) \/ Unsubscribe(t)
         \/ StopEvents \/ SessionLost
  PROVE  Order'
  <1>1. ASSUME NEW t \in Tasks, End(t)
        PROVE  Order'
        BY <1>1, SameOrder DEF End, Types, Running, streamer
  <1>2. CASE EndEvents
        BY <1>2, SameOrder DEF EndEvents, Running
  <1> QED BY <1>1, <1>2 DEF Stop, EndsByItself, Unsubscribe, StopEvents, SessionLost

\* A streamer begins with nothing subscribed.
LEMMA InitOrder == Init => Order
  <1> SUFFICES ASSUME Init
               PROVE  Order
      OBVIOUS
  <1>1. Listed /\ Room
        BY QuoteAssumption DEF Init, Listed, Places, Room
  <1>2. Running = {}
        BY DEF Init, Running
  <1>3. WithinCapacity
        BY <1>2, FS_EmptySet, QuoteAssumption DEF WithinCapacity
  <1> QED BY <1>1, <1>3 DEF Order

\* Order is inductive, given Control.
LEMMA NextOrder == Control /\ Order /\ [Next]_vars => Order'
  <1> SUFFICES ASSUME Control, Order, [Next]_vars
               PROVE  Order'
      OBVIOUS
  <1>1. CASE Next
        BY <1>1, TakeOrder, CallOrder, TaskOrder DEF Next, Control
  <1>2. CASE UNCHANGED vars
        BY <1>2, SameOrder DEF vars, streamer, tasks, Running, Control
  <1> QED BY <1>1, <1>2

\* Who owns each task, and the order of use, hold together in every behaviour.
LEMMA Ordered == Spec => [](Control /\ Order)
  BY InitControl, NextControl, InitOrder, NextOrder, PTL DEF Spec

\* There are as many instruments in the order as in the map.
LEMMA OrderCounts ==
  ASSUME Listed
  PROVE  Len(last_used) = Cardinality({e \in Epics : entries[e] # None})
  <1> DEFINE n == Len(last_used)
             held == {e \in Epics : entries[e] # None}
  <1>1. n \in Nat /\ last_used \in [1 .. n -> held]
        BY DEF Listed, Places
  <1>2. last_used \in Bijection(1 .. n, held)
        BY <1>1 DEF Listed, Places, Bijection, Injection, Surjection, IsInjective
  <1> HIDE DEF n, held
  <1>3. ExistsBijection(1 .. n, held)
        BY <1>2 DEF ExistsBijection
  <1>4. Cardinality(held) = n
        BY <1>1, <1>3, FS_CountingElements
  <1> QED BY <1>4 DEF n, held

\* Every variable has its type, and the order of use lists each subscription once, for
\* any number of callers, instruments and whatever the capacity.
THEOREM Typing == Spec => []TypeOK
  <1>1. Control /\ Order => TypeOK
    <2> SUFFICES ASSUME Control, Order
                 PROVE  TypeOK
        OBVIOUS
    <2>1. Len(last_used) = Cardinality({e \in Epics : entries[e] # None})
          BY OrderCounts DEF Order
    <2> QED BY <2>1 DEF Control, Types, Order, Listed, TypeOK
  <1> QED BY <1>1, Ordered, PTL

\* The streamer never runs more subscriptions than IG grants, whoever is evicted and
\* whatever fails in between.
THEOREM CapacityKept == Spec => []WithinCapacity
  <1>1. Control /\ Order => WithinCapacity BY DEF Order
  <1> QED BY <1>1, Ordered, PTL
-----------------------------------------------------------------------------
(* Who is evicted.                                                         *)

\* What comes after a caller's instrument has been asked for while it waits, and so has
\* what is being subscribed.
Followed ==
  \A c \in Callers : pc[c] = "waiting" =>
    /\ \A i, j \in Places : i < j /\ last_used[i] = asked[c] => last_used[j] \in since[c]
    /\ \A d \in Callers : pc[d] = "subscribing" /\ asked[d] # asked[c] => asked[d] \in since[c]

\* A step that leaves the order alone and takes no caller into the wait.
LEMMA SameFollowed ==
  ASSUME Followed, UNCHANGED last_used,
         \A c \in Callers :
           pc'[c] \in {"waiting", "subscribing"} =>
             pc'[c] = pc[c] /\ asked'[c] = asked[c] /\ since[c] \subseteq since'[c]
  PROVE  Followed'
  BY DEF Followed, Places

\* Taking the mutex.
LEMMA TakeFollowed ==
  ASSUME Control, Order, Followed, NEW c \in Callers, Take(c)
  PROVE  Followed'
  <1>1. pc[c] = "lock" /\ lock = None /\ asked[c] \in Epics /\ Types /\ Listed
        BY DEF Take, Control, Holds, Order
  <1>2. \A d \in Callers : pc[d] \notin {"opening", "subscribing", "joining"}
        BY <1>1, QuoteAssumption DEF Control, Holds
  <1>3. CASE Refuse(c)
        BY <1>1, <1>3, SameFollowed DEF Refuse, Release, Goto, Types, streamer, history
  <1>4. CASE Reopen(c)
    <2>1. last_used' = <<>> /\ \A d \in Callers : pc'[d] # "subscribing"
          BY <1>1, <1>2, <1>4 DEF Reopen, Goto, Types
    <2> QED BY <2>1 DEF Followed, Places
  <1>5. CASE Find(c)
    <2> DEFINE e == asked[c]
               w == Without(e)
               n == Len(w)
    <2>1. /\ entries[e] # None /\ last_used' = Append(w, e)
          /\ Goto(c, "waiting") /\ Noted(c) /\ asked' = asked
          BY <1>5, QuoteAssumption DEF Find, Touched, Running
    <2>2. /\ w \in Seq(Epics)
          /\ \A i \in 1 .. n : w[i] # e
          /\ InOrder(w)
      <3>1. w = Without(e) /\ e \in Epics /\ Types /\ Listed BY <1>1
      <3> HIDE DEF w, e
      <3> QED BY ONLY <3>1, WithoutFacts
    <2> HIDE DEF w
    <2>3. /\ n \in Nat /\ Len(last_used') = n + 1
          /\ \A i \in 1 .. n : last_used'[i] = w[i]
          /\ last_used'[n + 1] = e
          BY <1>1, <2>1, <2>2, AppendProperties
    <2>4. \A d \in Callers : pc'[d] # "subscribing"
          BY <1>1, <1>2, <2>1 DEF Goto, Types
    <2>5. ASSUME NEW d \in Callers, pc'[d] = "waiting", NEW i \in 1 .. n + 1,
                 NEW j \in 1 .. n + 1, i < j, last_used'[i] = asked[d]
          PROVE  last_used'[j] \in since'[d]
      <3>1. i \in 1 .. n /\ w[i] = asked[d] /\ asked[d] # e
            BY <2>2, <2>3, <2>5
      <3>2. d # c /\ pc[d] = "waiting"
            BY <1>1, <2>1, <2>5, <3>1 DEF Goto, Types
      <3>3. since'[d] = since[d] \cup {e}
            BY <2>1, <3>1, <3>2 DEF Noted
      <3>4. CASE j = n + 1
            BY <2>3, <3>3, <3>4
      <3>5. CASE j \in 1 .. n
        <4>1. PICK p \in Places, q \in Places :
                p < q /\ last_used[p] = w[i] /\ last_used[q] = w[j]
              BY <2>2, <2>3, <2>5, <3>1, <3>5 DEF InOrder
        <4>2. last_used[q] \in since[d]
              BY <3>1, <3>2, <4>1 DEF Followed
        <4> QED BY <2>3, <3>3, <3>5, <4>1, <4>2
      <3> QED BY <2>3, <3>4, <3>5
    <2> QED BY <2>1, <2>3, <2>4, <2>5 DEF Followed, Places
  <1>6. CASE MakeRoom(c)
    <2> DEFINE e == asked[c]
               w == Without(e)
               n == Len(w)
               k == Surplus(n)
    <2>1. /\ last_used' = SubSeq(w, k + 1, n)
          /\ Goto(c, "subscribing") /\ Noted(c) /\ asked' = asked
          BY <1>6 DEF MakeRoom
    <2>2. /\ w \in Seq(Epics)
          /\ InOrder(w)
      <3>1. w = Without(e) /\ e \in Epics /\ Types /\ Listed BY <1>1
      <3> HIDE DEF w, e
      <3> QED BY ONLY <3>1, WithoutFacts
    <2> HIDE DEF w
    <2>3. n \in Nat BY <2>2
    <2>4. k \in 0 .. n
      <3> HIDE DEF n
      <3> QED BY <2>3, QuoteAssumption DEF Surplus
    <2> HIDE DEF k
    <2>5. Len(last_used') = n - k /\ \A i \in 1 .. n - k : last_used'[i] = w[k + i]
          BY <2>1, <2>2, <2>3, <2>4, Shortened
    <2> HIDE DEF n
    <2>6. ASSUME NEW d \in Callers, pc'[d] = "waiting", NEW i \in 1 .. n - k,
                 NEW j \in 1 .. n - k, i < j, last_used'[i] = asked[d]
          PROVE  last_used'[j] \in since'[d]
      <3>1. d # c /\ pc[d] = "waiting" /\ since[d] \subseteq since'[d]
            BY <1>1, <2>1, <2>6 DEF Goto, Types, Noted
      <3>2. k + i \in 1 .. n /\ k + j \in 1 .. n /\ k + i < k + j
            BY <2>3, <2>4, <2>6
      <3>3. PICK p \in Places, q \in Places :
              p < q /\ last_used[p] = w[k + i] /\ last_used[q] = w[k + j]
            BY <2>2, <3>2 DEF InOrder, n
      <3>4. last_used[q] \in since[d]
            BY <2>5, <2>6, <3>1, <3>3 DEF Followed
      <3> QED BY <2>5, <3>1, <3>3, <3>4
    <2>7. ASSUME NEW d \in Callers, pc'[d] = "waiting", NEW f \in Callers,
                 pc'[f] = "subscribing", asked[f] # asked[d]
          PROVE  asked[f] \in since'[d]
      <3>1. f = c /\ d # c /\ pc[d] = "waiting"
            BY <1>1, <1>2, <2>1, <2>7 DEF Goto, Types
      <3> QED BY <2>1, <2>7, <3>1 DEF Noted
    <2> QED BY <2>1, <2>5, <2>6, <2>7 DEF Followed, Places
  <1> QED BY <1>3, <1>4, <1>5, <1>6 DEF Take

\* The other steps of a caller.
LEMMA CallFollowed ==
  ASSUME Control, Order, Followed, NEW c \in Callers,
         \/ \E e \in Epics : Quote(c, e)
         \/ Shutdown(c) \/ CloseLocked(c) \/ Work(c)
  PROVE  Followed'
  <1>1. Types /\ Listed
        BY DEF Control, Order
  <1>2. CASE \E e \in Epics : Quote(c, e)
        BY <1>1, <1>2, SameFollowed DEF Quote, Goto, Types, streamer
  <1>3. CASE Shutdown(c)
        BY <1>1, <1>3, SameFollowed DEF Shutdown, Goto, Types, streamer
  <1>4. CASE CloseLocked(c)
    <2>1. /\ last_used' = <<>> /\ UNCHANGED <<asked, since>>
          /\ \A d \in Callers : pc'[d] \in {"waiting", "subscribing"} => pc[d] = pc'[d]
          BY <1>1, <1>4 DEF CloseLocked, Goto, Types, history
    <2> QED BY <2>1 DEF Followed, Places
  <1>5. CASE Opened(c)
    <2>1. /\ pc[c] = "opening" /\ last_used' = last_used
          /\ \A d \in Callers \ {c} : pc[d] \notin {"opening", "subscribing", "joining"}
          BY <1>5 DEF Opened, Control, Holds
    <2>2. CASE Goto(c, "subscribing") /\ Noted(c) /\ asked' = asked
      <3>1. \A d \in Callers : pc'[d] = "waiting" =>
              pc[d] = "waiting" /\ since'[d] = since[d] \cup ({asked[c]} \ {asked[d]})
            BY <1>1, <2>1, <2>2 DEF Goto, Noted, Types
      <3>2. \A d \in Callers : pc'[d] = "subscribing" => d = c
            BY <1>1, <2>1, <2>2 DEF Goto, Types
      <3> QED BY <2>1, <2>2, <3>1, <3>2 DEF Followed, Places
    <2>3. CASE Release(c) /\ since' = since
          BY <1>1, <2>1, <2>3, SameFollowed DEF Release, Goto, Types
    <2> QED BY <1>5, <2>2, <2>3 DEF Opened
  <1>6. CASE Subscribed(c)
    <2>1. /\ pc[c] = "subscribing" /\ asked[c] \in Epics /\ entries[asked[c]] = None
          /\ \A d \in Callers : d # c => pc[d] # "subscribing"
          /\ since' = since
          BY <1>6 DEF Subscribed, Control, Holds, history
    <2>2. CASE Release(c) /\ UNCHANGED last_used
          BY <1>1, <2>1, <2>2, SameFollowed DEF Release, Goto, Types
    <2>3. CASE Goto(c, "waiting") /\ last_used' = Append(last_used, asked[c]) /\ asked' = asked
      <3> DEFINE n == Len(last_used)
      <3>1. /\ n \in Nat /\ Len(last_used') = n + 1
            /\ \A i \in 1 .. n : last_used'[i] = last_used[i]
            /\ last_used'[n + 1] = asked[c]
            BY <1>1, <2>1, <2>3, AppendProperties DEF Listed
      <3>2. \A i \in 1 .. n : last_used[i] # asked[c]
            BY <1>1, <2>1 DEF Listed, Places
      <3>3. \A d \in Callers : pc'[d] # "subscribing"
            BY <1>1, <2>1, <2>3 DEF Goto, Types
      <3>4. ASSUME NEW d \in Callers, pc'[d] = "waiting", NEW i \in 1 .. n + 1,
                   NEW j \in 1 .. n + 1, i < j, last_used'[i] = asked[d]
            PROVE  last_used'[j] \in since[d]
        <4>1. i \in 1 .. n /\ last_used[i] = asked[d] /\ asked[d] # asked[c]
              BY <3>1, <3>2, <3>4
        <4>2. d # c /\ pc[d] = "waiting"
              BY <1>1, <2>3, <3>4, <4>1 DEF Goto, Types
        <4>3. CASE j \in 1 .. n
              BY <3>1, <3>4, <4>1, <4>2, <4>3 DEF Followed, Places
        <4>4. CASE j = n + 1
              BY <2>1, <3>1, <4>1, <4>2, <4>4 DEF Followed
        <4> QED BY <3>1, <4>3, <4>4
      <3> QED BY <2>1, <2>3, <3>1, <3>3, <3>4 DEF Followed, Places
    <2> QED BY <1>6, <2>2, <2>3 DEF Subscribed
  <1>7. CASE Answered(c)
        BY <1>1, <1>7, SameFollowed DEF Answered, Goto, Types, streamer
  <1>8. CASE Closed(c)
        BY <1>1, <1>8, SameFollowed DEF Closed, Release, Goto, Types, history
  <1> QED BY <1>2, <1>3, <1>4, <1>5, <1>6, <1>7, <1>8 DEF Work

\* Followed is inductive, given the others.
LEMMA NextFollowed == Control /\ Order /\ Followed /\ [Next]_vars => Followed'
  <1> SUFFICES ASSUME Control, Order, Followed, [Next]_vars
               PROVE  Followed'
      OBVIOUS
  <1>1. ASSUME NEW t \in Tasks, End(t)
        PROVE  Followed'
        BY <1>1, SameFollowed DEF End, streamer, history
  <1>2. CASE EndEvents
        BY <1>2, SameFollowed DEF EndEvents, history
  <1>3. CASE UNCHANGED vars
        BY <1>3, SameFollowed DEF vars, streamer, history
  <1> QED BY <1>1, <1>2, <1>3, TakeFollowed, CallFollowed
          DEF Next, Stop, EndsByItself, Unsubscribe, StopEvents, SessionLost

\* A caller that waits is evicted by nobody but Capacity other instruments.
LEMMA EvictedByMany ==
  ASSUME Control, Order, Followed, NEW c \in Callers, MakeRoom(c), Take(c),
         NEW d \in Callers, pc[d] = "waiting", entries[asked[d]] \in Running,
         entries'[asked[d]] # entries[asked[d]]
  PROVE  Cardinality(since'[d]) >= Capacity
  <1> DEFINE e == asked[c]
             w == Without(e)
             n == Len(w)
             k == Surplus(n)
             victims == {w[i] : i \in 1 .. k}
  <1>1. /\ pc[c] = "lock" /\ e \in Epics /\ asked[d] \in Epics /\ Types /\ Listed
        BY DEF Take, Control, Holds, Order
  <1>2. /\ entries[e] \notin Running /\ Noted(c)
        /\ entries' = [f \in Epics |-> IF f = e \/ f \in victims THEN None ELSE entries[f]]
        BY DEF MakeRoom
  <1>3. /\ w \in Seq(Epics)
        /\ \A i, j \in 1 .. n : w[i] = w[j] => i = j
        /\ \A i \in 1 .. n : w[i] # e
        /\ InOrder(w)
    <2>1. w = Without(e) /\ e \in Epics /\ Types /\ Listed BY <1>1
    <2> HIDE DEF w, e, k, victims
    <2> QED BY ONLY <2>1, WithoutFacts
  <1>4. asked[d] \in victims
        BY <1>1, <1>2
  <1>5. PICK i \in 1 .. k : w[i] = asked[d]
        BY <1>4
  <1> HIDE DEF w
  <1>6. n \in Nat /\ w \in [1 .. n -> Epics]
        BY <1>3
  <1> HIDE DEF n
  <1>7. i \in 1 .. n /\ n - i >= Capacity - 1
        BY <1>5, <1>6, QuoteAssumption DEF Surplus
  <1> DEFINE later == [j \in i + 1 .. n |-> w[j]]
  <1>8. \A j \in i + 1 .. n : w[j] \in since[d] \ {e}
    <2> SUFFICES ASSUME NEW j \in i + 1 .. n
                 PROVE  w[j] \in since[d] \ {e}
        OBVIOUS
    <2>1. j \in 1 .. n /\ i < j
          BY <1>6, <1>7
    <2>2. PICK p \in Places, q \in Places : p < q /\ last_used[p] = w[i] /\ last_used[q] = w[j]
          BY <1>3, <1>7, <2>1 DEF InOrder, n
    <2> QED BY <1>3, <1>5, <2>1, <2>2 DEF Followed
  <1>9. later \in Injection(i + 1 .. n, since[d] \ {e})
    <2>1. \A a, b \in i + 1 .. n : w[a] = w[b] => a = b
          BY <1>3, <1>6, <1>7
    <2> QED BY <1>8, <2>1 DEF Injection, IsInjective
  <1>10. since'[d] = since[d] \cup {e} /\ since[d] \subseteq Epics
    <2>1. asked[d] # e
          BY <1>3, <1>5, <1>7
    <2> QED BY <1>1, <1>2, <2>1 DEF Noted, Types
  <1>11. IsFiniteSet(since[d] \ {e}) /\ IsFiniteSet(i + 1 .. n)
         /\ Cardinality(i + 1 .. n) = n - i
    <2>1. i + 1 \in Int /\ n \in Int
          BY <1>6, <1>7
    <2>2. /\ IsFiniteSet(i + 1 .. n)
          /\ Cardinality(i + 1 .. n) = IF i + 1 > n THEN 0 ELSE n - (i + 1) + 1
          BY <2>1, FS_Interval
    <2>3. since[d] \ {e} \in SUBSET Epics
          BY <1>10
    <2>4. IsFiniteSet(since[d] \ {e})
          BY <2>3, QuoteAssumption, FS_Subset
    <2> QED BY <1>6, <1>7, <2>2, <2>4
  <1> HIDE DEF later, e
  <1>12. n - i <= Cardinality(since[d] \ {e})
         BY <1>9, <1>11, FS_Injection
  <1>13. /\ Cardinality(since[d] \ {e}) \in Nat
         /\ Cardinality((since[d] \ {e}) \cup {e}) = Cardinality(since[d] \ {e}) + 1
    <2>1. e \notin since[d] \ {e}
          OBVIOUS
    <2> QED BY <1>11, <2>1, FS_AddElement, FS_CardinalityType
  <1>14. since'[d] = (since[d] \ {e}) \cup {e}
         BY <1>10
  <1> QED BY <1>6, <1>7, <1>12, <1>13, <1>14, QuoteAssumption

\* A caller that waits for a quote keeps its subscription until as many other instruments
\* have been asked for as there is room for: least recently used eviction, whatever calls,
\* failures and lost sessions come between.
THEOREM KeptWhileWaited == Spec => WaitedForKept
  <1> DEFINE Evicted(d) ==
               /\ pc[d] = "waiting" /\ pc'[d] = "waiting"
               /\ Alive /\ \A f \in Callers : pc'[f] # "joining"
               /\ entries[asked[d]] \in Running
               /\ entries'[asked[d]] # entries[asked[d]]
  <1>1. Init => Followed
        BY DEF Init, Followed
  <1>2. ASSUME Control, Order, Followed, [Next]_vars, NEW d \in Callers, Evicted(d)
        PROVE  Cardinality(since'[d]) >= Capacity
    <2>1. asked[d] \in Epics /\ Types
          BY <1>2 DEF Control, Holds
    <2>2. PICK c \in Callers : Take(c) \/ CloseLocked(c) \/ Subscribed(c)
          BY <1>2
          DEF Next, vars, streamer, tasks, Work, Quote, Shutdown, Opened, Answered, Closed, Stop,
              EndsByItself, Unsubscribe, End, StopEvents, SessionLost, EndEvents
    <2>3. ~CloseLocked(c)
          BY <1>2, <2>1 DEF CloseLocked, Goto, Types
    <2>4. ~Subscribed(c)
      <3>1. ASSUME Subscribed(c) PROVE entries[asked[c]] = None /\ asked[c] \in Epics
            BY <1>2, <3>1 DEF Subscribed, Control, Holds
      <3> QED BY <1>2, <2>1, <3>1, QuoteAssumption DEF Subscribed, Types, Running
    <2>5. Take(c) /\ MakeRoom(c)
          BY <1>2, <2>2, <2>3, <2>4 DEF Take, Refuse, Reopen, Find, streamer
    <2> QED BY <1>2, <2>5, EvictedByMany
  <1>3. Control /\ Order /\ Followed /\ [Next]_vars
          => [\A c \in Callers :
                /\ pc[c] = "waiting" /\ pc'[c] = "waiting"
                /\ Alive /\ \A d \in Callers : pc'[d] # "joining"
                /\ entries[asked[c]] \in Running
                /\ entries'[asked[c]] # entries[asked[c]]
                => Cardinality(since'[c]) >= Capacity]_vars
        BY <1>2
  <1> HIDE DEF Evicted
  <1> QED BY <1>1, <1>3, InitControl, NextControl, InitOrder, NextOrder, NextFollowed, PTL
          DEF Spec, WaitedForKept
=============================================================================
