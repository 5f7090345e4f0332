---------------------------- MODULE QuoteStreamer ----------------------------
(***************************************************************************)
(* QuoteStreamer (src/application/quote_streamer.rs): subscriptions to     *)
(* instruments, opened on demand over one Lightstreamer session and never  *)
(* more than a capacity of them.  Clones share the state behind one mutex, *)
(* held across the network calls of a request; each subscription and the   *)
(* session's events have a task of their own.                              *)
(*                                                                         *)
(* A step runs from one wait to the next: the mutex, a network call, a     *)
(* join, a task's own progress.  The quotes are left out: the wait for one *)
(* ends with the quote, with its task or with the caller's patience.       *)
(***************************************************************************)
EXTENDS Naturals, Sequences, FiniteSets

CONSTANTS
  Callers,      \* the tasks that hold a clone of the streamer
  Epics,        \* the instruments
  Capacity,     \* how many of them are subscribed at once
  Tasks,        \* bound: subscription tasks that exist or are referred to at a time
  None          \* None of an Option

ASSUME QuoteAssumption ==
  /\ Capacity \in Nat \ {0}
  /\ Tasks \subseteq Nat /\ IsFiniteSet(Tasks) /\ IsFiniteSet(Epics)
  /\ None \notin Tasks \cup Callers \cup Epics

Labels == {"idle", "lock", "opening", "subscribing", "waiting", "close_lock", "joining"}

VARIABLES
  state,        \* "idle", "open" or "closed"
  events,       \* the session's event task; its end is what the session's alive tells
  entries,      \* the task of each subscribed instrument
  last_used,    \* the subscribed instruments, the least recently used first
  lock,         \* who holds the mutex
  task,         \* a subscription's task; an aborted one still holds its subscription
  told,         \* the subscription tasks the shutdown signal has reached
  events_told,  \* it has reached the event task
  pc,           \* what each caller waits for
  asked,        \* the instrument it asks for, None of a caller that asks for none
  joins,        \* the tasks a close waits for
  since,        \* history: instruments asked for since a caller waits for its quote
  raced         \* history: a close overlapped a request for a subscription

streamer == <<state, events, entries, last_used>>
tasks    == <<task, told, events_told>>
history  == <<since, raced>>
vars     == <<streamer, lock, tasks, pc, asked, joins, history>>

Running == {t \in Tasks : task[t] = "running"}

Alive == state = "open" /\ events = "running"

\* A task that has ended and that nothing refers to stands for one not yet spawned.
Free ==
  {t \in Tasks : /\ task[t] = "ended"
                 /\ \A e \in Epics : entries[e] # t
                 /\ \A c \in Callers : t \notin joins[c]}

Goto(c, label) == pc' = [pc EXCEPT ![c] = label]

\* The call returns, and gives the mutex back.
Release(c) ==
  /\ Goto(c, "idle")
  /\ lock' = None
  /\ asked' = [asked EXCEPT ![c] = None]

Abort(ts) == task' = [t \in Tasks |-> IF t \in ts \cap Running THEN "aborted" ELSE task[t]]

\* The instruments in the order of use, this one left out.
Without(e) ==
  LET place == CHOOSE i \in 1 .. Len(last_used) : last_used[i] = e
  IN IF entries[e] = None
     THEN last_used
     ELSE SubSeq(last_used, 1, place - 1) \o SubSeq(last_used, place + 1, Len(last_used))

\* How many of so many instruments go for one more to have room.
Surplus(n) == IF n < Capacity THEN 0 ELSE n + 1 - Capacity

\* Callers that wait for another quote see that this one was asked for.
Noted(c) ==
  since' = [d \in Callers |->
              IF d = c THEN {}
              ELSE IF pc[d] = "waiting" THEN since[d] \cup ({asked[c]} \ {asked[d]})
              ELSE since[d]]
-----------------------------------------------------------------------------
Init ==
  /\ state = "idle"
  /\ events = "ended"
  /\ entries = [e \in Epics |-> None]
  /\ last_used = <<>>
  /\ lock = None
  /\ task = [t \in Tasks |-> "ended"]
  /\ told = {}
  /\ events_told = FALSE
  /\ pc = [c \in Callers |-> "idle"]
  /\ asked = [c \in Callers |-> None]
  /\ joins = [c \in Callers |-> {}]
  /\ since = [c \in Callers |-> {}]
  /\ raced = FALSE

Quote(c, e) ==
  /\ pc[c] = "idle"
  /\ Goto(c, "lock")
  /\ asked' = [asked EXCEPT ![c] = e]
  /\ raced' = (raced \/ \E d \in Callers : pc[d] = "close_lock")
  /\ UNCHANGED <<streamer, lock, tasks, joins, since>>

\* A closed streamer opens nothing.
Refuse(c) ==
  /\ state = "closed"
  /\ Release(c)
  /\ UNCHANGED <<streamer, tasks, history>>

\* Mutant: the subscriptions of the ended session keep their tasks.
ReopenKeeping(c) ==
  /\ state # "closed" /\ ~Alive
  /\ entries' = [e \in Epics |-> None]
  /\ last_used' = <<>>
  /\ state' = "idle"
  /\ events' = "ended"
  /\ events_told' = FALSE
  /\ lock' = c
  /\ Goto(c, "opening")
  /\ UNCHANGED <<task, told, asked, history>>

\* A session that ended takes its subscriptions with it.
Reopen(c) ==
  /\ state # "closed" /\ ~Alive
  /\ Abort({entries[e] : e \in Epics})
  /\ entries' = [e \in Epics |-> None]
  /\ last_used' = <<>>
  /\ state' = "idle"
  /\ events' = "ended"
  /\ events_told' = FALSE
  /\ lock' = c
  /\ Goto(c, "opening")
  /\ UNCHANGED <<told, asked, history>>

\* Mutant: asking again for an instrument does not count as using it.
TouchedNot(e) == last_used

\* Mutant: its former place in the order stays.
TouchedTwice(e) == Append(last_used, e)

\* The instruments in the order of use, with this one used now.
Touched(e) == Append(Without(e), e)

\* The subscription is there and its task runs.
Find(c) ==
  /\ Alive
  /\ entries[asked[c]] \in Running
  /\ last_used' = Touched(asked[c])
  /\ Goto(c, "waiting")
  /\ Noted(c)
  /\ UNCHANGED <<state, events, entries, lock, tasks, asked, raced>>

\* Mutant: a victim leaves the map and its task goes on.
DropUnstopped(ts) == UNCHANGED task

\* Dropping the task of a subscription is what unsubscribes.
Drop(ts) == Abort(ts)

\* It is not, or its task has ended: room is made for a new one.
MakeRoom(c) ==
  LET others  == Without(asked[c])
      surplus == Surplus(Len(others))
      victims == {others[i] : i \in 1 .. surplus}
  IN /\ Alive
     /\ entries[asked[c]] \notin Running
     /\ Drop({entries[e] : e \in victims})
     /\ entries' = [e \in Epics |-> IF e = asked[c] \/ e \in victims THEN None ELSE entries[e]]
     /\ last_used' = SubSeq(others, surplus + 1, Len(others))
     /\ lock' = c
     /\ Goto(c, "subscribing")
     /\ Noted(c)
     /\ UNCHANGED <<state, events, told, events_told, asked, raced>>

\* subscription() has the mutex.
Take(c) ==
  /\ pc[c] = "lock"
  /\ lock = None
  /\ Refuse(c) \/ Reopen(c) \/ Find(c) \/ MakeRoom(c)
  /\ UNCHANGED joins

\* open_session: on success its event task begins to listen to the shutdown signal.
Opened(c) ==
  /\ pc[c] = "opening"
  /\ \/ /\ state' = "open"
        /\ events' = "running"
        /\ Goto(c, "subscribing")
        /\ Noted(c)
        /\ UNCHANGED <<lock, asked>>
     \/ Release(c) /\ UNCHANGED <<state, events, since>>
  /\ UNCHANGED <<entries, last_used, tasks, joins, raced>>

\* The subscribe request, and the task of the subscription, which begins to listen.
Subscribed(c) ==
  /\ pc[c] = "subscribing"
  /\ \/ \E t \in Free :
          /\ \A other \in Free : t <= other
          /\ task' = [task EXCEPT ![t] = "running"]
          /\ entries' = [entries EXCEPT ![asked[c]] = t]
          /\ last_used' = Append(last_used, asked[c])
          /\ Goto(c, "waiting")
          /\ lock' = None
          /\ UNCHANGED asked
     \/ Release(c) /\ UNCHANGED <<task, entries, last_used>>
  /\ UNCHANGED <<state, events, told, events_told, joins, history>>

\* The quote has arrived, its task has ended, or the caller's wait is over.
Answered(c) ==
  /\ pc[c] = "waiting"
  /\ Goto(c, "idle")
  /\ asked' = [asked EXCEPT ![c] = None]
  /\ since' = [since EXCEPT ![c] = {}]
  /\ UNCHANGED <<streamer, lock, tasks, joins, raced>>
-----------------------------------------------------------------------------
(* close().                                                                *)

\* Mutant: the signal does not reach the subscriptions.
ReachedNone == {}

\* Whom shutdown_tx.send(true) reaches: who listens now, not who will.
Reached == Running

\* The signal goes out before the mutex is asked for.
Shutdown(c) ==
  /\ pc[c] = "idle"
  /\ told' = told \cup Reached
  /\ events_told' = (events_told \/ events = "running")
  /\ Goto(c, "close_lock")
  /\ raced' = (raced \/ \E d \in Callers : pc[d] \in {"lock", "opening", "subscribing"})
  /\ UNCHANGED <<streamer, lock, task, asked, joins, since>>

CloseLocked(c) ==
  /\ pc[c] = "close_lock"
  /\ lock = None
  /\ lock' = c
  /\ joins' = [joins EXCEPT ![c] = {entries[e] : e \in Epics} \ {None}]
  /\ entries' = [e \in Epics |-> None]
  /\ last_used' = <<>>
  /\ Goto(c, "joining")
  /\ UNCHANGED <<state, events, tasks, asked, history>>

\* Mutant: the tasks are not waited for.
JoinedNone(c) == TRUE

\* The tasks of the subscriptions have ended, then that of the events.
Joined(c) ==
  /\ joins[c] \cap Running = {}
  /\ state = "open" => events = "ended"

\* The session is disconnected, cleanly or not.
Closed(c) ==
  /\ pc[c] = "joining"
  /\ Joined(c)
  /\ state' = "closed"
  /\ joins' = [joins EXCEPT ![c] = {}]
  /\ Release(c)
  /\ UNCHANGED <<events, entries, last_used, tasks, history>>
-----------------------------------------------------------------------------
(* The tasks.                                                              *)

End(t) ==
  /\ task' = [task EXCEPT ![t] = "ended"]
  /\ told' = told \ {t}
  /\ UNCHANGED <<streamer, lock, events_told, pc, asked, joins, history>>

\* A subscription's task: told to stop, or IG ended the subscription or refused it.
Stop(t) == task[t] = "running" /\ t \in told /\ End(t)

EndsByItself(t) == task[t] = "running" /\ t \notin told /\ End(t)

\* The runtime drops an aborted task.
Unsubscribe(t) == task[t] = "aborted" /\ End(t)

EndEvents ==
  /\ events' = "ended"
  /\ events_told' = FALSE
  /\ UNCHANGED <<state, entries, last_used, lock, task, told, pc, asked, joins, history>>

\* The session's events: told to stop, or the session is over.
StopEvents == events = "running" /\ events_told /\ EndEvents

SessionLost == events = "running" /\ ~events_told /\ EndEvents

Work(c) == Opened(c) \/ Subscribed(c) \/ Answered(c) \/ Closed(c)

Next ==
  \/ \E c \in Callers :
       \/ \E e \in Epics : Quote(c, e)
       \/ Shutdown(c) \/ Take(c) \/ CloseLocked(c) \/ Work(c)
  \/ \E t \in Tasks : Stop(t) \/ EndsByItself(t) \/ Unsubscribe(t)
  \/ StopEvents \/ SessionLost

Spec == Init /\ [][Next]_vars

\* The mutex serves its waiters in order; the runtime polls what can run; the caller
\* bounds the wait for a quote.  That network calls return is assumed: no code bounds
\* them.  A subscription or a session need not end by itself.
Fairness ==
  /\ \A c \in Callers :
       SF_vars(Take(c)) /\ SF_vars(CloseLocked(c)) /\ WF_vars(Work(c))
  /\ \A t \in Tasks : WF_vars(Stop(t)) /\ WF_vars(Unsubscribe(t))
  /\ WF_vars(StopEvents)

FairSpec == Spec /\ Fairness
-----------------------------------------------------------------------------
(* Properties.                                                             *)

\* Every variable has its type; no instrument is listed as used twice.
TypeOK ==
  /\ state \in {"idle", "open", "closed"}
  /\ events \in {"running", "ended"}
  /\ entries \in [Epics -> Tasks \cup {None}]
  /\ last_used \in Seq(Epics)
  /\ Len(last_used) = Cardinality({e \in Epics : entries[e] # None})
  /\ lock \in Callers \cup {None}
  /\ task \in [Tasks -> {"running", "aborted", "ended"}]
  /\ told \subseteq Tasks
  /\ events_told \in BOOLEAN
  /\ pc \in [Callers -> Labels]
  /\ asked \in [Callers -> Epics \cup {None}]
  /\ joins \in [Callers -> SUBSET Tasks]
  /\ since \in [Callers -> SUBSET Epics]
  /\ raced \in BOOLEAN

\* No subscription is left without an owner who will stop it: a task that runs is in
\* the map or waited for, through evictions, failed opens and lost sessions.
TasksOwned ==
  \A t \in Running : (\E e \in Epics : entries[e] = t) \/ (\E c \in Callers : t \in joins[c])

\* No more subscriptions run than IG grants, apart from those already aborted.
WithinCapacity == Cardinality(Running) <= Capacity

\* After close() has returned nothing the streamer spawned runs, and nothing is opened
\* by a request that was waiting meanwhile.
ClosedIsSilent == state = "closed" => Running = {} /\ events = "ended"

\* A caller that waits for a quote keeps its subscription until as many other
\* instruments have been asked for since as there is room for, unless the session
\* ends or is closed.
WaitedForKept ==
  [][\A c \in Callers :
       /\ pc[c] = "waiting" /\ pc'[c] = "waiting"
       /\ Alive /\ \A d \in Callers : pc'[d] # "joining"
       /\ entries[asked[c]] \in Running
       /\ entries'[asked[c]] # entries[asked[c]]
       => Cardinality(since'[c]) >= Capacity]_vars

\* Every call returns, unless a close met a request for a subscription.
OperationReturns == \A c \in Callers : pc[c] # "idle" ~> pc[c] = "idle" \/ raced

\* The doc of QuoteStreamer: call close to unsubscribe and close the session, every
\* task it spawned stops then.  A close that waits for the tasks comes to its end, even
\* if the session's event task never ends by itself.
CloseReturns ==
  \A c \in Callers : pc[c] = "joining" /\ Alive ~> pc[c] # "joining" \/ ~Alive
=============================================================================
