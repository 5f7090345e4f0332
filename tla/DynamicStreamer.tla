-------------------------- MODULE DynamicStreamer --------------------------
(***************************************************************************)
(* DynamicMarketStreamer (src/application/dynamic_streamer.rs): a set of   *)
(* EPICs that callers change, and a Lightstreamer connection that is       *)
(* replaced whenever the set changes.  Clones share the state, so several  *)
(* callers operate on it at once, next to the tasks of the connections.    *)
(*                                                                         *)
(* A step runs from one wait to the next: a wait is a network call, the    *)
(* handshake with a closing connection, or a task's own progress.  Locks   *)
(* held for one assignment are not waits.  A generation number only says   *)
(* which start was the latest, so the latest start itself stands for it.   *)
(* The price channel and its receiver are left out.                        *)
(***************************************************************************)
EXTENDS Naturals, FiniteSets

CONSTANTS
  Callers,      \* the tasks that hold a clone of the streamer
  Epics,        \* the markets
  Conns,        \* bound: connections that exist at a time
  DoubleStart,  \* whether callers start a streamer that is connected
  None          \* None of an Option

ASSUME StreamerAssumption ==
  /\ Conns \subseteq Nat /\ IsFiniteSet(Conns) /\ Conns # {}
  /\ IsFiniteSet(Callers)
  /\ DoubleStart \in BOOLEAN
  /\ None \notin Conns

\* A connection is opening while StreamerClient::new and market_subscribe run, live
\* while its task is in connect(), closing in disconnect(), reporting between the check
\* of its generation and the write of is_connected, closed until its forwarder has ended.
States == {"gone", "opening", "live", "closing", "reporting", "closed"}

VARIABLES
  epics,          \* the subscription list
  is_connected,
  current,        \* the connection the stored Notify pair belongs to
  latest,         \* the connection of the latest generation
  state,          \* where each connection is
  subs,           \* the EPICs it was opened with
  signalled,      \* its shutdown Notify has been notified
  stopped,        \* its stopped Notify holds a permit
  pc,             \* what each caller waits for
  mine,           \* the connection it waits on or opens
  clearing,       \* it is in clear()
  past            \* history: "overlapped" once two operations have; "raced" once a
                  \* connection was claimed while an earlier one was reporting; "expired"
                  \* when a wait outlasted SHUTDOWN_GRACE and nothing was opened since

connections == <<state, subs, signalled, stopped>>
calls       == <<pc, mine, clearing>>
vars        == <<epics, is_connected, current, latest, connections, calls, past>>

Quiet == \A c \in Callers : pc[c] = "idle"

\* A connection nobody can refer to any more stands for one not yet made.
Free == {s \in Conns : state[s] = "gone" /\ s # current /\ \A c \in Callers : mine[c] # s}

\* A caller begins an operation, if a connection is to be had for it (bound Conns).
Begin(c) ==
  /\ pc[c] = "idle"
  /\ Cardinality(Free) > Cardinality({d \in Callers : pc[d] = "wait"})

\* The history, when an operation begins and when a connection is claimed.
Overlap == IF Quiet THEN past ELSE "overlapped"

Raced(before) ==
  IF before # "overlapped" /\ \E s \in Conns : state[s] = "reporting" THEN "raced" ELSE before

Finish(c) ==
  /\ pc' = [pc EXCEPT ![c] = "idle"]
  /\ mine' = [mine EXCEPT ![c] = None]
  /\ clearing' = [clearing EXCEPT ![c] = FALSE]

\* Mutants: the signal goes to whatever is stored, a connection or none; it is lost.
SignalAnything ==
  signalled' = [s \in Conns \cup {current} |-> s = current \/ signalled[s]]
SignalLost == UNCHANGED signalled

\* notify_one on the stored shutdown signal: it is kept until its task looks, which
\* a task that has left connect() does not.
Signal == signalled' = [s \in Conns |-> signalled[s] \/ (s = current /\ state[s] = "live")]

\* start_internal up to its first network call: the list as it is now, and a new
\* generation.
Claim(c) ==
  \E s \in Free :
    /\ \A other \in Free : s <= other
    /\ latest' = s
    /\ state' = [state EXCEPT ![s] = "opening"]
    /\ subs' = [subs EXCEPT ![s] = epics]
    /\ pc' = [pc EXCEPT ![c] = "opening"]
    /\ mine' = [mine EXCEPT ![c] = s]

\* The list has changed.  A connected streamer signals its connection and waits for
\* it to confirm.
Reconnect(c) ==
  IF is_connected
  THEN /\ Signal
       /\ pc' = [pc EXCEPT ![c] = "wait"]
       /\ mine' = [mine EXCEPT ![c] = current]
  ELSE UNCHANGED <<signalled, pc, mine>>
-----------------------------------------------------------------------------
Init ==
  /\ epics = {}
  /\ is_connected = FALSE
  /\ current = None /\ latest = None
  /\ state = [s \in Conns |-> "gone"]
  /\ subs = [s \in Conns |-> {}]
  /\ signalled = [s \in Conns |-> FALSE]
  /\ stopped = [s \in Conns |-> FALSE]
  /\ pc = [c \in Callers |-> "idle"]
  /\ mine = [c \in Callers |-> None]
  /\ clearing = [c \in Callers |-> FALSE]
  /\ past = "clean"

Add(c, e) ==
  /\ Begin(c)
  /\ e \notin epics
  /\ past' = Overlap
  /\ epics' = epics \cup {e}
  /\ Reconnect(c)
  /\ UNCHANGED <<is_connected, current, latest, state, subs, stopped, clearing>>

Remove(c, e) ==
  /\ Begin(c)
  /\ e \in epics
  /\ past' = Overlap
  /\ epics' = epics \ {e}
  /\ Reconnect(c)
  /\ UNCHANGED <<is_connected, current, latest, state, subs, stopped, clearing>>

Clear(c) ==
  /\ Begin(c)
  /\ past' = Overlap
  /\ epics' = {}
  /\ Reconnect(c)
  /\ clearing' = [clearing EXCEPT ![c] = is_connected]
  /\ UNCHANGED <<is_connected, current, latest, state, subs, stopped>>

Start(c) ==
  /\ Begin(c)
  /\ DoubleStart \/ ~is_connected
  /\ epics # {}
  /\ Claim(c)
  /\ past' = Raced(Overlap)
  /\ UNCHANGED <<epics, is_connected, current, signalled, stopped, clearing>>

Disconnect(c) ==
  /\ Begin(c)
  /\ past' = Overlap
  /\ Signal
  /\ is_connected' = FALSE
  /\ UNCHANGED <<epics, current, latest, state, subs, stopped, calls>>

\* reconnect after the wait.  An empty list opens nothing, and clear() then reports the
\* streamer stopped.
Continue(c, before) ==
  \/ /\ epics # {}
     /\ Claim(c)
     /\ past' = Raced(before)
     /\ UNCHANGED <<is_connected, clearing>>
  \/ /\ epics = {}
     /\ is_connected' = (is_connected /\ ~clearing[c])
     /\ Finish(c)
     /\ past' = before
     /\ UNCHANGED <<latest, state, subs>>

\* Mutant: the wait for the confirmation has no bound.
ReconnectedUnbounded(c) ==
  /\ pc[c] = "wait"
  /\ stopped[mine[c]]
  /\ stopped' = [stopped EXCEPT ![mine[c]] = FALSE]
  /\ Continue(c, past)
  /\ UNCHANGED <<epics, current, signalled>>

\* The old connection has confirmed that it is closed, or the grace is over.
Reconnected(c) ==
  /\ pc[c] = "wait"
  /\ \/ /\ stopped[mine[c]]
        /\ stopped' = [stopped EXCEPT ![mine[c]] = FALSE]
        /\ Continue(c, past)
     \/ /\ ~stopped[mine[c]]
        /\ UNCHANGED stopped
        /\ Continue(c, IF past = "clean" THEN "expired" ELSE past)
  /\ UNCHANGED <<epics, current, signalled>>

\* start_internal after its network calls.  The first that fails ends the operation;
\* otherwise the connection's Notify pair is stored and its task spawned.
Opened(c) ==
  /\ pc[c] = "opening"
  /\ \/ /\ state' = [state EXCEPT ![mine[c]] = "live"]
        /\ stopped' = [stopped EXCEPT ![mine[c]] = FALSE]
        /\ current' = mine[c]
        /\ is_connected' = ~clearing[c]
        /\ past' = IF past = "expired" THEN "clean" ELSE past
        /\ UNCHANGED subs
     \/ /\ state' = [state EXCEPT ![mine[c]] = "gone"]
        /\ subs' = [subs EXCEPT ![mine[c]] = {}]
        /\ UNCHANGED <<stopped, current, is_connected, past>>
  /\ Finish(c)
  /\ UNCHANGED <<epics, latest, signalled>>
-----------------------------------------------------------------------------
(* The task of a connection.                                               *)

Moves(s, from, to) ==
  /\ state[s] = from
  /\ state' = [state EXCEPT ![s] = to]
  /\ UNCHANGED <<epics, current, latest, calls, past>>

\* connect() returns: it was told to stop, or the session ended by itself.
Leaves(s) ==
  /\ Moves(s, "live", "closing")
  /\ signalled' = [signalled EXCEPT ![s] = FALSE]
  /\ UNCHANGED <<is_connected, subs, stopped>>

ShutDown(s) == signalled[s] /\ Leaves(s)

Lost(s) == ~signalled[s] /\ Leaves(s)

\* Mutant: a task reports its end whatever has been started since.
CheckNoGeneration(s) ==
  /\ Moves(s, "closing", "reporting")
  /\ subs' = [subs EXCEPT ![s] = {}]
  /\ UNCHANGED <<is_connected, signalled, stopped>>

\* The session is closed.  Only a task whose generation is still the latest goes on to
\* report it.
Check(s) ==
  /\ Moves(s, "closing", IF latest = s THEN "reporting" ELSE "closed")
  /\ subs' = [subs EXCEPT ![s] = {}]
  /\ UNCHANGED <<is_connected, signalled, stopped>>

\* Mutant: no task reports its end.
ReportNothing(s) ==
  /\ Moves(s, "reporting", "closed")
  /\ UNCHANGED <<is_connected, subs, signalled, stopped>>

\* The write of is_connected, whatever was started since the check.
Report(s) ==
  /\ Moves(s, "reporting", "closed")
  /\ is_connected' = FALSE
  /\ UNCHANGED <<subs, signalled, stopped>>

\* The forwarder has ended: the handshake.
Confirm(s) ==
  /\ Moves(s, "closed", "gone")
  /\ stopped' = [stopped EXCEPT ![s] = TRUE]
  /\ UNCHANGED <<is_connected, subs, signalled>>

Next ==
  \/ \E c \in Callers :
       \/ \E e \in Epics : Add(c, e) \/ Remove(c, e)
       \/ Clear(c) \/ Start(c) \/ Disconnect(c)
       \/ Reconnected(c) \/ Opened(c)
  \/ \E s \in Conns : ShutDown(s) \/ Lost(s) \/ Check(s) \/ Report(s) \/ Confirm(s)

Spec == Init /\ [][Next]_vars

\* The runtime polls what can run and the grace runs out.  Network calls return: the
\* code itself bounds none.
Fairness ==
  /\ \A c \in Callers : WF_vars(Reconnected(c)) /\ WF_vars(Opened(c))
  /\ \A s \in Conns :
       WF_vars(ShutDown(s)) /\ WF_vars(Check(s)) /\ WF_vars(Report(s)) /\ WF_vars(Confirm(s))

FairSpec == Spec /\ Fairness
-----------------------------------------------------------------------------
(* Properties.                                                             *)

\* Every variable keeps its type: the stored Notify pair belongs to a connection.
TypeOK ==
  /\ epics \subseteq Epics
  /\ is_connected \in BOOLEAN
  /\ current \in Conns \cup {None}
  /\ latest \in Conns \cup {None}
  /\ state \in [Conns -> States]
  /\ subs \in [Conns -> SUBSET Epics]
  /\ signalled \in [Conns -> BOOLEAN]
  /\ stopped \in [Conns -> BOOLEAN]
  /\ pc \in [Callers -> {"idle", "wait", "opening"}]
  /\ mine \in [Callers -> Conns \cup {None}]
  /\ clearing \in [Callers -> BOOLEAN]
  /\ past \in {"clean", "expired", "raced", "overlapped"}

\* The connections that feed the receiver and that nobody has told to stop.
Running == {s \in Conns : state[s] = "live" /\ ~signalled[s]}

\* Operations have not overlapped, and no connection was claimed in the midst of an earlier
\* one's report.
Orderly == past \in {"clean", "expired"}

\* Between orderly operations the one connection that runs is the one a later operation
\* would signal, the streamer knows of it, and it is subscribed to the list as it is:
\* through failed starts, lost sessions, superseded tasks and an expired grace.  Only one
\* claimed between an older task's check of its generation and its write of is_connected
\* may be hidden by that write, which the comment above the check does not expect.
RunningIsCurrent ==
  Orderly /\ Quiet => \A s \in Running : s = current /\ is_connected /\ subs[s] = epics

\* A streamer that reports itself connected has a connection, unless operations
\* overlapped or raced, or a reconnect went on without the old connection's confirmation
\* and then failed to open one.
ConnectedIsTrue ==
  past = "clean" /\ Quiet /\ is_connected => state[current] \in {"live", "closing", "reporting"}

\* Every operation returns: two reconnects that wait for one confirmation do, and a
\* confirmation given before the wait began is not missed.
OperationReturns == \A c \in Callers : pc[c] # "idle" ~> pc[c] = "idle"

\* After disconnect(), clear() or the loss of a session the receiver falls silent:
\* whatever was still running or closing ends, unless an operation goes on.
FallsSilent ==
  Orderly /\ Quiet /\ ~is_connected
    ~> ~Quiet \/ is_connected \/ ~Orderly \/ \A s \in Conns : state[s] \in {"gone", "closed"}

\* The struct's doc: all operations are thread-safe and can be called concurrently;
\* the docs of add and remove: a connected streamer reconnects with the updated list.
UpdatedListIsStreamed ==
  Quiet => \A s \in Running : s = current => subs[s] = epics

=============================================================================
