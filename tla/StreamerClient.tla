--------------------------- MODULE StreamerClient ---------------------------
(***************************************************************************)
(* StreamerClient (src/application/client.rs): one Lightstreamer session,  *)
(* opened by the first subscription and again after a disconnect, and a    *)
(* converter task per subscription that turns its events into a channel of *)
(* values.  Every operation borrows the client mutably, so there is one at *)
(* a time; its caller may give it up at any await.                         *)
(*                                                                         *)
(* Sessions and tasks are numbered as they come.  Reconnections happen     *)
(* inside a session; the values, and which kind a subscription is, are     *)
(* left out.                                                               *)
(***************************************************************************)
EXTENDS Naturals, FiniteSets

CONSTANTS
  MaxSessions,  \* bound on the sessions opened
  MaxTasks      \* bound on the subscriptions made

ASSUME StreamerAssumption == MaxSessions \in Nat \ {0} /\ MaxTasks \in Nat

Sessions == 1 .. MaxSessions
Tasks    == 1 .. MaxTasks
NoSession == 0

VARIABLES
  pc,           \* the operation in progress, or "idle", or "dropped"
  client,       \* the session of `client`, or NoSession
  session_events, \* the session whose events are kept for connect, or NoSession
  watched,      \* the session whose events connect consumes
  opened,       \* sessions opened so far
  alive,        \* sessions that have not ended for good
  task,         \* per converter its session, where it is and whether its receiver is there
  started,      \* converters spawned so far
  converter_tasks, \* handles of converters
  told,         \* converters whose shutdown.changed() is ready
  detached,     \* converters whose handle a join that was given up has dropped
  left          \* history: sessions that a disconnect or a drop gave up

str == <<pc, client, session_events, watched, opened, alive, task, started, converter_tasks,
          told, detached, left>>

session == <<client, session_events, opened, alive>>
tasks   == <<task, started, converter_tasks, told, detached>>

\* A converter waits for an event, converts one, or has ended and why.
Places == {"wait", "busy", "signal", "stream", "receiver"}

Running == {t \in 1 .. started : task[t].at \in {"wait", "busy"}}

StreamerInit ==
  /\ pc = "idle"
  /\ client = NoSession /\ session_events = NoSession /\ watched = NoSession
  /\ opened = 0 /\ alive = {}
  /\ task = [t \in Tasks |-> [session |-> NoSession, at |-> "stream", receiver |-> FALSE]]
  /\ started = 0 /\ converter_tasks = {} /\ told = {} /\ detached = {}
  /\ left = {}

Ended(t, why) ==
  /\ task' = [task EXCEPT ![t].at = why]
  /\ told' = told \ {t}
  /\ UNCHANGED <<pc, session, watched, started, converter_tasks, detached, left>>

\* watch::Sender::send reaches every receiver there is, one that is busy too.
Hearing == Running

\* Mutant: a new receiver finds the value of an earlier shutdown.
HearingLate(t) == IF left # {} THEN {t} ELSE {}

\* Sender::subscribe marks the value there is as seen.
HearingNew(t) == {}
-----------------------------------------------------------------------------
(* Operations of the client.                                               *)

\* A *_subscribe call: the session is opened if there is none.
Subscribe ==
  /\ pc = "idle" /\ started < MaxTasks
  /\ client = NoSession => opened < MaxSessions
  /\ pc' = IF client = NoSession THEN "opening" ELSE "subscribing"
  /\ UNCHANGED <<session, watched, tasks, left>>

SessionOpened ==
  /\ pc = "opening"
  /\ opened' = opened + 1
  /\ alive' = alive \cup {opened + 1}
  /\ client' = opened + 1 /\ session_events' = opened + 1
  /\ pc' = "subscribing"
  /\ UNCHANGED <<watched, tasks, left>>

\* The subscription is there: its converter starts.  It is not on a session that ended.
Subscribed ==
  /\ pc = "subscribing" /\ client \in alive
  /\ started' = started + 1
  /\ task' = [task EXCEPT ![started + 1] = [session |-> client, at |-> "wait", receiver |-> TRUE]]
  /\ converter_tasks' = converter_tasks \cup {started + 1}
  /\ told' = told \cup HearingNew(started + 1)
  /\ pc' = "idle"
  /\ UNCHANGED <<session, watched, detached, left>>

\* The session cannot be opened or the subscription cannot be sent; an open session stays.
SubscribeFailed ==
  /\ pc \in {"opening", "subscribing"}
  /\ pc' = "idle"
  /\ UNCHANGED <<session, watched, tasks, left>>

\* Without events to take, connect returns at once.
Connect ==
  /\ pc = "idle" /\ session_events # NoSession
  /\ watched' = session_events
  /\ session_events' = NoSession
  /\ pc' = "connect"
  /\ UNCHANGED <<client, opened, alive, tasks, left>>

ConnectReturns ==
  /\ pc' = "idle"
  /\ watched' = NoSession
  /\ UNCHANGED <<session, tasks, left>>

\* The caller's shutdown or a signal: the session stays open.
Shutdown == pc = "connect" /\ ConnectReturns

\* SessionEvent::Closed, with a result that tells who closed it.
Closed == pc = "connect" /\ watched \notin alive /\ ConnectReturns

\* disconnect tells every converter to stop and waits for them.
Disconnect ==
  /\ pc = "idle"
  /\ told' = told \cup Hearing
  /\ left' = left \cup ({client} \ {NoSession})
  /\ pc' = "join"
  /\ UNCHANGED <<session, watched, task, started, converter_tasks, detached>>

\* The events of the session go too: nobody can run a session that is closed.
Joined ==
  /\ pc = "join" /\ converter_tasks \cap Running = {}
  /\ converter_tasks' = {}
  /\ session_events' = NoSession
  /\ client' = NoSession
  /\ IF client = NoSession THEN pc' = "idle" /\ UNCHANGED alive
     ELSE /\ pc' = "close"
          /\ alive' = alive \ {client}
  /\ UNCHANGED <<watched, opened, task, started, told, detached, left>>

SessionClosed ==
  /\ pc = "close"
  /\ pc' = "idle"
  /\ UNCHANGED <<session, watched, tasks, left>>

\* The caller drops the future of an operation, of a select or a timeout: connect loses
\* the events it took, a join leaves the converters it did not wait for.
Cancel ==
  /\ pc \in {"opening", "subscribing", "connect", "join", "close"}
  /\ pc' = "idle"
  /\ watched' = NoSession
  /\ converter_tasks' = IF pc = "join" THEN {} ELSE converter_tasks
  /\ detached' = IF pc = "join" THEN detached \cup converter_tasks ELSE detached
  /\ UNCHANGED <<session, task, started, told, left>>

\* Drop: the converters are told and aborted, the session is closed.
DropClient ==
  /\ pc = "idle"
  /\ pc' = "dropped"
  /\ told' = told \cup Hearing
  /\ converter_tasks' = {}
  /\ left' = left \cup ({client} \ {NoSession})
  /\ client' = NoSession /\ session_events' = NoSession
  /\ alive' = alive \ {client}
  /\ UNCHANGED <<watched, opened, task, started, detached>>
-----------------------------------------------------------------------------
(* The converters, their receivers, and IG.                                *)

\* IG ends the session for good, or the library gives up reconnecting.
SessionDies ==
  /\ \E s \in alive : alive' = alive \ {s}
  /\ UNCHANGED <<pc, client, session_events, watched, opened, tasks, left>>

DropReceiver(t) ==
  /\ t \in Running /\ task[t].receiver
  /\ task' = [task EXCEPT ![t].receiver = FALSE]
  /\ UNCHANGED <<pc, session, watched, started, converter_tasks, told, detached, left>>

Update(t) ==
  /\ t \in Running /\ task[t].at = "wait" /\ task[t].session \in alive
  /\ task' = [task EXCEPT ![t].at = "busy"]
  /\ UNCHANGED <<pc, session, watched, started, converter_tasks, told, detached, left>>

\* A value that nobody receives ends the converter.
Convert(t) ==
  /\ t \in Running /\ task[t].at = "busy"
  /\ \/ /\ task[t].receiver
        /\ task' = [task EXCEPT ![t].at = "wait"]
        /\ UNCHANGED <<pc, session, watched, started, converter_tasks, told, detached, left>>
     \/ ~task[t].receiver /\ Ended(t, "receiver")

Stopped(t) ==
  /\ t \in Running /\ task[t].at = "wait" /\ t \in told
  /\ Ended(t, "signal")

\* The stream ends with its session.
StreamEnds(t) ==
  /\ t \in Running /\ task[t].at = "wait" /\ task[t].session \notin alive
  /\ Ended(t, "stream")

\* IG refuses the subscription or ends it.
Rejected(t) ==
  /\ t \in Running /\ task[t].at = "wait" /\ task[t].session \in alive
  /\ Ended(t, "stream")

\* What calls and IG do, and what the runtime goes on with once it is ready.
StreamerCall ==
  \/ Subscribe \/ Connect \/ Shutdown \/ Disconnect \/ Cancel \/ DropClient \/ SessionDies
  \/ \E t \in Tasks : DropReceiver(t) \/ Update(t) \/ Rejected(t)

StreamerStep == SessionOpened \/ Subscribed \/ SubscribeFailed \/ Closed \/ Joined \/ SessionClosed

ConverterStep(t) == Convert(t) \/ StreamEnds(t)
-----------------------------------------------------------------------------
(* Properties.                                                             *)

StreamerTypeOK ==
  /\ pc \in {"idle", "opening", "subscribing", "connect", "join", "close", "dropped"}
  /\ client \in Sessions \cup {NoSession}
  /\ session_events \in {client, NoSession} /\ watched \in {client, NoSession}
  /\ opened \in 0 .. MaxSessions /\ alive \subseteq {client} \ {NoSession}
  /\ task \in [Tasks -> [session : Sessions \cup {NoSession}, at : Places, receiver : BOOLEAN]]
  /\ started \in 0 .. MaxTasks /\ converter_tasks \subseteq 1 .. started
  /\ told \subseteq Running /\ detached \subseteq 1 .. started /\ left \subseteq 1 .. opened

\* No converter outlives its client unnoticed: one that runs is joined by a disconnect or
\* has been told to stop, also when a disconnect was given up half way; a session is
\* closed only when every converter that was waited for has unsubscribed; and the shutdown of
\* one session never stops the converter of a later one.
ConvertersOwned ==
  /\ Running \subseteq converter_tasks \cup told
  /\ client = NoSession => converter_tasks = {}
  /\ pc = "close" => Running \subseteq detached
  /\ \A t \in 1 .. started : task[t].at = "signal" => task[t].session \in left

\* A disconnect returns, however busy the converters are; connect returns once the session
\* has ended for good; and after a drop every converter ends.
Awaiting ==
  \/ pc \in {"opening", "subscribing", "join", "close"}
  \/ pc = "connect" /\ watched \notin alive
  \/ pc = "dropped" /\ Running # {}
=============================================================================
