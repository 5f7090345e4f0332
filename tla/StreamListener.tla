---------------------------- MODULE StreamListener ----------------------------
(***************************************************************************)
(* The pump of a callback: Listener::spawn and on_item_update              *)
(* (src/application/interfaces/listener.rs), between the stream that a     *)
(* subscription returned and whoever signals it to stop.                   *)
(*                                                                         *)
(* What an update becomes is StreamUpdates'; here it is its number.        *)
(***************************************************************************)
EXTENDS Naturals, Sequences

CONSTANT
  MaxUpdates    \* bound on the updates of a subscription, and on those queued

ASSUME ListenerAssumption == MaxUpdates \in Nat

VARIABLES
  events,       \* what the library has queued for the pump
  published,    \* how many updates IG sent
  stream,       \* "open", how IG or the caller ended it, or "dropped" with its client
  pump,         \* "running", "ended" by itself, "stopped" by the signal
  shutdown,     \* a permit of the Notify
  called        \* history: the updates the callback was given, in order

lis == <<events, published, stream, pump, shutdown, called>>

Event(kind, n) == [kind |-> kind, n |-> n]

ListenerInit ==
  /\ events = <<>> /\ published = 0 /\ stream = "open"
  /\ pump = "running" /\ shutdown = FALSE /\ called = <<>>

\* IG sends an update, or confirms the subscription, or says that it dropped updates.
Publish ==
  /\ stream = "open" /\ Len(events) < MaxUpdates
  /\ \/ /\ published < MaxUpdates
        /\ published' = published + 1
        /\ events' = Append(events, Event("update", published'))
     \/ /\ events' = Append(events, Event("notice", 0))
        /\ UNCHANGED published
  /\ UNCHANGED <<stream, pump, shutdown, called>>

\* A refused subscription has had no updates; one that is unsubscribed has no more.
EndStream ==
  /\ stream = "open"
  /\ \/ stream' = "rejected" /\ published = 0
     \/ stream' = "unsubscribed"
     \/ stream' = "dropped"
  /\ events' = IF stream' = "dropped" THEN events ELSE Append(events, Event(stream', 0))
  /\ UNCHANGED <<published, pump, shutdown, called>>

\* notify_one by the owner of the pump.
SignalPump ==
  /\ ~shutdown
  /\ shutdown' = TRUE
  /\ UNCHANGED <<events, published, stream, pump, called>>

\* on_item_update: an error of the callback is logged, and the pump goes on.
OnItemUpdate ==
  /\ Head(events).kind = "update"
  /\ called' = Append(called, Head(events).n)
  /\ UNCHANGED pump

PumpEvent ==
  /\ pump = "running" /\ events # <<>>
  /\ events' = Tail(events)
  /\ \/ OnItemUpdate
     \/ Head(events).kind = "notice" /\ UNCHANGED <<pump, called>>
     \/ Head(events).kind \in {"rejected", "unsubscribed"} /\ pump' = "ended" /\ UNCHANGED called
  /\ UNCHANGED <<published, stream, shutdown>>

\* None: the queue is empty and nobody can add to it.
PumpClosed ==
  /\ pump = "running" /\ events = <<>> /\ stream # "open"
  /\ pump' = "ended"
  /\ UNCHANGED <<events, published, stream, shutdown, called>>

PumpStep == PumpEvent \/ PumpClosed

PumpStopped ==
  /\ pump = "running" /\ shutdown
  /\ pump' = "stopped" /\ shutdown' = FALSE
  /\ UNCHANGED <<events, published, stream, called>>
-----------------------------------------------------------------------------
(* Properties.                                                             *)

ListenerTypeOK ==
  /\ published \in 0 .. MaxUpdates
  /\ stream \in {"open", "rejected", "unsubscribed", "dropped"}
  /\ pump \in {"running", "ended", "stopped"} /\ shutdown \in BOOLEAN
  /\ called \in Seq(1 .. MaxUpdates)

\* The callback hears the updates in the order IG sent them, each once and none after one it
\* missed, however it fails; and a pump that ended without being told to has given it
\* all of them.
ListenerTells ==
  /\ \A i \in DOMAIN called : called[i] = i
  /\ pump = "ended" => Len(called) = published

\* The pump has a reason to end.
PumpEnding == pump = "running" /\ (shutdown \/ stream # "open")
=============================================================================
