-------------------------- MODULE RequestContract --------------------------
(***************************************************************************)
(* What the request pipeline promises each of its callers, whatever the    *)
(* keys, sessions and buckets behind it do: a request is put on the wire   *)
(* while it is open and at no other time, no more often than its kind      *)
(* allows, and it is answered.                                             *)
(***************************************************************************)
EXTENDS Naturals

CONSTANTS
  Callers,    \* those who make requests
  Limits      \* how often a request of some kind may go on the wire

VARIABLES
  open,       \* the caller waits for its answer
  allowed,    \* the limit of its request
  sent        \* how often the request went on the wire

vars == <<open, allowed, sent>>

Init ==
  /\ open = [c \in Callers |-> FALSE]
  /\ allowed \in [Callers -> Limits]
  /\ sent = [c \in Callers |-> 0]

Issue(c) ==
  /\ ~open[c]
  /\ open' = [open EXCEPT ![c] = TRUE]
  /\ \E limit \in Limits : allowed' = [allowed EXCEPT ![c] = limit]
  /\ UNCHANGED sent

Transmit(c) ==
  /\ open[c]
  /\ sent[c] < allowed[c]
  /\ sent' = [sent EXCEPT ![c] = @ + 1]
  /\ UNCHANGED <<open, allowed>>

Answer(c) ==
  /\ open[c]
  /\ open' = [open EXCEPT ![c] = FALSE]
  /\ sent' = [sent EXCEPT ![c] = 0]
  /\ UNCHANGED allowed

Next == \E c \in Callers : Issue(c) \/ Transmit(c) \/ Answer(c)

Spec == Init /\ [][Next]_vars
=============================================================================
