-------------------------- MODULE MCAccountSession --------------------------
(***************************************************************************)
(* AccountSession for TLC.                                                 *)
(***************************************************************************)
EXTENDS AccountSession

CONSTANTS reader, admin, cfd, spread, isa, unset   \* two callers, three accounts

TwoCallers == {reader, admin}
ThreeAccounts == {cfd, spread, isa}
OneTarget == {isa}

\* The cached session, one per caller that it works with or was given, and the one
\* that IG answers with.
FourTokens == 1 .. 4
=============================================================================
