------------------------- MODULE MCDynamicStreamer -------------------------
(***************************************************************************)
(* DynamicStreamer for TLC.                                                *)
(***************************************************************************)
EXTENDS DynamicStreamer

CONSTANTS ui, feed, dax, ftse    \* two callers, two markets

TwoCallers == {ui, feed}
TwoMarkets == {dax, ftse}

\* One connection that closes and two that are opened in its place.
ThreeConns == 1 .. 3
=============================================================================
