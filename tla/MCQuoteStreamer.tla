-------------------------- MODULE MCQuoteStreamer --------------------------
(***************************************************************************)
(* QuoteStreamer for TLC.                                                  *)
(***************************************************************************)
EXTENDS QuoteStreamer

CONSTANTS pricer, hedger, call, put, index    \* two callers, three instruments

TwoCallers == {pricer, hedger}
ThreeEpics == {call, put, index}

\* One that a caller keeps, one that it opens, one still being dropped.
ThreeTasks == 1 .. 3
=============================================================================
