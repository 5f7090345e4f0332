--------------------------- MODULE MCRequestPool ---------------------------
(***************************************************************************)
(* RequestPool for TLC.                                                    *)
(***************************************************************************)
EXTENDS RequestPool

CONSTANTS reader, trader    \* the callers

Call(mutation, route, escaped, asked) ==
  [mutation |-> mutation, route |-> route, escaped |-> escaped, asked |-> asked]

MarketRead      == Call(FALSE, "other", FALSE, "Standard")
PriceHistory    == Call(FALSE, "prices", FALSE, "Standard")
Order           == Call(TRUE, "otc", FALSE, "Standard")
EscapedMutation == Call(TRUE, "other", TRUE, "Standard")

(* Two callers whose requests meet in the pool: market data, history and a  *)
(* mutation sent once, against orders pinned to the primary.                *)
ReaderAndTrader == {reader, trader}

TwoWorkloads ==
  [c \in ReaderAndTrader |->
     IF c = trader THEN {Order} ELSE {MarketRead, PriceHistory, EscapedMutation}]

(* One caller with every kind of request, over a larger pool.               *)
OneCaller == {reader}

EveryWorkload == [c \in OneCaller |-> {MarketRead, PriceHistory, EscapedMutation, Order}]

(* One caller that reads market data.                                       *)
ReadWorkload == [c \in OneCaller |-> {MarketRead}]
=============================================================================
