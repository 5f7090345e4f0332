---------------------------- MODULE OrderRequests ----------------------------
(***************************************************************************)
(* The orders a caller makes with the constructors of                      *)
(* src/model/requests.rs, and what they are worth at IG: orders that open, *)
(* orders that close, working orders, and the builder calls after them.    *)
(*                                                                         *)
(* Quotes are numbers; sizes are integers of a thousandth, of which IG     *)
(* takes hundredths.  An order is matched with the one price that IG       *)
(* quotes as it arrives; a resting one is followed no further.             *)
(***************************************************************************)
EXTENDS Integers

CONSTANTS
  Quotes,       \* prices that IG quotes and levels that callers name
  Lowest,       \* DEFAULT_ORDER_SELL_LEVEL
  Highest,      \* DEFAULT_ORDER_BUY_LEVEL
  Amounts,      \* sizes that callers ask for
  MostOrders    \* bound on the orders of a caller

ASSUME OrdersAssumption ==
  /\ Quotes \subseteq Int /\ Amounts \subseteq Nat /\ MostOrders \in Nat
  /\ Lowest \in Int /\ Highest \in Int /\ \A price \in Quotes : price \in Lowest .. Highest

VARIABLES
  order,        \* the request as it is built
  doing,        \* "none", "building", or what became of the order
  meant,        \* history: what the caller asked for
  holding,      \* the position at IG, bought less sold
  believed,     \* history: the same by what was asked for and filled
  orders        \* how many orders were placed

ord == <<order, doing, meant, holding, believed, orders>>

\* Direction, OrderType and TimeInForce
Sides == {"buy", "sell"}

OrderTypes == {"limit", "market", "quote", "stop", "stop_limit"}

TimesInForce == {"good_till_cancelled", "good_till_date", "immediate_or_cancel", "fill_or_kill",
                 "execute_and_eliminate"}

NoLevel == Lowest - 1

Request(side, size, type, tif, level) ==
  [side |-> side, size |-> size, type |-> type, tif |-> tif, level |-> level, dated |-> FALSE,
   stop |-> NoLevel, limit |-> NoLevel]

\* round_order_size: to the nearest hundredth.
RoundOrderSize(size) == 10 * ((size + 5) \div 10)

\* CreateOrderRequest::market and limit
Market(side, size) == Request(side, RoundOrderSize(size), "market", "fill_or_kill", NoLevel)

Limit(side, size, level) ==
  Request(side, RoundOrderSize(size), "limit", "good_till_cancelled", level)

AggressiveLevel(side) == IF side = "sell" THEN Lowest ELSE Highest

\* option_to_market and its four callers
OptionToMarket(side, size) ==
  Request(side, RoundOrderSize(size), "limit", "fill_or_kill", AggressiveLevel(side))

\* ClosePositionRequest::market and limit; sizes go as they are.
CloseMarket(side, size) == Request(side, size, "market", "fill_or_kill", NoLevel)

CloseLimit(side, size, level) == Request(side, size, "limit", "fill_or_kill", level)

\* close_option_to_market_by_id and by_epic
CloseOption(side, size) == Request(side, size, "limit", "fill_or_kill", AggressiveLevel(side))

\* CreateWorkingOrderRequest::limit and stop
WorkingOrder(side, size, type, level) == Request(side, size, type, "good_till_cancelled", level)

OrdersInit ==
  /\ order = Request("buy", 0, "market", "fill_or_kill", NoLevel)
  /\ doing = "none"
  /\ meant = [side |-> "buy", size |-> 0, now |-> FALSE, working |-> FALSE, stop |-> NoLevel,
              limit |-> NoLevel]
  /\ holding = 0 /\ believed = 0 /\ orders = 0

Construct(request, size, now, working) ==
  /\ doing # "building" /\ orders < MostOrders
  /\ doing' = "building"
  /\ order' = request
  /\ meant' = [side |-> request.side, size |-> size, now |-> now, working |-> working,
               stop |-> NoLevel, limit |-> NoLevel]
  /\ orders' = orders + 1
  /\ UNCHANGED <<holding, believed>>

\* An order at whatever price IG quotes, an order at a level, an order for later.
NewOrder ==
  \E side \in Sides, size \in Amounts :
    \/ \E request \in {Market(side, size), OptionToMarket(side, size), CloseMarket(side, size),
                       CloseOption(side, size)} : Construct(request, size, TRUE, FALSE)
    \/ \E level \in Quotes : \E request \in {Limit(side, size, level),
         CloseLimit(side, size, level)} : Construct(request, size, FALSE, FALSE)
    \/ \E level \in Quotes, type \in {"limit", "stop"} :
         Construct(WorkingOrder(side, size, type, level), size, FALSE, TRUE)

\* with_stop_loss and with_take_profit, in any order and repeated.
WithStopLoss(level) ==
  /\ doing = "building"
  /\ order' = [order EXCEPT !.stop = level]
  /\ meant' = [meant EXCEPT !.stop = level]
  /\ UNCHANGED <<doing, holding, believed, orders>>

WithTakeProfit(level) ==
  /\ doing = "building"
  /\ order' = [order EXCEPT !.limit = level]
  /\ meant' = [meant EXCEPT !.limit = level]
  /\ UNCHANGED <<doing, holding, believed, orders>>

\* expires_at, expires_tomorrow and expires_in; a working order has them alone.
Expires ==
  /\ doing = "building" /\ meant.working
  /\ order' = [order EXCEPT !.tif = "good_till_date", !.dated = TRUE]
  /\ UNCHANGED <<doing, meant, holding, believed, orders>>

\* IG: a market order meets any price, a limit order one that is no worse.
Meets(request, price) ==
  \/ request.type = "market"
  \/ request.type = "limit" /\ request.side = "buy" /\ price <= request.level
  \/ request.type = "limit" /\ request.side = "sell" /\ price >= request.level

Traded(side, size) == IF side = "buy" THEN size ELSE 0 - size

Place ==
  /\ doing = "building"
  /\ \E price \in Quotes :
       \/ /\ Meets(order, price)
          /\ doing' = "filled"
          /\ holding' = holding + Traded(order.side, order.size)
          /\ believed' = believed + Traded(meant.side, meant.size)
       \/ /\ ~Meets(order, price)
          /\ doing' = IF order.tif = "fill_or_kill" THEN "killed" ELSE "resting"
          /\ UNCHANGED <<holding, believed>>
  /\ UNCHANGED <<order, meant, orders>>

OrdersNext ==
  \/ NewOrder
  \/ \E level \in Quotes : WithStopLoss(level) \/ WithTakeProfit(level)
  \/ Expires
  \/ Place
-----------------------------------------------------------------------------
(* Properties.                                                             *)

OrdersTypeOK ==
  /\ order.side \in Sides /\ order.type \in OrderTypes /\ order.tif \in TimesInForce
  /\ order.size \in Nat /\ order.dated \in BOOLEAN
  /\ order.level \in Quotes \cup {NoLevel, Lowest, Highest}
  /\ doing \in {"none", "building", "filled", "killed", "resting"}
  /\ holding \in Int /\ believed \in Int /\ orders \in 0 .. MostOrders

Magnitude(n) == IF n < 0 THEN 0 - n ELSE n

\* What is meant for the market is filled at every price IG may quote between the two
\* levels, on either side; nothing but a working order, or an opening order at a level,
\* ever rests, and it ends on a date only when the caller gave one.  What the
\* caller believes to hold is off by half a hundredth an order at most, although orders that
\* open are rounded and those that close are not; an order in whole hundredths is exact.
OrdersTell ==
  /\ meant.now => doing \notin {"killed", "resting"}
  /\ order.dated <=> order.tif = "good_till_date"
  /\ order.stop = meant.stop /\ order.limit = meant.limit /\ order.side = meant.side
  /\ meant.size % 10 = 0 => order.size = meant.size
  /\ Magnitude(holding - believed) <= 5 * orders
=============================================================================
