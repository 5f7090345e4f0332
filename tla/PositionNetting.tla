--------------------------- MODULE PositionNetting ---------------------------
(***************************************************************************)
(* PositionsResponse::compact_by_epic (src/model/responses.rs): the        *)
(* positions of an account, each marked at the market or not, netted into  *)
(* one per EPIC with `+` of Position and PositionDetails                   *)
(* (src/presentation/account.rs).                                          *)
(*                                                                         *)
(* Sizes and levels are integers of some unit; of what identifies or       *)
(* limits a position nothing is kept.  The level of a netted position is   *)
(* the plain mean of the two, whatever their sizes: it is left out, and    *)
(* with it the marking of positions that are already netted.               *)
(***************************************************************************)
EXTENDS Integers

CONSTANTS
  Instruments,  \* EPICs
  Sizes,        \* sizes of single positions
  Openings,     \* the levels they were opened at
  Bids,         \* prices IG quotes for an EPIC
  Offers,
  MostPositions,\* bound on the positions of an account
  Unknown       \* None of an Option

NettedPositions == [direction : {"buy", "sell"}, size : Nat, pnl : Int \cup {Unknown}]

ASSUME NettingAssumption ==
  /\ Sizes \subseteq Nat /\ Openings \subseteq Int /\ Bids \subseteq Int /\ Offers \subseteq Int
  /\ MostPositions \in Nat /\ Unknown \notin Int \cup NettedPositions

VARIABLES
  market,       \* bid and offer of each EPIC, Unknown where IG quotes none
  epic_map,     \* EPIC to the position netted so far, or Unknown
  net,          \* history: bought less sold, per EPIC
  marked,       \* history: how many positions had a P&L, per EPIC
  longs,        \* history: size and cost of those that were bought
  shorts,       \*          and of those that were sold
  compacted     \* how many positions were compacted

pos == <<market, epic_map, net, marked, longs, shorts, compacted>>

\* Mutant: the net keeps the direction of the first position.
DirectionKept(left_, right_) == left_.direction

\* The larger one's; on a tie the net is flat and its direction immaterial.
Direction(left_, right_) ==
  IF left_.direction # right_.direction /\ right_.size > left_.size
  THEN right_.direction ELSE left_.direction

Distance(a, b) == IF a > b THEN a - b ELSE b - a

Size(left_, right_) ==
  IF left_.direction = right_.direction THEN left_.size + right_.size
  ELSE Distance(left_.size, right_.size)

Profit(left_, right_) ==
  IF left_.pnl = Unknown THEN right_.pnl
  ELSE IF right_.pnl = Unknown THEN left_.pnl ELSE left_.pnl + right_.pnl

\* Position::add
Netted(left_, right_) ==
  [direction |-> Direction(left_, right_), size |-> Size(left_, right_),
   pnl |-> Profit(left_, right_)]

\* what is bought is sold at the bid, what is sold is bought back at the offer.
PnlChecked(direction, size, level, quote) ==
  IF direction = "buy" THEN IF quote.bid = Unknown THEN Unknown ELSE (quote.bid - level) * size
  ELSE IF quote.offer = Unknown THEN Unknown ELSE (level - quote.offer) * size

\* update_pnl: without a price it is zero.
UpdatePnl(direction, size, level, quote) ==
  IF PnlChecked(direction, size, level, quote) = Unknown THEN 0
  ELSE PnlChecked(direction, size, level, quote)

Totals == [Instruments -> [size : Nat, cost : Int]]

NettingInit ==
  /\ market \in [Instruments -> [bid : Bids \cup {Unknown}, offer : Offers \cup {Unknown}]]
  /\ epic_map = [e \in Instruments |-> Unknown]
  /\ net = [e \in Instruments |-> 0]
  /\ marked = [e \in Instruments |-> 0]
  /\ longs = [e \in Instruments |-> [size |-> 0, cost |-> 0]] /\ shorts = longs
  /\ compacted = 0

Counted(totals, e, size, level) ==
  [totals EXCEPT ![e] = [size |-> @.size + size, cost |-> @.cost + level * size]]

\* The next position of the list, in whatever order IG lists them.
Compact(e, direction, size, pnl) ==
  /\ compacted < MostPositions
  /\ compacted' = compacted + 1
  /\ LET position == [direction |-> direction, size |-> size, pnl |-> pnl] IN
       epic_map' = [epic_map EXCEPT
         ![e] = IF @ = Unknown THEN position ELSE Netted(@, position)]
  /\ net' = [net EXCEPT ![e] = IF direction = "buy" THEN @ + size ELSE @ - size]
  /\ UNCHANGED market

\* IG sends positions without a P&L, and nobody marked this one.
CompactUnmarked(e, direction, size) ==
  /\ Compact(e, direction, size, Unknown)
  /\ UNCHANGED <<marked, longs, shorts>>

CompactMarked(e, direction, size, level) ==
  /\ Compact(e, direction, size, UpdatePnl(direction, size, level, market[e]))
  /\ marked' = [marked EXCEPT ![e] = @ + 1]
  /\ IF direction = "buy"
     THEN longs' = Counted(longs, e, size, level) /\ UNCHANGED shorts
     ELSE shorts' = Counted(shorts, e, size, level) /\ UNCHANGED longs

CompactNext ==
  \E e \in Instruments, direction \in {"buy", "sell"}, size \in Sizes :
    \/ CompactUnmarked(e, direction, size)
    \/ \E level \in Openings : CompactMarked(e, direction, size, level)
-----------------------------------------------------------------------------
(* Properties.                                                             *)

NettingTypeOK ==
  /\ market \in [Instruments -> [bid : Bids \cup {Unknown}, offer : Offers \cup {Unknown}]]
  /\ epic_map \in [Instruments -> NettedPositions \cup {Unknown}]
  /\ net \in [Instruments -> Int] /\ marked \in [Instruments -> Nat]
  /\ longs \in Totals /\ shorts \in Totals
  /\ compacted \in 0 .. MostPositions

Signed(position) == IF position.direction = "buy" THEN position.size ELSE 0 - position.size

\* What selling the longs at the bid and buying back the shorts at the offer would bring.
Worth(e) ==
  (IF market[e].bid = Unknown THEN 0 ELSE market[e].bid * longs[e].size - longs[e].cost)
  + (IF market[e].offer = Unknown THEN 0 ELSE shorts[e].cost - market[e].offer * shorts[e].size)

\* Netting loses nothing, in whatever order the positions come and however often their
\* direction turns: the netted position of an EPIC is what was bought less what was sold.
\* Its P&L, of positions marked before, is what closing all of those at the quotes would
\* bring, although a netted position keeps neither level nor cost; it is unknown only
\* when none was marked.
NettingTells ==
  \A e \in Instruments :
    /\ epic_map[e] = Unknown => net[e] = 0 /\ marked[e] = 0
    /\ epic_map[e] # Unknown =>
         /\ Signed(epic_map[e]) = net[e]
         /\ epic_map[e].pnl = Unknown <=> marked[e] = 0
         /\ epic_map[e].pnl # Unknown => epic_map[e].pnl = Worth(e)
=============================================================================
