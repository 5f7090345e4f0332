----------------------------- MODULE RecordProofs -----------------------------
(***************************************************************************)
(* Theorems about what is made of IG's data and of what callers ask for:   *)
(* netted positions, orders, streamed updates and their callbacks, stored  *)
(* records, the expiry and the instrument of a transaction.                *)
(***************************************************************************)
EXTENDS PositionNetting, OrderRequests, StreamListener, TransactionExpiry, WireValues,
        StreamUpdates, InstrumentNames, SequenceTheorems, TLAPS

-----------------------------------------------------------------------------
(* Positions, for any quotes and order of them.                            *)

NettingSpec == NettingInit /\ [][CompactNext]_pos

\* An EPIC without a marked position has no totals yet.
Untouched ==
  \A e \in Instruments : marked[e] = 0 =>
    longs[e] = [size |-> 0, cost |-> 0] /\ shorts[e] = [size |-> 0, cost |-> 0]

NettingInv == NettingTypeOK /\ NettingTells /\ Untouched

\* What a position brings at a quoted, before it is marked or not.
Brings(quoted, direction, size, level) ==
  IF direction = "buy"
  THEN IF quoted.bid = Unknown THEN 0 ELSE quoted.bid * size - level * size
  ELSE IF quoted.offer = Unknown THEN 0 ELSE level * size - quoted.offer * size

\* Multiplication distributes over the difference of two integers.
LEMMA Distribute ==
  ASSUME NEW a \in Int, NEW b \in Int, NEW c \in Int
  PROVE  (a - b) * c = a * c - b * c /\ a * (b + c) = a * b + a * c
  BY SMT

MarketQuotes == [bid : Bids \cup {Unknown}, offer : Offers \cup {Unknown}]

\* update_pnl gives what the position brings.
LEMMA UpdatePnlBrings ==
  ASSUME NEW quoted \in MarketQuotes, NEW direction \in {"buy", "sell"}, NEW size \in Sizes,
         NEW level \in Openings
  PROVE  /\ UpdatePnl(direction, size, level, quoted) \in Int
         /\ UpdatePnl(direction, size, level, quoted) = Brings(quoted, direction, size, level)
  <1>1. size \in Int /\ level \in Int /\ Unknown \notin Int
        BY NettingAssumption
  <1>2. /\ quoted.bid # Unknown => quoted.bid \in Int
        /\ quoted.offer # Unknown => quoted.offer \in Int
        BY NettingAssumption DEF MarketQuotes
  <1>3. CASE direction = "buy"
    <2>1. CASE quoted.bid = Unknown
          BY <1>3, <2>1 DEF UpdatePnl, PnlChecked, Brings
    <2>2. CASE quoted.bid # Unknown
      <3>1. (quoted.bid - level) * size = quoted.bid * size - level * size
            BY <1>1, <1>2, <2>2, Distribute
      <3>2. (quoted.bid - level) * size \in Int
            BY <1>1, <1>2, <2>2
      <3>3. PnlChecked(direction, size, level, quoted) = (quoted.bid - level) * size
            BY <1>3, <2>2 DEF PnlChecked
      <3>4. UpdatePnl(direction, size, level, quoted) = (quoted.bid - level) * size
            BY <1>1, <3>2, <3>3 DEF UpdatePnl
      <3> QED BY <1>3, <2>2, <3>1, <3>2, <3>4 DEF Brings
    <2> QED BY <2>1, <2>2
  <1>4. CASE direction = "sell"
    <2>1. CASE quoted.offer = Unknown
          BY <1>4, <2>1 DEF UpdatePnl, PnlChecked, Brings
    <2>2. CASE quoted.offer # Unknown
      <3>1. (level - quoted.offer) * size = level * size - quoted.offer * size
            BY <1>1, <1>2, <2>2, Distribute
      <3>2. (level - quoted.offer) * size \in Int
            BY <1>1, <1>2, <2>2
      <3>3. PnlChecked(direction, size, level, quoted) = (level - quoted.offer) * size
            BY <1>4, <2>2 DEF PnlChecked
      <3>4. UpdatePnl(direction, size, level, quoted) = (level - quoted.offer) * size
            BY <1>1, <3>2, <3>3 DEF UpdatePnl
      <3> QED BY <1>4, <2>2, <3>1, <3>2, <3>4 DEF Brings
    <2> QED BY <2>1, <2>2
  <1> QED BY <1>3, <1>4

\* Netting adds the signed sizes, and the profits that are known.
LEMMA NettedAdds ==
  ASSUME NEW left_ \in NettedPositions, NEW right_ \in NettedPositions
  PROVE  /\ Netted(left_, right_) \in NettedPositions
         /\ Signed(Netted(left_, right_)) = Signed(left_) + Signed(right_)
         /\ Netted(left_, right_).pnl = Profit(left_, right_)
  BY NettingAssumption
  DEF NettedPositions, Netted, Signed, Direction, Size, Distance, Profit

\* The same of a compaction, at the EPIC of the position and at the others.
LEMMA CompactAdds ==
  ASSUME NettingInv, NEW e \in Instruments, NEW direction \in {"buy", "sell"},
         NEW size \in Sizes, NEW pnl \in Int \cup {Unknown}, Compact(e, direction, size, pnl)
  PROVE  /\ epic_map' \in [Instruments -> NettedPositions \cup {Unknown}]
         /\ net' \in [Instruments -> Int] /\ compacted' \in 0 .. MostPositions
         /\ epic_map'[e] # Unknown /\ Signed(epic_map'[e]) = net'[e]
         /\ epic_map'[e].pnl =
              IF epic_map[e] = Unknown \/ marked[e] = 0 THEN pnl
              ELSE IF pnl = Unknown THEN epic_map[e].pnl ELSE epic_map[e].pnl + pnl
         /\ \A f \in Instruments \ {e} : epic_map'[f] = epic_map[f] /\ net'[f] = net[f]
  <1> DEFINE position == [direction |-> direction, size |-> size, pnl |-> pnl]
  <1>1. position \in NettedPositions /\ position # Unknown /\ size \in Nat
        BY NettingAssumption DEF NettedPositions
  <1>2. Signed(position) = IF direction = "buy" THEN size ELSE 0 - size
        BY DEF Signed
  <1>3. epic_map \in [Instruments -> NettedPositions \cup {Unknown}]
        /\ net \in [Instruments -> Int] /\ compacted \in 0 .. MostPositions
        BY DEF NettingInv, NettingTypeOK
  <1>4. epic_map'[e] = IF epic_map[e] = Unknown THEN position ELSE Netted(epic_map[e], position)
        BY <1>3 DEF Compact
  <1>5. net'[e] = net[e] + Signed(position)
        BY <1>1, <1>2, <1>3 DEF Compact
  <1>6. CASE epic_map[e] = Unknown
    <2>1. epic_map'[e] = position /\ net[e] = 0 BY <1>4, <1>6 DEF NettingInv, NettingTells
    <2>2. Signed(position) \in Int BY <1>1, <1>2
    <2>3. Signed(epic_map'[e]) = net'[e] BY <1>5, <2>1, <2>2
    <2> QED BY <1>1, <1>3, <1>6, <2>1, <2>3, NettingAssumption DEF Compact
  <1>7. CASE epic_map[e] # Unknown
    <2>1. epic_map[e] \in NettedPositions BY <1>3, <1>7
    <2>2. /\ epic_map'[e] \in NettedPositions
          /\ Signed(epic_map'[e]) = Signed(epic_map[e]) + Signed(position)
          /\ epic_map'[e].pnl = Profit(epic_map[e], position)
          BY <1>1, <1>4, <1>7, <2>1, NettedAdds
    <2>3. Signed(epic_map[e]) = net[e] /\ (epic_map[e].pnl = Unknown <=> marked[e] = 0)
          BY <1>7 DEF NettingInv, NettingTells
    <2>4. Signed(epic_map'[e]) = net'[e] BY <1>5, <2>2, <2>3
    <2>5. epic_map'[e].pnl = IF marked[e] = 0 THEN pnl
                             ELSE IF pnl = Unknown THEN epic_map[e].pnl
                             ELSE epic_map[e].pnl + pnl
          BY <2>2, <2>3 DEF Profit
    <2> QED BY <1>1, <1>3, <1>7, <2>2, <2>4, <2>5, NettingAssumption DEF Compact
  <1> QED BY <1>6, <1>7

\* An empty map has netted everything that was counted.
LEMMA NettingInitInv == NettingInit => NettingInv
  BY NettingAssumption
  DEF NettingInit, NettingInv, NettingTypeOK, NettingTells, Untouched, Totals

\* A position without a P&L leaves the totals alone.
LEMMA UnmarkedStep ==
  ASSUME NettingInv, NEW e \in Instruments, NEW direction \in {"buy", "sell"},
         NEW size \in Sizes, CompactUnmarked(e, direction, size)
  PROVE  NettingInv'
  <1>1. Compact(e, direction, size, Unknown)
        /\ UNCHANGED <<marked, longs, shorts, market>>
        BY DEF CompactUnmarked, Compact
  <1>2. /\ epic_map' \in [Instruments -> NettedPositions \cup {Unknown}]
        /\ net' \in [Instruments -> Int] /\ compacted' \in 0 .. MostPositions
        /\ epic_map'[e] # Unknown /\ Signed(epic_map'[e]) = net'[e]
        /\ epic_map'[e].pnl =
             IF epic_map[e] = Unknown \/ marked[e] = 0 THEN Unknown ELSE epic_map[e].pnl
        /\ \A f \in Instruments \ {e} : epic_map'[f] = epic_map[f] /\ net'[f] = net[f]
        BY <1>1, CompactAdds, ZenonT(30)
  <1>3. NettingTypeOK'
        BY <1>1, <1>2 DEF NettingInv, NettingTypeOK
  <1>4. Untouched'
        BY <1>1 DEF NettingInv, Untouched
  <1>5. \A f \in Instruments : Worth(f)' = Worth(f)
        BY <1>1 DEF Worth
  <1>6. NettingTells'
    <2> SUFFICES ASSUME NEW f \in Instruments
                 PROVE  /\ epic_map'[f] = Unknown => net'[f] = 0 /\ marked'[f] = 0
                        /\ epic_map'[f] # Unknown =>
                             /\ Signed(epic_map'[f]) = net'[f]
                             /\ epic_map'[f].pnl = Unknown <=> marked'[f] = 0
                             /\ epic_map'[f].pnl # Unknown => epic_map'[f].pnl = Worth(f)
        BY <1>5 DEF NettingTells, Signed
    <2>1. /\ epic_map[f] = Unknown => net[f] = 0 /\ marked[f] = 0
          /\ epic_map[f] # Unknown =>
               /\ Signed(epic_map[f]) = net[f]
               /\ epic_map[f].pnl = Unknown <=> marked[f] = 0
               /\ epic_map[f].pnl # Unknown => epic_map[f].pnl = Worth(f)
          BY DEF NettingInv, NettingTells
    <2>2. CASE f = e BY <1>1, <1>2, <2>1, <2>2
    <2>3. CASE f # e BY <1>1, <1>2, <2>1, <2>3 DEF Signed
    <2> QED BY <2>2, <2>3
  <1> QED BY <1>3, <1>4, <1>6 DEF NettingInv

\* Counting a position adds what it brings to what the EPIC is worth.
LEMMA WorthAdds ==
  ASSUME NettingInv, NEW e \in Instruments, NEW direction \in {"buy", "sell"},
         NEW size \in Sizes, NEW level \in Openings, market' = market,
         IF direction = "buy"
         THEN longs' = Counted(longs, e, size, level) /\ UNCHANGED shorts
         ELSE shorts' = Counted(shorts, e, size, level) /\ UNCHANGED longs
  PROVE  /\ longs' \in Totals /\ shorts' \in Totals
         /\ Worth(e)' = Worth(e) + Brings(market[e], direction, size, level)
         /\ \A f \in Instruments \ {e} :
              longs'[f] = longs[f] /\ shorts'[f] = shorts[f] /\ Worth(f)' = Worth(f)
  <1>1. size \in Nat /\ level \in Int /\ Unknown \notin Int /\ level * size \in Int
        BY NettingAssumption
  <1>2. /\ market[e].bid # Unknown => market[e].bid \in Int
        /\ market[e].offer # Unknown => market[e].offer \in Int
        BY NettingAssumption DEF NettingInv, NettingTypeOK
  <1>3. longs \in Totals /\ shorts \in Totals
        BY DEF NettingInv, NettingTypeOK
  <1>4. /\ longs[e].size \in Nat /\ longs[e].cost \in Int
        /\ shorts[e].size \in Nat /\ shorts[e].cost \in Int
        BY <1>3 DEF Totals
  <1>5. CASE direction = "buy"
    <2>1. longs' = Counted(longs, e, size, level) /\ shorts' = shorts
          BY <1>5
    <2>2. /\ longs' \in Totals
          /\ longs'[e].size = longs[e].size + size
          /\ longs'[e].cost = longs[e].cost + level * size
          /\ \A f \in Instruments \ {e} : longs'[f] = longs[f]
          BY <1>1, <1>3, <1>4, <2>1 DEF Counted, Totals
    <2>3. market[e].bid # Unknown =>
            /\ market[e].bid * (longs[e].size + size)
                 = market[e].bid * longs[e].size + market[e].bid * size
            /\ market[e].bid * longs[e].size \in Int /\ market[e].bid * size \in Int
          BY <1>1, <1>2, <1>4, Distribute
    <2>4. market[e].offer # Unknown => market[e].offer * shorts[e].size \in Int
          BY <1>2, <1>4
    <2>5. Worth(e)' = Worth(e) + Brings(market[e], direction, size, level)
      <3>1. CASE market[e].bid = Unknown
            BY <1>4, <1>5, <2>1, <2>4, <3>1 DEF Worth, Brings
      <3>2. CASE market[e].bid # Unknown
            BY <1>1, <1>4, <1>5, <2>1, <2>2, <2>3, <2>4, <3>2 DEF Worth, Brings
      <3> QED BY <3>1, <3>2
    <2>6. \A f \in Instruments \ {e} : Worth(f)' = Worth(f)
          BY <2>1, <2>2 DEF Worth
    <2> QED BY <1>3, <2>1, <2>2, <2>5, <2>6
  <1>6. CASE direction = "sell"
    <2>1. shorts' = Counted(shorts, e, size, level) /\ longs' = longs
          BY <1>6
    <2>2. /\ shorts' \in Totals
          /\ shorts'[e].size = shorts[e].size + size
          /\ shorts'[e].cost = shorts[e].cost + level * size
          /\ \A f \in Instruments \ {e} : shorts'[f] = shorts[f]
          BY <1>1, <1>3, <1>4, <2>1 DEF Counted, Totals
    <2>3. market[e].offer # Unknown =>
            /\ market[e].offer * (shorts[e].size + size)
                 = market[e].offer * shorts[e].size + market[e].offer * size
            /\ market[e].offer * shorts[e].size \in Int /\ market[e].offer * size \in Int
          BY <1>1, <1>2, <1>4, Distribute
    <2>4. market[e].bid # Unknown => market[e].bid * longs[e].size \in Int
          BY <1>2, <1>4
    <2>5. Worth(e)' = Worth(e) + Brings(market[e], direction, size, level)
      <3>1. CASE market[e].offer = Unknown
            BY <1>4, <1>6, <2>1, <2>4, <3>1 DEF Worth, Brings
      <3>2. CASE market[e].offer # Unknown
            BY <1>1, <1>4, <1>6, <2>1, <2>2, <2>3, <2>4, <3>2 DEF Worth, Brings
      <3> QED BY <3>1, <3>2
    <2>6. \A f \in Instruments \ {e} : Worth(f)' = Worth(f)
          BY <2>1, <2>2 DEF Worth
    <2> QED BY <1>3, <2>1, <2>2, <2>5, <2>6
  <1> QED BY <1>5, <1>6

\* A marked position that is netted in adds its P&L, which is what it adds to the worth of
\* the positions marked before, and its signed size.
LEMMA MarkedStep ==
  ASSUME NettingInv, NEW e \in Instruments, NEW direction \in {"buy", "sell"},
         NEW size \in Sizes, NEW level \in Openings, CompactMarked(e, direction, size, level)
  PROVE  NettingInv'
  <1> DEFINE brings == Brings(market[e], direction, size, level)
  <1>1. market[e] \in MarketQuotes
        BY DEF NettingInv, NettingTypeOK, MarketQuotes
  <1>2. UpdatePnl(direction, size, level, market[e]) = brings /\ brings \in Int
        BY <1>1, UpdatePnlBrings
  <1> HIDE DEF brings
  <1>3. Compact(e, direction, size, brings) /\ market' = market
        BY <1>2 DEF CompactMarked, Compact
  <1>4. /\ epic_map' \in [Instruments -> NettedPositions \cup {Unknown}]
        /\ net' \in [Instruments -> Int] /\ compacted' \in 0 .. MostPositions
        /\ epic_map'[e] # Unknown /\ Signed(epic_map'[e]) = net'[e]
        /\ epic_map'[e].pnl = IF epic_map[e] = Unknown \/ marked[e] = 0 THEN brings
                              ELSE IF brings = Unknown THEN epic_map[e].pnl
                              ELSE epic_map[e].pnl + brings
        /\ \A f \in Instruments \ {e} : epic_map'[f] = epic_map[f] /\ net'[f] = net[f]
        BY <1>2, <1>3, CompactAdds
  <1>5. brings # Unknown
        BY <1>2, NettingAssumption
  <1>6. /\ marked \in [Instruments -> Nat] /\ marked' \in [Instruments -> Nat]
        /\ marked'[e] = marked[e] + 1 /\ marked'[e] # 0
        /\ \A f \in Instruments \ {e} : marked'[f] = marked[f]
        BY DEF NettingInv, NettingTypeOK, CompactMarked
  <1>7. /\ longs' \in Totals /\ shorts' \in Totals
        /\ Worth(e)' = Worth(e) + brings
        /\ \A f \in Instruments \ {e} :
             longs'[f] = longs[f] /\ shorts'[f] = shorts[f] /\ Worth(f)' = Worth(f)
        BY <1>3, WorthAdds DEF CompactMarked, brings
  <1>8. NettingTypeOK'
        BY <1>3, <1>4, <1>6, <1>7 DEF NettingInv, NettingTypeOK
  <1>9. Untouched'
        BY <1>6, <1>7 DEF NettingInv, Untouched
  <1>10. epic_map'[e].pnl = Worth(e)' /\ epic_map'[e].pnl # Unknown
    <2>1. CASE marked[e] = 0
      <3>1. /\ longs[e] = [size |-> 0, cost |-> 0] /\ shorts[e] = [size |-> 0, cost |-> 0]
            /\ (market[e].bid # Unknown => market[e].bid \in Int)
            /\ (market[e].offer # Unknown => market[e].offer \in Int)
            BY <2>1, NettingAssumption DEF NettingInv, NettingTypeOK, Untouched
      <3>2. Worth(e) = 0
            BY <3>1 DEF Worth
      <3> QED BY <1>2, <1>4, <1>5, <1>7, <2>1, <3>2
    <2>2. CASE marked[e] # 0
      <3>1. epic_map[e] # Unknown /\ epic_map[e].pnl # Unknown /\ epic_map[e].pnl = Worth(e)
            BY <2>2 DEF NettingInv, NettingTells
      <3>2. epic_map[e].pnl \in Int
            BY <3>1 DEF NettingInv, NettingTypeOK, NettedPositions
      <3>3. epic_map'[e].pnl = Worth(e) + brings
            BY <1>4, <1>5, <2>2, <3>1
      <3> QED BY <1>2, <1>7, <3>1, <3>2, <3>3, NettingAssumption
    <2> QED BY <2>1, <2>2
  <1>11. NettingTells'
    <2> SUFFICES ASSUME NEW f \in Instruments
                 PROVE  /\ epic_map'[f] = Unknown => net'[f] = 0 /\ marked'[f] = 0
                        /\ epic_map'[f] # Unknown =>
                             /\ Signed(epic_map'[f]) = net'[f]
                             /\ epic_map'[f].pnl = Unknown <=> marked'[f] = 0
                             /\ epic_map'[f].pnl # Unknown => epic_map'[f].pnl = Worth(f)'
        BY DEF NettingTells, Signed
    <2>1. CASE f = e BY <1>4, <1>6, <1>10, <2>1
    <2>2. CASE f # e
      <3>1. /\ epic_map[f] = Unknown => net[f] = 0 /\ marked[f] = 0
            /\ epic_map[f] # Unknown =>
                 /\ Signed(epic_map[f]) = net[f]
                 /\ epic_map[f].pnl = Unknown <=> marked[f] = 0
                 /\ epic_map[f].pnl # Unknown => epic_map[f].pnl = Worth(f)
            BY DEF NettingInv, NettingTells
      <3> QED BY <1>4, <1>6, <1>7, <2>2, <3>1 DEF Signed
    <2> QED BY <2>1, <2>2
  <1> QED BY <1>8, <1>9, <1>11 DEF NettingInv

\* Every step of the netting keeps the invariant.
LEMMA NettingNextInv == NettingInv /\ [CompactNext]_pos => NettingInv'
  <1> SUFFICES ASSUME NettingInv, [CompactNext]_pos
               PROVE  NettingInv'
      OBVIOUS
  <1>1. CASE CompactNext
        BY <1>1, UnmarkedStep, MarkedStep DEF CompactNext
  <1>2. CASE UNCHANGED pos
        BY <1>2
        DEF pos, NettingInv, NettingTypeOK, NettingTells, Untouched, Totals, Worth, Signed
  <1> QED BY <1>1, <1>2

\* The netted positions have their types, whatever positions an account has.
THEOREM NettingTypes == NettingSpec => []NettingTypeOK
  <1>1. NettingInv => NettingTypeOK BY DEF NettingInv
  <1> QED BY <1>1, NettingInitInv, NettingNextInv, PTL DEF NettingSpec

\* compact_by_epic keeps the net size and the P&L of marked positions, for any sizes,
\* levels and quotes and in any order of the positions.
THEOREM NettingKeeps == NettingSpec => []NettingTells
  <1>1. NettingInv => NettingTells BY DEF NettingInv
  <1> QED BY <1>1, NettingInitInv, NettingNextInv, PTL DEF NettingSpec

-----------------------------------------------------------------------------
(* Orders.                                                                 *)

OrdersSpec == OrdersInit /\ [][OrdersNext]_ord

Stops == Quotes \cup {NoLevel}

OrderRecords ==
  [side : Sides, size : Nat, type : OrderTypes, tif : TimesInForce,
   level : Quotes \cup {NoLevel, Lowest, Highest}, dated : BOOLEAN, stop : Stops, limit : Stops]

Wishes ==
  [side : Sides, size : Nat, now : BOOLEAN, working : BOOLEAN, stop : Stops, limit : Stops]

\* Every price meets the order.
AnyPrice(request) ==
  \/ request.type = "market"
  \/ request.type = "limit" /\ request.level = AggressiveLevel(request.side)

\* An order is what was asked for, to half a hundredth.
AsAsked(request, wish) ==
  /\ request \in OrderRecords /\ wish \in Wishes
  /\ request.side = wish.side /\ request.stop = wish.stop /\ request.limit = wish.limit
  /\ request.dated <=> request.tif = "good_till_date"
  /\ wish.size % 10 = 0 => request.size = wish.size
  /\ request.size - wish.size <= 5 /\ wish.size - request.size <= 5
  /\ wish.now => AnyPrice(request) /\ ~wish.working

\* While an order is built, its own share of the difference is still to come.
OrdersInv ==
  /\ OrdersTypeOK
  /\ AsAsked(order, meant)
  /\ meant.now => doing \notin {"killed", "resting"}
  /\ doing = "building" => orders >= 1
  /\ LET filled == IF doing = "building" THEN orders - 1 ELSE orders IN
       holding - believed <= 5 * filled /\ believed - holding <= 5 * filled

\* Rounding leaves whole hundredths alone and is never off by more than half of one.
LEMMA RoundingFacts ==
  ASSUME NEW size \in Nat
  PROVE  /\ RoundOrderSize(size) \in Nat
         /\ size % 10 = 0 => RoundOrderSize(size) = size
         /\ RoundOrderSize(size) - size <= 5 /\ size - RoundOrderSize(size) <= 5
  BY DEF RoundOrderSize

\* What the constructors make is what was asked for.
LEMMA ConstructedAsAsked ==
  ASSUME NEW side \in Sides, NEW size \in Amounts, NEW now \in BOOLEAN, NEW working \in BOOLEAN,
         NEW request,
         \/ /\ now /\ ~working
            /\ request \in {Market(side, size), OptionToMarket(side, size),
                           CloseMarket(side, size), CloseOption(side, size)}
         \/ /\ ~now /\ ~working
            /\ \E level \in Quotes :
                 request \in {Limit(side, size, level), CloseLimit(side, size, level)}
         \/ /\ ~now /\ working
            /\ \E level \in Quotes, type \in {"limit", "stop"} :
                 request = WorkingOrder(side, size, type, level)
  PROVE  AsAsked(request, [side |-> request.side, size |-> size, now |-> now, working |-> working,
                           stop |-> NoLevel, limit |-> NoLevel])
  <1>1. size \in Nat
    BY OrdersAssumption
  <1>2. AggressiveLevel(side) \in {Lowest, Highest}
    BY DEF AggressiveLevel
  <1>3. PICK rounded \in Nat :
          /\ rounded = RoundOrderSize(size)
          /\ size % 10 = 0 => rounded = size
          /\ rounded - size <= 5 /\ size - rounded <= 5
    BY <1>1, RoundingFacts
  <1>4. \E s \in {rounded, size}, t \in {"market", "limit", "stop"},
           tif \in {"fill_or_kill", "good_till_cancelled"},
           l \in Quotes \cup {NoLevel, Lowest, Highest} :
             /\ request = Request(side, s, t, tif, l)
             /\ now => ~working /\ (t = "market" \/ (t = "limit" /\ l = AggressiveLevel(side)))
    BY <1>2, <1>3 DEF Market, Limit, OptionToMarket, CloseMarket, CloseLimit, CloseOption,
                      WorkingOrder
  <1>5. PICK s \in {rounded, size}, t \in {"market", "limit", "stop"},
             tif \in {"fill_or_kill", "good_till_cancelled"},
             l \in Quotes \cup {NoLevel, Lowest, Highest} :
             /\ request = Request(side, s, t, tif, l)
             /\ now => ~working /\ (t = "market" \/ (t = "limit" /\ l = AggressiveLevel(side)))
    BY <1>4, Zenon
  <1>6. /\ request = [side |-> side, size |-> s, type |-> t, tif |-> tif, level |-> l,
                      dated |-> FALSE, stop |-> NoLevel, limit |-> NoLevel]
        /\ s \in Nat /\ s - size <= 5 /\ size - s <= 5 /\ (size % 10 = 0 => s = size)
    BY <1>1, <1>3, <1>5 DEF Request
  <1> QED BY <1>1, <1>5, <1>6
          DEF AsAsked, OrderRecords, Wishes, AnyPrice, Stops, OrderTypes, TimesInForce

LEMMA NewOrderInv ==
  ASSUME OrdersInv, NewOrder
  PROVE  OrdersInv'
  <1>1. PICK side \in Sides, size \in Amounts, now \in BOOLEAN, working \in BOOLEAN :
          \E request :
            /\ Construct(request, size, now, working)
            /\ \/ /\ now /\ ~working
                  /\ request \in {Market(side, size), OptionToMarket(side, size),
                                 CloseMarket(side, size), CloseOption(side, size)}
               \/ /\ ~now /\ ~working
                  /\ \E level \in Quotes :
                       request \in {Limit(side, size, level), CloseLimit(side, size, level)}
               \/ /\ ~now /\ working
                  /\ \E level \in Quotes, type \in {"limit", "stop"} :
                       request = WorkingOrder(side, size, type, level)
    <2>1. PICK side \in Sides, size \in Amounts :
            \/ \E request \in {Market(side, size), OptionToMarket(side, size),
                   CloseMarket(side, size), CloseOption(side, size)} :
                 Construct(request, size, TRUE, FALSE)
            \/ \E level \in Quotes : \E request \in {Limit(side, size, level),
                   CloseLimit(side, size, level)} : Construct(request, size, FALSE, FALSE)
            \/ \E level \in Quotes, type \in {"limit", "stop"} :
                 Construct(WorkingOrder(side, size, type, level), size, FALSE, TRUE)
      BY DEF NewOrder
    <2> QED BY <2>1, Zenon
  <1>2. PICK request :
          /\ Construct(request, size, now, working)
          /\ AsAsked(request, [side |-> request.side, size |-> size, now |-> now,
                              working |-> working, stop |-> NoLevel, limit |-> NoLevel])
    BY <1>1, ConstructedAsAsked
  <1>3. /\ doing' = "building" /\ order' = request /\ orders' = orders + 1 /\ orders < MostOrders
        /\ meant' = [side |-> request.side, size |-> size, now |-> now, working |-> working,
                      stop |-> NoLevel, limit |-> NoLevel]
        /\ doing # "building" /\ UNCHANGED <<holding, believed>>
    BY <1>2 DEF Construct
  <1>4. AsAsked(order, meant)' /\ order' \in OrderRecords
    <2>1. AsAsked(order', meant')
      BY <1>2, <1>3
    <2> QED BY <2>1 DEF AsAsked, AnyPrice
  <1>5. OrdersTypeOK'
    BY <1>3, <1>4, OrdersAssumption DEF OrdersInv, OrdersTypeOK, OrderRecords
  <1> QED BY <1>3, <1>4, <1>5 DEF OrdersInv, OrdersTypeOK

LEMMA BuilderInv ==
  ASSUME OrdersInv, Expires \/ \E level \in Quotes : WithStopLoss(level) \/ WithTakeProfit(level)
  PROVE  OrdersInv'
  <1>1. AsAsked(order, meant) /\ doing = "building" /\ UNCHANGED <<doing, holding, believed, orders>>
    BY DEF OrdersInv, Expires, WithStopLoss, WithTakeProfit
  <1>2. AsAsked(order', meant')
    <2>1. CASE Expires
      <3>1. order' = [order EXCEPT !.tif = "good_till_date", !.dated = TRUE] /\ meant' = meant
        BY <2>1 DEF Expires
      <3> QED BY <1>1, <3>1 DEF AsAsked, OrderRecords, TimesInForce, AnyPrice
    <2>2. ASSUME NEW level \in Quotes, WithStopLoss(level)
          PROVE  AsAsked(order', meant')
      <3>1. order' = [order EXCEPT !.stop = level] /\ meant' = [meant EXCEPT !.stop = level]
        BY <2>2 DEF WithStopLoss
      <3> QED BY <1>1, <3>1 DEF AsAsked, OrderRecords, Wishes, Stops, AnyPrice
    <2>3. ASSUME NEW level \in Quotes, WithTakeProfit(level)
          PROVE  AsAsked(order', meant')
      <3>1. order' = [order EXCEPT !.limit = level] /\ meant' = [meant EXCEPT !.limit = level]
        BY <2>3 DEF WithTakeProfit
      <3> QED BY <1>1, <3>1 DEF AsAsked, OrderRecords, Wishes, Stops, AnyPrice
    <2> QED BY <2>1, <2>2, <2>3
  <1>3. AsAsked(order, meant)'
    BY <1>2 DEF AsAsked, AnyPrice
  <1>4. OrdersTypeOK'
    BY <1>1, <1>2 DEF OrdersInv, OrdersTypeOK, AsAsked, OrderRecords
  <1> QED BY <1>1, <1>3, <1>4 DEF OrdersInv

\* What any price meets is filled; what is filled adds its difference to the belief.
LEMMA PlaceInv ==
  ASSUME OrdersInv, Place
  PROVE  OrdersInv'
  <1>1. /\ AsAsked(order, meant) /\ doing = "building" /\ UNCHANGED <<order, meant, orders>>
        /\ order \in OrderRecords /\ meant \in Wishes /\ order.side = meant.side
        /\ holding \in Int /\ believed \in Int /\ orders \in 0 .. MostOrders /\ orders >= 1
        /\ holding - believed <= 5 * (orders - 1) /\ believed - holding <= 5 * (orders - 1)
    BY DEF OrdersInv, OrdersTypeOK, AsAsked, Place
  <1>2. PICK price \in Quotes :
       \/ /\ Meets(order, price)
          /\ doing' = "filled"
          /\ holding' = holding + Traded(order.side, order.size)
          /\ believed' = believed + Traded(meant.side, meant.size)
       \/ /\ ~Meets(order, price)
          /\ doing' = IF order.tif = "fill_or_kill" THEN "killed" ELSE "resting"
          /\ UNCHANGED <<holding, believed>>
    BY DEF Place
  <1>3. meant.now => Meets(order, price)
    <2>1. price \in Int /\ Lowest <= price /\ price <= Highest
      BY OrdersAssumption
    <2> QED BY <1>1, <2>1
            DEF AsAsked, AnyPrice, AggressiveLevel, Meets, OrderRecords, Sides
  <1>4. /\ holding' \in Int /\ believed' \in Int
        /\ holding' - believed' <= 5 * orders /\ believed' - holding' <= 5 * orders
    <2>1. CASE UNCHANGED <<holding, believed>>
      BY <1>1, <2>1
    <2>2. CASE /\ holding' = holding + Traded(order.side, order.size)
               /\ believed' = believed + Traded(meant.side, meant.size)
      <3>1. PICK s \in Nat, m \in Nat : /\ s = order.size /\ m = meant.size
                                        /\ s - m <= 5 /\ m - s <= 5
        BY <1>1 DEF AsAsked, OrderRecords, Wishes
      <3>2. \/ Traded(order.side, order.size) = s /\ Traded(meant.side, meant.size) = m
            \/ Traded(order.side, order.size) = 0 - s /\ Traded(meant.side, meant.size) = 0 - m
        BY <1>1, <3>1 DEF Traded
      <3> QED BY <1>1, <2>2, <3>1, <3>2
    <2> QED BY <1>2, <2>1, <2>2
  <1>5. doing' \in {"filled", "killed", "resting"} /\ (meant.now => doing' = "filled")
    BY <1>2, <1>3
  <1>6. AsAsked(order, meant)'
    BY <1>1 DEF AsAsked, AnyPrice
  <1>7. OrdersTypeOK'
    BY <1>1, <1>4, <1>5 DEF OrdersInv, OrdersTypeOK
  <1> QED BY <1>1, <1>4, <1>5, <1>6, <1>7 DEF OrdersInv

LEMMA OrdersBegin == OrdersInit => OrdersInv
  <1> SUFFICES ASSUME OrdersInit PROVE OrdersInv
    OBVIOUS
  <1>1. order = [side |-> "buy", size |-> 0, type |-> "market", tif |-> "fill_or_kill",
                 level |-> NoLevel, dated |-> FALSE, stop |-> NoLevel, limit |-> NoLevel]
    BY DEF OrdersInit, Request
  <1>2. meant = [side |-> "buy", size |-> 0, now |-> FALSE, working |-> FALSE, stop |-> NoLevel,
                 limit |-> NoLevel]
    BY DEF OrdersInit
  <1>3. AsAsked(order, meant)
    <2>1. order \in OrderRecords /\ meant \in Wishes
      BY <1>1, <1>2 DEF OrderRecords, Wishes, Sides, OrderTypes, TimesInForce, Stops
    <2>2. /\ order.side = meant.side /\ order.stop = meant.stop /\ order.limit = meant.limit
          /\ order.size = meant.size /\ order.dated = FALSE /\ order.tif = "fill_or_kill"
          /\ ~meant.now
      BY <1>1, <1>2
    <2>3. order.size - meant.size <= 5 /\ meant.size - order.size <= 5
      BY <1>1, <1>2
    <2> QED BY <2>1, <2>2, <2>3 DEF AsAsked
  <1>4. OrdersTypeOK
    <2>1. orders \in 0 .. MostOrders
      BY OrdersAssumption DEF OrdersInit
    <2>2. order \in OrderRecords
      BY <1>3 DEF AsAsked
    <2>3. /\ order.side \in Sides /\ order.type \in OrderTypes /\ order.tif \in TimesInForce
          /\ order.size \in Nat /\ order.dated \in BOOLEAN
          /\ order.level \in Quotes \cup {NoLevel, Lowest, Highest}
      BY <2>2 DEF OrderRecords
    <2> QED BY <2>1, <2>3 DEF OrdersInit, OrdersTypeOK
  <1> QED BY <1>2, <1>3, <1>4 DEF OrdersInit, OrdersInv

LEMMA OrdersStep == OrdersInv /\ [OrdersNext]_ord => OrdersInv'
  <1> SUFFICES ASSUME OrdersInv, [OrdersNext]_ord PROVE OrdersInv'
    OBVIOUS
  <1>1. CASE OrdersNext
    BY <1>1, NewOrderInv, BuilderInv, PlaceInv DEF OrdersNext
  <1>2. CASE UNCHANGED ord
    BY <1>2 DEF ord, OrdersInv, OrdersTypeOK, AsAsked, AnyPrice
  <1> QED BY <1>1, <1>2

LEMMA OrdersImply == OrdersInv => OrdersTell
  <1> SUFFICES ASSUME OrdersInv PROVE OrdersTell
    OBVIOUS
  <1>1. Magnitude(holding - believed) <= 5 * orders
    BY DEF OrdersInv, OrdersTypeOK, Magnitude
  <1> QED BY <1>1 DEF OrdersInv, OrdersTell, AsAsked

\* What is meant for the market is filled at any price between the two extreme levels, and
\* rounding keeps the caller's belief within half a hundredth an order, for any amounts.
THEOREM OrdersAreTold == OrdersSpec => []OrdersTell
  BY OrdersBegin, OrdersStep, OrdersImply, PTL DEF OrdersSpec

-----------------------------------------------------------------------------
(* The expiry of a transaction.                                            *)

ExpirySpec == ExpiryInit /\ [][ReadPeriod]_exp

ExpiryInv == ExpiryTypeOK /\ ExpiryTells

LEMMA FirstOfType ==
  ASSUME NEW year \in 1999 .. 2099, NEW month \in 1 .. 12
  PROVE  FirstOf(year, month) \in Int
  <1>1. FirstOfYear(year) \in Int
    BY DEF FirstOfYear
  <1>2. DaysBefore[month] \in Int
    BY DEF DaysBefore
  <1> QED BY <1>1, <1>2 DEF FirstOf

\* The day before a month is the last one of the month before, over the end of a year too.
LEMMA DayBefore ==
  ASSUME NEW year \in 2000 .. 2099, NEW month \in 1 .. 12
  PROVE  LastDayBefore(year, month) = FirstOf(year, month) - 1
  <1>1. CASE month = 1
    <2>1. PICK prev \in 1999 .. 2098 : prev = year - 1
      OBVIOUS
    <2>2. Date(prev, 12, 31) = FirstOf(prev, 12) + 31 - 1
      BY DEF Date, MonthLength
    <2>3. DaysBefore[12] = 334 /\ DaysBefore[1] = 0
      BY DEF DaysBefore
    <2>4. PICK leap \in {0, 1} : leap = IF Leap(prev) THEN 1 ELSE 0
      OBVIOUS
    <2>5. FirstOf(prev, 12) = FirstOfYear(prev) + 334 + leap
      BY <2>3, <2>4 DEF FirstOf
    <2>6. FirstOfYear(prev) \in Int /\ FirstOfYear(year) \in Int
      BY <2>1 DEF FirstOfYear
    <2>7. FirstOf(year, 1) = FirstOfYear(year)
      BY <2>3, <2>6 DEF FirstOf
    <2>8. FirstOfYear(year) = FirstOfYear(prev) + 365 + leap
      <3>1. year - 1 = prev
        BY <2>1
      <3>2. CASE Leap(prev)
        BY <2>1, <2>4, <3>1, <3>2 DEF FirstOfYear, Leap
      <3>3. CASE ~Leap(prev)
        BY <2>1, <2>4, <3>1, <3>3 DEF FirstOfYear, Leap
      <3> QED BY <3>2, <3>3
    <2>9. FirstOf(prev, 12) + 31 - 1 = FirstOf(year, 1) - 1
      BY ONLY <2>4, <2>5, <2>6, <2>7, <2>8
    <2> QED BY <1>1, <2>1, <2>2, <2>9 DEF LastDayBefore
  <1>2. CASE month # 1
    BY <1>2 DEF LastDayBefore
  <1> QED BY <1>1, <1>2

\* Going back from a day to a Wednesday.
LEMMA BackToWednesday ==
  ASSUME NEW date \in Int
  PROVE  Back(date) \in 0 .. 6 /\ Weekday(date - Back(date)) = 2
  <1>1. PICK w \in 0 .. 6 : w = (date + 5) % 7
    OBVIOUS
  <1>2. Back(date) = IF w >= 2 THEN w - 2 ELSE w + 5
    BY <1>1 DEF Back, Weekday
  <1>3. Back(date) \in 0 .. 6
    BY <1>2
  <1>4. Weekday(date - Back(date)) = (date - Back(date) + 5) % 7
    BY DEF Weekday
  <1> QED BY <1>1, <1>2, <1>3, <1>4

LEMMA ExpiryStep == ExpiryInv /\ [ReadPeriod]_exp => ExpiryInv'
  <1> SUFFICES ASSUME ExpiryInv, [ReadPeriod]_exp PROVE ExpiryInv'
    OBVIOUS
  <1>1. CASE ReadPeriod
    <2>1. period' \in Periods /\ expiry' = ParsePeriod(period')
      BY <1>1 DEF ReadPeriod
    <2>2. PICK p \in Periods : p = period'
      BY <2>1
    <2>3. /\ 2000 + p.year \in 2000 .. 2099 /\ p.month \in 1 .. 12 /\ p.day \in Nat
          /\ p.form \in {"exact", "month", "other"}
      <3>1. \A n \in Years : n \in 0 .. 99
        BY ExpiryAssumption
      <3>2. \A n \in Days : n \in Nat
        BY ExpiryAssumption
      <3>3. /\ p.year \in Years \/ p.year = 0
            /\ p.month \in 1 .. 12 \/ p.month = 1
            /\ p.day \in Days \/ p.day = 0
            /\ p.form \in {"exact", "month", "other"}
        BY DEF Periods
      <3>4. p.year \in 0 .. 99
        BY <3>1, <3>3
      <3> QED BY <3>2, <3>3, <3>4
    <2> DEFINE first == FirstOf(2000 + p.year, p.month)
    <2>4. first \in Int
      BY <2>3, FirstOfType
    <2>5. CASE p.form = "month"
      <3>1. LastDayBefore(2000 + p.year, p.month) = first - 1
        BY <2>3, DayBefore
      <3> HIDE DEF first
      <3>2. expiry' = (first - 1) - Back(first - 1)
        BY <2>1, <2>2, <2>5, <3>1 DEF ParsePeriod
      <3>3. Back(first - 1) \in 0 .. 6 /\ Weekday((first - 1) - Back(first - 1)) = 2
        BY <2>4, BackToWednesday
      <3>4. expiry' \in first - 7 .. first - 1 /\ Weekday(expiry') = 2 /\ expiry' \in Int
        BY <2>4, <3>2, <3>3
      <3> QED BY <2>1, <2>2, <2>5, <3>4 DEF ExpiryInv, ExpiryTypeOK, ExpiryTells, first
    <2>6. CASE p.form = "exact"
      <3>1. expiry' = Date(2000 + p.year, p.month, p.day)
        BY <2>1, <2>2, <2>6 DEF ParsePeriod
      <3>2. expiry' \in Int
        BY <2>3, <2>4, <3>1 DEF Date, NoDate
      <3> QED BY <2>1, <2>2, <2>6, <3>1, <3>2 DEF ExpiryInv, ExpiryTypeOK, ExpiryTells, Date
    <2>7. CASE p.form = "other"
      <3>1. expiry' = NoDate /\ expiry' \in Int
        BY <2>1, <2>2, <2>7 DEF ParsePeriod, NoDate
      <3> QED BY <2>1, <2>2, <2>7, <3>1 DEF ExpiryInv, ExpiryTypeOK, ExpiryTells
    <2> QED BY <2>3, <2>5, <2>6, <2>7
  <1>2. CASE UNCHANGED exp
    BY <1>2 DEF exp, ExpiryInv, ExpiryTypeOK, ExpiryTells
  <1> QED BY <1>1, <1>2

LEMMA ExpiryBegins == ExpiryInit => ExpiryInv
  BY DEF ExpiryInit, ExpiryInv, ExpiryTypeOK, ExpiryTells, Periods, NoDate

\* A month stands for the last Wednesday before it, in every year of two digits, over the end
\* of a year and a leap February; an exact date for itself or for none.
THEOREM ExpiriesAreTold == ExpirySpec => []ExpiryTells
  <1>1. ExpiryInv => ExpiryTells
    BY DEF ExpiryInv
  <1> QED BY <1>1, ExpiryBegins, ExpiryStep, PTL DEF ExpirySpec

-----------------------------------------------------------------------------
(* The callback of a stream.                                               *)

ListenerNext == Publish \/ EndStream \/ SignalPump \/ PumpStep \/ PumpStopped

ListenerSpec == ListenerInit /\ [][ListenerNext]_lis

EventKinds == {"update", "notice", "rejected", "unsubscribed"}

Ending(i) == events[i].kind \in {"rejected", "unsubscribed"}

\* The queued updates follow the ones that were heard, up to the last that was sent.
InOrder ==
  /\ \A i \in DOMAIN events : events[i].kind = "update" => events[i].n \in Len(called) + 1 .. published
  /\ \A n \in Len(called) + 1 .. published :
       \E i \in DOMAIN events : events[i] = Event("update", n)
  /\ \A i, j \in DOMAIN events :
       i < j /\ events[i].kind = "update" /\ events[j].kind = "update" => events[i].n < events[j].n

ListenerInv ==
  /\ ListenerTypeOK
  /\ events \in Seq([kind : EventKinds, n : Nat])
  /\ Len(called) <= published
  /\ \A i \in DOMAIN called : called[i] = i
  /\ InOrder
  /\ \A i \in DOMAIN events : Ending(i) => i = Len(events) /\ stream # "open"
  /\ pump = "ended" => stream # "open" /\ Len(called) = published

LEMMA PublishInv ==
  ASSUME ListenerInv, Publish \/ EndStream
  PROVE  ListenerInv'
  <1>1. PICK e \in [kind : EventKinds, n : Nat] :
          /\ events' = Append(events, e) \/ (events' = events /\ published' = published)
          /\ e.kind = "update" => e = Event("update", published + 1) /\ published' = published + 1
          /\ e.kind # "update" => published' = published
          /\ e.kind \in {"rejected", "unsubscribed"} => stream' # "open"
    <2>1. CASE Publish /\ published' = published + 1
      <3>1. Event("update", published + 1) \in [kind : EventKinds, n : Nat]
        BY DEF Event, EventKinds, ListenerInv, ListenerTypeOK
      <3>2. events' = Append(events, Event("update", published + 1))
        BY <2>1 DEF Publish, ListenerInv, ListenerTypeOK
      <3> QED BY <2>1, <3>1, <3>2 DEF Event
    <2>2. CASE Publish /\ published' # published + 1
      <3>1. Event("notice", 0) \in [kind : EventKinds, n : Nat] /\ Event("notice", 0).kind = "notice"
        BY DEF Event, EventKinds
      <3> QED BY <2>2, <3>1 DEF Publish
    <2>3. CASE EndStream
      <3>1. /\ Event("unsubscribed", 0) \in [kind : EventKinds, n : Nat]
            /\ Event("rejected", 0) \in [kind : EventKinds, n : Nat]
            /\ Event("unsubscribed", 0).kind = "unsubscribed" /\ Event("rejected", 0).kind = "rejected"
        BY DEF Event, EventKinds
      <3> QED BY <2>3, <3>1 DEF EndStream
    <2> QED BY <2>1, <2>2, <2>3
  <1>2. /\ stream = "open" /\ UNCHANGED <<pump, shutdown, called>> /\ pump # "ended"
        /\ stream' \in {"open", "rejected", "unsubscribed", "dropped"}
        /\ published' \in 0 .. MaxUpdates
    BY ListenerAssumption DEF Publish, EndStream, ListenerInv, ListenerTypeOK
  <1>3. /\ events \in Seq([kind : EventKinds, n : Nat]) /\ Len(events) \in Nat
        /\ DOMAIN events = 1 .. Len(events) /\ \A i \in DOMAIN events : ~Ending(i)
        /\ published \in Nat /\ called \in Seq(1 .. MaxUpdates) /\ Len(called) \in Nat
        /\ Len(called) <= published
    BY <1>2 DEF ListenerInv, ListenerTypeOK
  <1>4. CASE events' = events /\ published' = published
    <2>1. ListenerTypeOK' /\ InOrder'
      BY <1>2, <1>4 DEF ListenerInv, ListenerTypeOK, InOrder
    <2> QED BY <1>2, <1>3, <1>4, <2>1 DEF ListenerInv, Ending
  <1>5. CASE events' = Append(events, e)
    <2>1. /\ events' \in Seq([kind : EventKinds, n : Nat]) /\ Len(events') = Len(events) + 1
          /\ \A i \in 1 .. Len(events) : events'[i] = events[i]
          /\ events'[Len(events) + 1] = e /\ DOMAIN events' = 1 .. Len(events) + 1
      <3>1. /\ events' \in Seq([kind : EventKinds, n : Nat]) /\ Len(events') = Len(events) + 1
            /\ \A i \in 1 .. Len(events) : events'[i] = events[i]
            /\ events'[Len(events) + 1] = e
        BY <1>1, <1>3, <1>5, AppendProperties
      <3> QED BY <1>3, <3>1
    <2>2. ListenerTypeOK'
      BY <1>2 DEF ListenerInv, ListenerTypeOK
    <2>3. published' \in Nat /\ published <= published' /\ published' <= published + 1
      BY <1>1, <1>3
    <2>4. InOrder'
      <3>1. ASSUME NEW i \in DOMAIN events', events'[i].kind = "update"
            PROVE  events'[i].n \in Len(called) + 1 .. published'
        <4>1. CASE i \in DOMAIN events
          <5>1. events[i].n \in Len(called) + 1 .. published
            BY <1>3, <2>1, <3>1, <4>1 DEF ListenerInv, InOrder
          <5> QED BY <1>3, <2>1, <2>3, <4>1, <5>1, SMTT(20)
        <4>2. CASE i = Len(events) + 1
          BY <1>1, <1>3, <2>1, <2>3, <3>1, <4>2 DEF Event
        <4> QED BY <1>3, <2>1, <4>1, <4>2
      <3>2. ASSUME NEW n \in Len(called) + 1 .. published'
            PROVE  \E i \in DOMAIN events' : events'[i] = Event("update", n)
        <4>1. CASE n <= published
          <5>1. PICK i \in DOMAIN events : events[i] = Event("update", n)
            BY <1>3, <4>1 DEF ListenerInv, InOrder
          <5>2. i \in DOMAIN events' /\ events'[i] = events[i]
            BY <1>3, <2>1
          <5> QED BY <5>1, <5>2
        <4>2. CASE n > published
          <5>1. n = published + 1 /\ e.kind = "update"
            BY <1>1, <1>3, <2>3, <4>2
          <5>2. events'[Len(events) + 1] = Event("update", n)
            BY <1>1, <2>1, <5>1
          <5>3. Len(events) + 1 \in DOMAIN events'
            BY <1>3, <2>1
          <5> QED BY <5>2, <5>3
        <4> QED BY <1>3, <4>1, <4>2
      <3>3. ASSUME NEW i \in DOMAIN events', NEW j \in DOMAIN events', i < j,
                   events'[i].kind = "update", events'[j].kind = "update"
            PROVE  events'[i].n < events'[j].n
        <4>1. i \in DOMAIN events /\ events'[i] = events[i]
          BY <1>3, <2>1, <3>3, SMTT(20)
        <4>2. CASE j \in DOMAIN events
          BY <1>3, <2>1, <3>3, <4>1, <4>2 DEF ListenerInv, InOrder
        <4>3. CASE j = Len(events) + 1
          <5>1. events[i].n \in Len(called) + 1 .. published
            BY <3>3, <4>1 DEF ListenerInv, InOrder
          <5>2. events'[j].n = published + 1
            BY <1>1, <2>1, <3>3, <4>3 DEF Event
          <5> QED BY <1>3, <4>1, <5>1, <5>2
        <4> QED BY <1>3, <2>1, <4>2, <4>3
      <3>4. called' = called
        BY <1>2
      <3> QED BY <3>1, <3>2, <3>3, <3>4 DEF InOrder
    <2>5. ASSUME NEW i \in DOMAIN events', Ending(i)'
          PROVE  i = Len(events') /\ stream' # "open"
      <3>1. i \notin DOMAIN events
        BY <1>3, <2>1, <2>5 DEF Ending
      <3>2. i = Len(events) + 1
        BY <1>3, <2>1, <3>1
      <3> QED BY <1>1, <2>1, <2>5, <3>2 DEF Ending
    <2>6. Len(called') <= published'
      BY <1>2, <1>3, <2>3
    <2>7. \A i \in DOMAIN called' : called'[i] = i
      BY <1>2 DEF ListenerInv
    <2> QED BY <1>2, <2>1, <2>2, <2>4, <2>5, <2>6, <2>7 DEF ListenerInv
  <1> QED BY <1>1, <1>4, <1>5

\* The head of the queue, when it is an update, is the one after the last that was heard.
LEMMA HeadIsNext ==
  ASSUME ListenerInv, events # <<>>
  PROVE  /\ events[1].kind = "update" => events[1].n = Len(called) + 1 /\ Len(called) + 1 <= published
         /\ Ending(1) => Len(called) = published /\ stream # "open"
  <1>1. /\ events \in Seq([kind : EventKinds, n : Nat]) /\ Len(events) \in Nat /\ Len(events) > 0
        /\ DOMAIN events = 1 .. Len(events) /\ published \in Nat /\ Len(called) \in Nat
        /\ Len(called) <= published
    BY EmptySeq DEF ListenerInv, ListenerTypeOK
  <1>2. ASSUME events[1].kind = "update"
        PROVE  events[1].n = Len(called) + 1 /\ Len(called) + 1 <= published
    <2>1. events[1].n \in Len(called) + 1 .. published
      BY <1>1, <1>2 DEF ListenerInv, InOrder
    <2>2. PICK i \in DOMAIN events : events[i] = Event("update", Len(called) + 1)
      BY <1>1, <2>1 DEF ListenerInv, InOrder
    <2>3. events[i].kind = "update" /\ events[i].n = Len(called) + 1
      BY <2>2 DEF Event
    <2>4. CASE i = 1
      BY <1>1, <2>1, <2>3, <2>4
    <2>5. CASE i > 1
      <3>1. 1 \in DOMAIN events
        BY <1>1
      <3>2. events[1].n < events[i].n
        BY <1>2, <2>3, <2>5, <3>1 DEF ListenerInv, InOrder
      <3> QED BY <1>1, <2>1, <2>3, <3>2
    <2> QED BY <1>1, <2>4, <2>5
  <1>3. ASSUME Ending(1)
        PROVE  Len(called) = published /\ stream # "open"
    <2>1. 1 = Len(events) /\ stream # "open"
      BY <1>1, <1>3 DEF ListenerInv
    <2>2. events[1].kind # "update"
      BY <1>3 DEF Ending
    <2>3. ASSUME Len(called) < published PROVE FALSE
      <3>1. Len(called) + 1 \in Len(called) + 1 .. published
        BY <1>1, <2>3
      <3>2. PICK i \in DOMAIN events : events[i] = Event("update", Len(called) + 1)
        BY <3>1 DEF ListenerInv, InOrder
      <3>3. i \in 1 .. 1
        BY <1>1, <2>1, Zenon
      <3>4. i = 1
        BY <3>3
      <3> QED BY <2>2, <3>2, <3>4 DEF Event
    <2> QED BY <1>1, <2>1, <2>3
  <1> QED BY <1>2, <1>3

LEMMA PumpEventInv ==
  ASSUME ListenerInv, PumpEvent
  PROVE  ListenerInv'
  <1>1. /\ events \in Seq([kind : EventKinds, n : Nat]) /\ Len(events) \in Nat /\ Len(events) > 0
        /\ DOMAIN events = 1 .. Len(events) /\ published \in 0 .. MaxUpdates
        /\ called \in Seq(1 .. MaxUpdates) /\ Len(called) \in Nat /\ Len(called) <= published
        /\ MaxUpdates \in Nat /\ DOMAIN called = 1 .. Len(called)
        /\ \A i \in DOMAIN called : called[i] = i
    BY EmptySeq, ListenerAssumption DEF ListenerInv, ListenerTypeOK, PumpEvent
  <1>2. /\ events' \in Seq([kind : EventKinds, n : Nat]) /\ Len(events') = Len(events) - 1
        /\ \A i \in 1 .. Len(events) - 1 : events'[i] = events[i + 1]
        /\ Head(events) = events[1]
    <2>1. events # <<>> /\ events' = Tail(events)
      BY DEF PumpEvent
    <2> QED BY <1>1, <2>1, HeadTailProperties
  <1>3. DOMAIN events' = 1 .. Len(events) - 1
    BY <1>1, <1>2
  <1>4. /\ UNCHANGED <<published, stream, shutdown>> /\ pump = "running"
    BY DEF PumpEvent
  <1>20. ASSUME NEW i \in DOMAIN events'
         PROVE  /\ i \in 1 .. Len(events) - 1 /\ i + 1 \in DOMAIN events /\ 1 \in DOMAIN events
                /\ 1 < i + 1 /\ events'[i] = events[i + 1]
    <2>1. i \in 1 .. Len(events) - 1
      BY <1>3, Zenon
    <2>2. i + 1 \in 1 .. Len(events) /\ 1 \in 1 .. Len(events) /\ 1 < i + 1
      BY <1>1, <2>1
    <2>3. events'[i] = events[i + 1]
      BY <1>2, <2>1, Zenon
    <2> QED BY <1>1, <2>1, <2>2, <2>3, Zenon
  <1>5. /\ events[1].kind = "update" => events[1].n = Len(called) + 1 /\ Len(called) + 1 <= published
        /\ Ending(1) => Len(called) = published /\ stream # "open"
    BY HeadIsNext DEF PumpEvent
  <1>6. \A i \in DOMAIN events' : Ending(i)' => i = Len(events') /\ stream' # "open"
    <2>1. ASSUME NEW i \in DOMAIN events', Ending(i)'
          PROVE  i = Len(events') /\ stream' # "open"
      <3>1. i + 1 \in DOMAIN events /\ Ending(i + 1)
        BY <1>20, <2>1 DEF Ending
      <3>2. i + 1 = Len(events) /\ stream # "open"
        BY <3>1 DEF ListenerInv
      <3> QED BY <1>1, <1>2, <1>3, <1>4, <3>2
    <2> QED BY <2>1
  \* The updates that are still queued, whatever the head was.
  <1>7. ASSUME Len(called') \in Nat, Len(called') >= Len(called),
               events[1].kind = "update" => Len(called') = Len(called) + 1,
               events[1].kind # "update" => Len(called') = Len(called)
        PROVE  InOrder'
    <2>1. ASSUME NEW i \in DOMAIN events', events'[i].kind = "update"
          PROVE  events'[i].n \in Len(called') + 1 .. published
      <3>1. i + 1 \in DOMAIN events /\ events'[i] = events[i + 1] /\ 1 \in DOMAIN events /\ 1 < i + 1
        BY <1>20
      <3>2. events[i + 1].n \in Len(called) + 1 .. published
        BY <2>1, <3>1 DEF ListenerInv, InOrder
      <3>3. CASE events[1].kind = "update"
        <4>1. events[1].n < events[i + 1].n
          BY <2>1, <3>1, <3>3 DEF ListenerInv, InOrder
        <4> QED BY <1>1, <1>5, <1>7, <3>1, <3>2, <3>3, <4>1
      <3>4. CASE events[1].kind # "update"
        BY <1>1, <1>7, <3>1, <3>2, <3>4
      <3> QED BY <3>3, <3>4
    <2>2. ASSUME NEW n \in Len(called') + 1 .. published
          PROVE  \E i \in DOMAIN events' : events'[i] = Event("update", n)
      <3>1. n \in Len(called) + 1 .. published
        BY <1>1, <1>7
      <3>2. PICK i \in DOMAIN events : events[i] = Event("update", n)
        BY <3>1 DEF ListenerInv, InOrder
      <3>3. i # 1
        <4>1. events[i].kind = "update" /\ events[i].n = n
          BY <3>2 DEF Event
        <4> QED BY <1>1, <1>5, <1>7, <4>1
      <3>4. i - 1 \in DOMAIN events' /\ events'[i - 1] = events[i]
        <4>1. i \in 1 .. Len(events)
          BY <1>1, Zenon
        <4>2. i - 1 \in 1 .. Len(events) - 1 /\ (i - 1) + 1 = i
          BY <1>1, <3>3, <4>1
        <4>3. events'[i - 1] = events[(i - 1) + 1]
          BY <1>2, <4>2, Zenon
        <4> QED BY <1>3, <4>2, <4>3, Zenon
      <3> QED BY <3>2, <3>4
    <2>3. ASSUME NEW i \in DOMAIN events', NEW j \in DOMAIN events', i < j,
                 events'[i].kind = "update", events'[j].kind = "update"
          PROVE  events'[i].n < events'[j].n
      <3>1. /\ i + 1 \in DOMAIN events /\ j + 1 \in DOMAIN events /\ i + 1 < j + 1
            /\ events'[i] = events[i + 1] /\ events'[j] = events[j + 1]
        <4>1. i + 1 < j + 1
          BY <1>1, <1>20, <2>3
        <4> QED BY <1>20, <4>1, Zenon
      <3> QED BY <2>3, <3>1 DEF ListenerInv, InOrder
    <2> QED BY <1>4, <2>1, <2>2, <2>3 DEF InOrder
  <1>8. CASE OnItemUpdate
    <2>1. events[1].kind = "update" /\ called' = Append(called, events[1].n) /\ pump' = pump
      BY <1>2, <1>8 DEF OnItemUpdate
    <2>2. events[1].n = Len(called) + 1 /\ events[1].n \in 1 .. MaxUpdates
      <3>1. events[1].n = Len(called) + 1 /\ Len(called) + 1 <= published
        BY <1>5, <2>1, Zenon
      <3>2. Len(called) + 1 \in 1 .. MaxUpdates
        BY <1>1, <3>1
      <3> QED BY <3>1, <3>2, Zenon
    <2>3. /\ called' \in Seq(1 .. MaxUpdates) /\ Len(called') = Len(called) + 1
          /\ \A i \in 1 .. Len(called) : called'[i] = called[i]
          /\ called'[Len(called) + 1] = Len(called) + 1
      BY <1>1, <2>1, <2>2, AppendProperties
    <2>4. DOMAIN called' = 1 .. Len(called) + 1
      BY <1>1, <2>3
    <2>5. \A i \in DOMAIN called' : called'[i] = i
      <3>1. ASSUME NEW i \in 1 .. Len(called) + 1 PROVE called'[i] = i
        <4>1. CASE i \in 1 .. Len(called)
          BY <1>1, <2>3, <4>1
        <4>2. CASE i = Len(called) + 1
          BY <2>3, <4>2
        <4> QED BY <1>1, <4>1, <4>2
      <3> QED BY <2>4, <3>1
    <2>6. InOrder'
      <3>1. Len(called') \in Nat /\ Len(called') >= Len(called)
        BY <1>1, <2>3
      <3> QED BY <1>7, <2>1, <2>3, <3>1
    <2>7. Len(called') <= published'
      BY <1>1, <1>4, <1>5, <2>1, <2>3
    <2> QED BY <1>2, <1>4, <1>6, <2>1, <2>3, <2>5, <2>6, <2>7 DEF ListenerInv, ListenerTypeOK
  <1>9. CASE Head(events).kind = "notice" /\ UNCHANGED <<pump, called>>
    <2>1. InOrder'
      <3>1. called' = called /\ events[1].kind # "update"
        BY <1>2, <1>9
      <3>2. Len(called') = Len(called) /\ Len(called') >= Len(called) /\ Len(called') \in Nat
        BY <1>1, <3>1
      <3> QED BY <1>7, <3>1, <3>2, Zenon
    <2> QED BY <1>1, <1>2, <1>4, <1>6, <1>9, <2>1 DEF ListenerInv, ListenerTypeOK
  <1>10. CASE Head(events).kind \in {"rejected", "unsubscribed"} /\ pump' = "ended" /\ UNCHANGED called
    <2>1. Ending(1) /\ events[1].kind # "update"
      BY <1>2, <1>10 DEF Ending
    <2>2. InOrder'
      <3>1. Len(called') = Len(called) /\ Len(called') >= Len(called) /\ Len(called') \in Nat
        BY <1>1, <1>10
      <3> QED BY <1>7, <2>1, <3>1, Zenon
    <2> QED BY <1>1, <1>2, <1>4, <1>5, <1>6, <1>10, <2>1, <2>2 DEF ListenerInv, ListenerTypeOK
  <1> QED BY <1>8, <1>9, <1>10 DEF PumpEvent

LEMMA ListenerStep == ListenerInv /\ [ListenerNext]_lis => ListenerInv'
  <1> SUFFICES ASSUME ListenerInv, [ListenerNext]_lis PROVE ListenerInv'
    OBVIOUS
  <1>1. CASE Publish \/ EndStream
    BY <1>1, PublishInv
  <1>2. CASE PumpEvent
    BY <1>2, PumpEventInv
  <1>3. CASE PumpClosed
    <2>1. UNCHANGED <<events, published, stream, shutdown, called>> /\ pump' = "ended"
          /\ events = <<>> /\ stream # "open"
      BY <1>3 DEF PumpClosed
    <2>2. published \in Nat /\ Len(called) \in Nat /\ Len(called) <= published
      BY DEF ListenerInv, ListenerTypeOK
    <2>3. Len(called) = published
      <3>1. DOMAIN events = {}
        BY <2>1
      <3>2. ASSUME Len(called) < published PROVE FALSE
        <4>1. Len(called) + 1 \in Len(called) + 1 .. published
          BY <2>2, <3>2
        <4> QED BY <3>1, <4>1 DEF ListenerInv, InOrder
      <3> QED BY <2>2, <3>2
    <2> QED BY <2>1, <2>3 DEF ListenerInv, ListenerTypeOK, InOrder, Ending
  <1>4. CASE SignalPump \/ PumpStopped \/ UNCHANGED lis
    <2>1. UNCHANGED <<events, published, stream, called>> /\ shutdown' \in BOOLEAN
          /\ pump' \in {pump, "stopped"}
      BY <1>4 DEF SignalPump, PumpStopped, lis, ListenerInv, ListenerTypeOK
    <2> QED BY <2>1 DEF ListenerInv, ListenerTypeOK, InOrder, Ending
  <1> QED BY <1>1, <1>2, <1>3, <1>4 DEF ListenerNext, PumpStep

LEMMA ListenerBegins == ListenerInit => ListenerInv
  <1> SUFFICES ASSUME ListenerInit PROVE ListenerInv
    OBVIOUS
  <1>1. /\ events = <<>> /\ called = <<>> /\ published = 0 /\ pump = "running"
        /\ stream = "open" /\ shutdown = FALSE
    BY DEF ListenerInit
  <1>2. DOMAIN events = {} /\ DOMAIN called = {} /\ Len(called) = 0
    BY <1>1
  <1>3. InOrder
    BY <1>1, <1>2 DEF InOrder
  <1>4. ListenerTypeOK
    <2>1. <<>> \in Seq(1 .. MaxUpdates)
      OBVIOUS
    <2>2. 0 \in 0 .. MaxUpdates
      BY ListenerAssumption
    <2> QED BY <1>1, <2>1, <2>2 DEF ListenerTypeOK
  <1> QED BY <1>1, <1>2, <1>3, <1>4 DEF ListenerInv

\* The callback hears every update once and in order, for any number of them; a pump that ends
\* by itself has passed all of them on.
THEOREM UpdatesAreHeard == ListenerSpec => []ListenerTells
  <1>1. ListenerInv => ListenerTells
    BY DEF ListenerInv, ListenerTells
  <1> QED BY <1>1, ListenerBegins, ListenerStep, PTL DEF ListenerSpec

-----------------------------------------------------------------------------
(* The fields of a stored record.                                           *)

WireSpec == WireInit /\ [][ReadRecord]_wir

WireInv == WireTypeOK /\ WireTells

\* The values of JSON that a field can have, and what the codecs make of one.
LEMMA WireForms ==
  ASSUME NEW json \in Wires \ {Absent}
  PROVE  \E kind, text : /\ json = Json(kind, text) /\ json.kind = kind /\ json.text = text
                         /\ kind = "string" => text \in Texts
  <1>1. /\ JsonNull.kind = "null" /\ JsonNull.text = ""
        /\ Json("bool", "true").kind = "bool" /\ Json("bool", "true").text = "true"
    BY DEF JsonNull, Json
  <1>2. \A text : /\ Json("number", text).kind = "number" /\ Json("number", text).text = text
                  /\ Json("string", text).kind = "string" /\ Json("string", text).text = text
    BY DEF Json
  <1>3. CASE json \in {JsonNull, Json("bool", "true")}
    BY <1>1, <1>3 DEF JsonNull
  <1>4. CASE \E text \in {"0", "1", "0.0", "1.0", "2.5"} : json = Json("number", text)
    BY <1>2, <1>4
  <1>5. CASE \E text \in Texts : json = Json("string", text)
    BY <1>2, <1>5
  <1> QED BY <1>3, <1>4, <1>5 DEF Wires

LEMMA IsWire ==
  ASSUME NEW text
  PROVE  /\ text \in {"0", "1", "0.0", "1.0", "2.5"} => Json("number", text) \in Wires \ {Absent}
         /\ text \in Texts => Json("string", text) \in Wires \ {Absent}
         /\ JsonNull \in Wires \ {Absent}
  BY DEF Wires, Absent, JsonNull, Json

LEMMA Numerics ==
  ASSUME NEW kind, NEW text, NEW p
  PROVE  Numeric(Json(kind, text), p)
           = IF kind = "null" \/ (kind = "string" /\ text = "") THEN NoValue
             ELSE IF kind \in {"number", "string"} /\ text # "" THEN p ELSE Unreadable
  BY DEF Json, Numeric

LEMMA Textuals ==
  ASSUME NEW kind, NEW text, NEW p
  PROVE  Textual(Json(kind, text), p)
           = IF kind = "null" THEN NoValue ELSE IF kind = "string" THEN p ELSE Unreadable
  BY DEF Json, Textual

LEMMA Floats ==
  ASSUME NEW text
  PROVE  Float(text) = IF text \in {"0", "1", "2.5", "NaN"} THEN text
                       ELSE IF text = "0.0" THEN "0" ELSE IF text = "1.0" THEN "1" ELSE Unreadable
  BY DEF Float

\* A value of JSON that holds a text, and one that holds none.
LEMMA Decodes ==
  ASSUME NEW kind, NEW text, NEW json, json = Json(kind, text)
  PROVE  /\ Decode("float", json) = Numeric(json, Float(text))
         /\ Decode("int", json)   = Numeric(json, Integer(text))
         /\ Decode("bool", json)  = Textual(json, BoolOrNone(text))
         /\ Decode("text", json)  = Textual(json, EmptyAsNone(text))
         /\ Decode("plain", json) = Textual(json, text)
  <1>1. json.text = text
    BY DEF Json
  <1> QED BY <1>1 DEF Decode

LEMMA Encodes ==
  ASSUME NEW x
  PROVE  /\ x \notin {NoValue, "NaN"} =>
              Encode("float", x) = Json("number", IF x = "0" THEN "0.0" ELSE IF x = "1" THEN "1.0" ELSE x)
         /\ x # NoValue => Encode("int", x) = Json("number", x)
         /\ x # NoValue => Encode("bool", x) = Json("string", x)
         /\ x \notin {NoValue, ""} => Encode("text", x) = Json("string", x)
         /\ x # NoValue => Encode("plain", x) = Json("string", x)
         /\ Encode("float", "NaN") = JsonNull
  BY DEF Encode

LEMMA NullReads ==
  ASSUME NEW coding \in Codecs
  PROVE  /\ Decode(coding, JsonNull) = NoValue /\ Encode(coding, NoValue) = JsonNull
         /\ JsonNull \in Wires /\ Absent \in Wires /\ JsonNull # Absent
  <1>1. /\ Decode("float", JsonNull) = NoValue /\ Decode("int", JsonNull) = NoValue
        /\ Decode("bool", JsonNull) = NoValue /\ Decode("text", JsonNull) = NoValue
        /\ Decode("plain", JsonNull) = NoValue
    <2>1. \A p : Numeric(JsonNull, p) = NoValue /\ Textual(JsonNull, p) = NoValue
      BY Numerics, Textuals DEF JsonNull
    <2>2. /\ Decode("float", JsonNull) = Numeric(JsonNull, Float(""))
          /\ Decode("int", JsonNull) = Numeric(JsonNull, Integer(""))
          /\ Decode("bool", JsonNull) = Textual(JsonNull, BoolOrNone(""))
          /\ Decode("text", JsonNull) = Textual(JsonNull, EmptyAsNone(""))
          /\ Decode("plain", JsonNull) = Textual(JsonNull, "")
      <3>1. JsonNull = Json("null", "")
        BY DEF JsonNull
      <3>2. JsonNull.text = ""
        BY DEF JsonNull, Json
      <3> QED BY <3>2 DEF Decode
    <2> QED BY <2>1, <2>2, Zenon
  <1>2. Encode(coding, NoValue) = JsonNull
    BY DEF Encode
  <1> QED BY <1>1, <1>2, IsWire DEF Codecs, Wires

LEMMA FloatReads ==
  ASSUME NEW json \in Wires \ {Absent}, NEW x, x = Decode("float", json), x # Unreadable
  PROVE  /\ x \in {"0", "1", "2.5", "NaN", NoValue}
         /\ x # NoValue => Decode("float", Encode("float", x)) = IF x = "NaN" THEN NoValue ELSE x
         /\ x # NoValue => Encode("float", x) \in Wires \ {Absent}
  <1>1. PICK kind, text : json = Json(kind, text)
    BY WireForms
  <1>2. x \in {"0", "1", "2.5", "NaN", NoValue}
    <2>1. x = Numeric(Json(kind, text), Float(text))
      BY <1>1, Decodes
    <2>2. x \in {NoValue, Float(text), Unreadable}
      <3> DEFINE p == Float(text)
      <3> HIDE DEF p
      <3>1. Numeric(Json(kind, text), p) \in {NoValue, p, Unreadable}
        <4>1. Numeric(Json(kind, text), p)
                = IF kind = "null" \/ (kind = "string" /\ text = "") THEN NoValue
                  ELSE IF kind \in {"number", "string"} /\ text # "" THEN p ELSE Unreadable
          BY Numerics, Zenon
        <4> QED BY <4>1
      <3> QED BY <2>1, <3>1 DEF p
    <2> QED BY <2>2, Floats
  <1>3. CASE x = "NaN"
    BY <1>3, Encodes, NullReads, IsWire DEF Codecs
  <1>4. CASE x \in {"0", "1", "2.5"}
    <2>1. PICK decimal : decimal = IF x = "0" THEN "0.0" ELSE IF x = "1" THEN "1.0" ELSE x
      OBVIOUS
    <2>2. Encode("float", x) = Json("number", decimal)
      BY <1>4, <2>1, Encodes DEF NoValue
    <2>3. decimal \in {"0.0", "1.0", "2.5"} /\ Float(decimal) = x
      BY <1>4, <2>1, Floats
    <2>4. Decode("float", Json("number", decimal)) = Numeric(Json("number", decimal), Float(decimal))
      BY Decodes
    <2>5. Numeric(Json("number", decimal), Float(decimal)) = Float(decimal)
      BY <2>3, Numerics
    <2> QED BY <1>4, <2>2, <2>3, <2>4, <2>5, IsWire
  <1> QED BY <1>2, <1>3, <1>4

LEMMA IntegerReads ==
  ASSUME NEW json \in Wires \ {Absent}, NEW x, x = Decode("int", json), x # Unreadable
  PROVE  /\ x \in {"0", "1", NoValue}
         /\ x # NoValue => x = json.text
         /\ x # NoValue => Decode("int", Encode("int", x)) = x
         /\ x # NoValue => Encode("int", x) \in Wires \ {Absent}
  <1>1. PICK kind, text : json = Json(kind, text) /\ json.text = text
    BY WireForms
  <1>2. x = NoValue \/ (x \in {"0", "1"} /\ x = text)
    <2>1. x = Numeric(Json(kind, text), Integer(text))
      BY <1>1, Decodes
    <2>2. x \in {NoValue, Integer(text), Unreadable}
      <3> DEFINE p == Integer(text)
      <3> HIDE DEF p
      <3>1. Numeric(Json(kind, text), p) \in {NoValue, p, Unreadable}
        <4>1. Numeric(Json(kind, text), p)
                = IF kind = "null" \/ (kind = "string" /\ text = "") THEN NoValue
                  ELSE IF kind \in {"number", "string"} /\ text # "" THEN p ELSE Unreadable
          BY Numerics, Zenon
        <4> QED BY <4>1
      <3> QED BY <2>1, <3>1 DEF p
    <2> QED BY <2>2 DEF Integer
  <1>3. CASE x # NoValue
    <2>1. Encode("int", x) = Json("number", x) /\ x # "" /\ Integer(x) = x
      BY <1>2, <1>3, Encodes DEF Integer
    <2>2. Decode("int", Json("number", x)) = Numeric(Json("number", x), Integer(x))
      BY Decodes
    <2>3. Numeric(Json("number", x), Integer(x)) = x
      BY <2>1, Numerics
    <2> QED BY <1>1, <1>2, <1>3, <2>1, <2>2, <2>3, IsWire
  <1> QED BY <1>2, <1>3

LEMMA FlagReads ==
  ASSUME NEW json \in Wires \ {Absent}, NEW x, x = Decode("bool", json), x # Unreadable
  PROVE  /\ x \in {"0", "1", NoValue}
         /\ x # NoValue => json.kind = "string"
         /\ x # NoValue => Decode("bool", Encode("bool", x)) = x
         /\ x # NoValue => Encode("bool", x) \in Wires \ {Absent}
  <1>1. PICK kind, text : json = Json(kind, text) /\ json.kind = kind
    BY WireForms
  <1>2. x = NoValue \/ (x \in {"0", "1"} /\ kind = "string")
    <2>1. x = Textual(Json(kind, text), BoolOrNone(text))
      BY <1>1, Decodes
    <2>2. x = NoValue \/ (kind = "string" /\ x = BoolOrNone(text))
      BY <2>1, Textuals
    <2> QED BY <2>2 DEF BoolOrNone, Flag
  <1>3. CASE x # NoValue
    <2>1. Encode("bool", x) = Json("string", x) /\ BoolOrNone(x) = x /\ x \in Texts
      BY <1>2, <1>3, Encodes DEF BoolOrNone, Flag, Texts
    <2>2. Decode("bool", Json("string", x)) = Textual(Json("string", x), BoolOrNone(x))
      BY Decodes
    <2>3. Textual(Json("string", x), BoolOrNone(x)) = x
      BY <2>1, Textuals
    <2> QED BY <1>1, <1>2, <1>3, <2>1, <2>2, <2>3, IsWire
  <1> QED BY <1>2, <1>3

LEMMA TextReads ==
  ASSUME NEW json \in Wires \ {Absent}, NEW coding \in {"text", "plain"}, NEW x,
         x = Decode(coding, json), x # Unreadable
  PROVE  /\ x \in Texts \cup {NoValue}
         /\ x # NoValue => Decode(coding, Encode(coding, x)) = x
         /\ x # NoValue => Encode(coding, x) \in Wires \ {Absent}
  <1>1. PICK kind, text : json = Json(kind, text) /\ (kind = "string" => text \in Texts)
    BY WireForms
  <1>2. x = NoValue \/ (x \in Texts /\ x = text /\ (coding = "text" => x # ""))
    <2>1. x = Textual(Json(kind, text), IF coding = "text" THEN EmptyAsNone(text) ELSE text)
      BY <1>1, Decodes
    <2>2. x = NoValue \/ (kind = "string" /\ x = IF coding = "text" THEN EmptyAsNone(text) ELSE text)
      BY <2>1, Textuals
    <2> QED BY <1>1, <2>2 DEF EmptyAsNone
  <1>3. CASE x # NoValue
    <2>1. Encode(coding, x) = Json("string", x) /\ (coding = "text" => EmptyAsNone(x) = x)
      BY <1>2, <1>3, Encodes DEF EmptyAsNone
    <2>2. Decode(coding, Json("string", x)) = x
      BY <2>1, Decodes, Textuals
    <2> QED BY <1>2, <1>3, <2>1, <2>2, IsWire
  <1> QED BY <1>2, <1>3

\* What is read, for every codec alike.
LEMMA Reads ==
  ASSUME NEW coding \in Codecs, NEW json \in Wires \ {Absent}, NEW x,
         x = Decode(coding, json), x # Unreadable
  PROVE  /\ x \in Texts \cup {NoValue} /\ Encode(coding, x) \in Wires \ {Absent}
         /\ Decode(coding, Encode(coding, x)) = IF coding = "float" /\ x = "NaN" THEN NoValue ELSE x
         /\ coding = "int" /\ x # NoValue => x = json.text
         /\ coding = "bool" /\ x # NoValue => json.kind = "string"
  <1>1. x = NoValue => /\ Decode(coding, Encode(coding, x)) = NoValue
                       /\ Encode(coding, x) \in Wires \ {Absent}
    BY NullReads
  <1>2. "NaN" # NoValue
    BY DEF NoValue
  <1>3. CASE coding = "float"
    <2>1. x \in Texts \cup {NoValue}
      BY <1>3, FloatReads DEF Texts
    <2>2. x # NoValue => /\ Decode(coding, Encode(coding, x)) = IF x = "NaN" THEN NoValue ELSE x
                         /\ Encode(coding, x) \in Wires \ {Absent}
      BY <1>3, FloatReads
    <2> QED BY <1>1, <1>2, <1>3, <2>1, <2>2
  <1>4. CASE coding = "int"
    <2>1. x \in Texts \cup {NoValue} /\ (x # NoValue => x = json.text)
      <3>1. x \in {"0", "1", NoValue} /\ (x # NoValue => x = json.text)
        <4>1. x = Decode("int", json)
          BY <1>4
        <4>2. x \in {"0", "1", NoValue}
          BY <4>1, IntegerReads
        <4>3. x # NoValue => x = json.text
          BY <4>1, IntegerReads
        <4> QED BY <4>2, <4>3
      <3> QED BY <3>1 DEF Texts
    <2>2. x # NoValue => /\ Decode(coding, Encode(coding, x)) = x
                         /\ Encode(coding, x) \in Wires \ {Absent}
      BY <1>4, IntegerReads
    <2> QED BY <1>1, <1>2, <1>4, <2>1, <2>2
  <1>5. CASE coding = "bool"
    <2>1. x \in Texts \cup {NoValue} /\ (x # NoValue => json.kind = "string")
      <3>1. x \in {"0", "1", NoValue} /\ (x # NoValue => json.kind = "string")
        <4>1. x = Decode("bool", json)
          BY <1>5
        <4>2. x \in {"0", "1", NoValue}
          BY <4>1, FlagReads
        <4>3. x # NoValue => json.kind = "string"
          BY <4>1, FlagReads
        <4> QED BY <4>2, <4>3
      <3> QED BY <3>1 DEF Texts
    <2>2. x # NoValue => /\ Decode(coding, Encode(coding, x)) = x
                         /\ Encode(coding, x) \in Wires \ {Absent}
      BY <1>5, FlagReads
    <2> QED BY <1>1, <1>2, <1>5, <2>1, <2>2
  <1>6. CASE coding \in {"text", "plain"}
    <2>1. /\ x \in Texts \cup {NoValue}
          /\ x # NoValue => /\ Decode(coding, Encode(coding, x)) = x
                            /\ Encode(coding, x) \in Wires \ {Absent}
      BY <1>6, TextReads
    <2> QED BY <1>1, <1>2, <1>6, <2>1
  <1> QED BY <1>3, <1>4, <1>5, <1>6 DEF Codecs

LEMMA WireStep == WireInv /\ [ReadRecord]_wir => WireInv'
  <1> SUFFICES ASSUME WireInv, [ReadRecord]_wir PROVE WireInv'
    OBVIOUS
  <1>1. CASE ReadRecord
    <2>1. /\ layout' \in DOMAIN Records /\ codec' \in Codecs /\ wire' \in Wires
          /\ value' = Read(layout', codec', wire')
          /\ rewritten' = IF value' = Unreadable THEN Absent ELSE Written(layout', codec', value')
          /\ reread' = IF value' = Unreadable THEN Unreadable ELSE Read(layout', codec', rewritten')
      BY <1>1 DEF ReadRecord
    <2>2. CASE value' = Unreadable
      BY <2>1, <2>2, NullReads DEF WireInv, WireTypeOK, WireTells
    \* What was read, whether the field was there or not.
    <2>3. ASSUME value' # Unreadable
          PROVE  /\ value' \in Texts \cup {NoValue} /\ Encode(codec', value') \in Wires \ {Absent}
                 /\ Decode(codec', Encode(codec', value'))
                      = IF codec' = "float" /\ value' = "NaN" THEN NoValue ELSE value'
                 /\ codec' = "int" /\ value' # NoValue => value' = wire'.text
                 /\ codec' = "bool" /\ value' # NoValue => wire'.kind = "string"
      <3>1. CASE wire' = Absent
        <4>1. value' = NoValue /\ "NaN" # NoValue
          BY <2>1, <2>3, <3>1 DEF Read, NoValue
        <4> QED BY <2>1, <4>1, NullReads
      <3>2. CASE wire' # Absent
        <4>1. value' = Decode(codec', wire') /\ wire' \in Wires \ {Absent}
          BY <2>1, <3>2 DEF Read
        <4> QED BY <2>1, <2>3, <4>1, Reads
      <3> QED BY <3>1, <3>2
    <2>4. CASE value' # Unreadable /\ value' = NoValue /\ Records[layout'].skips
      <3>1. rewritten' = Absent
        BY <2>1, <2>4 DEF Written
      <3>2. Records[layout'].defaults <=> layout' # "account"
        BY <2>1, <2>4 DEF Records, Fields, PriceFieldsAttr, AccountFieldsAttr, ChartFieldsAttr,
                          MarketFieldsAttr, DealUpdateAttr
      <3>3. reread' = IF layout' = "account" /\ codec' # "plain" THEN Unreadable ELSE NoValue
        BY <2>1, <2>4, <3>1, <3>2 DEF Read
      <3>4. NoValue # "NaN"
        BY DEF NoValue
      <3> QED BY <2>1, <2>3, <2>4, <3>1, <3>3, <3>4, NullReads DEF WireInv, WireTypeOK, WireTells
    <2>5. CASE value' # Unreadable /\ ~(value' = NoValue /\ Records[layout'].skips)
      <3>1. rewritten' = Encode(codec', value') /\ rewritten' # Absent
        BY <2>1, <2>3, <2>5 DEF Written
      <3>2. reread' = IF codec' = "float" /\ value' = "NaN" THEN NoValue ELSE value'
        BY <2>1, <2>3, <2>5, <3>1 DEF Read
      <3>3. value' = NoValue => layout' # "account"
        BY <2>5 DEF Records, Fields, AccountFieldsAttr
      <3> QED BY <2>1, <2>3, <2>5, <3>1, <3>2, <3>3 DEF WireInv, WireTypeOK, WireTells
    <2> QED BY <2>2, <2>4, <2>5
  <1>2. CASE UNCHANGED wir
    BY <1>2 DEF wir, WireInv, WireTypeOK, WireTells
  <1> QED BY <1>1, <1>2

LEMMA WireBegins == WireInit => WireInv
  <1> SUFFICES ASSUME WireInit PROVE WireInv
    OBVIOUS
  <1>1. JsonNull \in Wires /\ Absent \in Wires
    BY NullReads DEF Codecs
  <1>2. WireTypeOK
    BY <1>1 DEF WireInit, WireTypeOK, Codecs
  <1>3. WireTells
    BY DEF WireInit, WireTells, NoValue
  <1> QED BY <1>2, <1>3 DEF WireInv

\* A field reads back as it was written, whatever it is declared with and whatever IG sent,
\* except one that is not finite and a missing one of an account record.
THEOREM ValuesReadBack == WireSpec => []WireTells
  <1>1. WireInv => WireTells
    BY DEF WireInv
  <1> QED BY <1>1, WireBegins, WireStep, PTL DEF WireSpec

-----------------------------------------------------------------------------
(* The fields of a streamed item.                                           *)

UpdatesNext == Stream \/ Receive

UpdatesSpec == UpdatesInit /\ [][UpdatesNext]_upd

UpdatesInv ==
  /\ UpdatesTypeOK
  /\ UpdatesTell
  /\ \A c \in Classes \ chosen_fields : item[c] = Null

LEMMA SchemaKinds ==
  /\ DOMAIN Schema = {"price", "market", "chart", "account", "trade", "quote"}
  /\ Schema["price"] = Classes /\ Schema["market"] = Classes
  /\ Schema["chart"] = {"number", "choice"} /\ Schema["account"] = {"number"}
  /\ Schema["trade"] = {"choice", "text"} /\ Schema["quote"] = {"number", "choice"}
  BY DEF Schema, PriceSchema, MarketSchema, ChartSchema, AccountSchema

LEMMA ChosenOfSchema ==
  ASSUME NEW kind \in DOMAIN Schema, NEW classes \in FieldNames(kind)
  PROVE  classes \subseteq Schema[kind] /\ Schema[kind] \subseteq Classes
  BY SchemaKinds DEF FieldNames, Classes

ReadableAs(kind, map) ==
  \A c \in Classes : map[c] # Bad /\ ~(kind = "market" /\ c = "choice" /\ map[c] = Empty)

\* What is parsed of a text, field by field.
ReadAs(kind, c, text, p) ==
  /\ p = Failed <=> text = Bad \/ (kind = "market" /\ c = "choice" /\ text = Empty)
  /\ p # Failed => p \in Values \cup {Null, Empty}
  /\ text \in Values => p = text
  /\ text = Null => p = Null
  /\ text = Empty /\ kind = "quote" /\ c # "text" => p = Null

LEMMA NumberReads ==
  ASSUME NEW text \in Values \cup {Null, Empty, Bad}
  PROVE  /\ Number(text) = Failed <=> text = Bad
         /\ Number(text) # Failed => Number(text) \in Values \cup {Null, Empty}
         /\ text \in Values => Number(text) = text
         /\ text \in {Null, Empty} => Number(text) = Null
  BY UpdatesAssumption DEF Number

LEMMA FieldReads ==
  ASSUME NEW kind \in DOMAIN Schema, NEW map,
         map["number"] \in Numbers \cup {Null, Bad},
         map["choice"] \in Words \cup {Null, Empty, Bad},
         map["text"] \in Words \cup {Null, Empty},
         \A c \in Classes \ Schema[kind] : map[c] = Null
  PROVE  /\ DOMAIN Parsed(kind, map) = Classes
         /\ \A c \in Classes : ReadAs(kind, c, map[c], Parsed(kind, map)[c])
  <1>1. /\ Null # Failed /\ Empty # Failed /\ Null # Bad /\ Empty # Bad /\ Null # Empty
        /\ \A text \in Values : text \notin {Null, Empty, Bad, Failed}
        /\ Numbers \subseteq Values /\ Words \subseteq Values
    BY UpdatesAssumption DEF Values
  <1>2. /\ map["number"] \in Values \cup {Null, Empty, Bad}
        /\ map["choice"] \in Values \cup {Null, Empty, Bad}
        /\ map["text"] \in Values \cup {Null, Empty}
    BY <1>1
  <1>3. \A text \in Values \cup {Null, Empty, Bad} :
          /\ Number(text) = Failed <=> text = Bad
          /\ Number(text) # Failed => Number(text) \in Values \cup {Null, Empty}
          /\ text \in Values => Number(text) = text
          /\ text \in {Null, Empty} => Number(text) = Null
    BY NumberReads
  <1>4. CASE kind \in {"price", "quote"}
    <2>1. /\ DOMAIN Parsed(kind, map) = Classes
          /\ Parsed(kind, map)["number"] = Number(map["number"])
          /\ Parsed(kind, map)["choice"] = Number(map["choice"])
          /\ Parsed(kind, map)["text"] = map["text"]
      BY <1>4 DEF Parsed, PriceFields, Classes
    <2> HIDE DEF Parsed
    <2> QED BY <1>1, <1>2, <1>3, <1>4, <2>1 DEF ReadAs, Classes
  <1>5. CASE kind = "market"
    <2>1. /\ DOMAIN Parsed(kind, map) = Classes
          /\ Parsed(kind, map)["number"] = Number(map["number"])
          /\ Parsed(kind, map)["choice"] = IF map["choice"] \in {Empty, Bad} THEN Failed ELSE map["choice"]
          /\ Parsed(kind, map)["text"] = map["text"]
      BY <1>5 DEF Parsed, MarketFields, Classes
    <2> QED BY <1>1, <1>2, <1>3, <1>5, <2>1 DEF ReadAs, Classes
  <1>6. CASE kind = "chart"
    <2>1. /\ DOMAIN Parsed(kind, map) = Classes
          /\ Parsed(kind, map)["number"] = Number(map["number"])
          /\ Parsed(kind, map)["choice"] = Number(map["choice"])
          /\ Parsed(kind, map)["text"] = Null
      BY <1>6 DEF Parsed, ChartFields, Classes
    <2>2. map["text"] = Null
      BY <1>6, SchemaKinds DEF Classes
    <2> QED BY <1>1, <1>2, <1>3, <1>6, <2>1, <2>2 DEF ReadAs, Classes
  <1>7. CASE kind = "account"
    <2>1. /\ DOMAIN Parsed(kind, map) = Classes
          /\ Parsed(kind, map)["number"] = Number(map["number"])
          /\ Parsed(kind, map)["choice"] = Null
          /\ Parsed(kind, map)["text"] = Null
      BY <1>7 DEF Parsed, AccountFields, Classes
    <2>2. map["text"] = Null /\ map["choice"] = Null
      BY <1>7, SchemaKinds DEF Classes
    <2> QED BY <1>1, <1>2, <1>3, <1>7, <2>1, <2>2 DEF ReadAs, Classes
  <1>8. CASE kind = "trade"
    <2>1. /\ DOMAIN Parsed(kind, map) = Classes
          /\ Parsed(kind, map)["number"] = Null
          /\ Parsed(kind, map)["choice"] = Number(map["choice"])
          /\ Parsed(kind, map)["text"] = IF map["text"] = Empty THEN Null ELSE map["text"]
      BY <1>8 DEF Parsed, TradeFields, Filled, Classes
    <2>2. map["number"] = Null
      BY <1>8, SchemaKinds DEF Classes
    <2> QED BY <1>1, <1>2, <1>3, <1>8, <2>1, <2>2 DEF ReadAs, Classes
  <1> QED BY <1>4, <1>5, <1>6, <1>7, <1>8, SchemaKinds

\* A field is parsed by itself, and all parsed fields are of the item's.
LEMMA FieldwiseParsed ==
  ASSUME NEW kind \in DOMAIN Schema, NEW map, NEW other, NEW c \in Classes, map[c] = other[c]
  PROVE  Parsed(kind, map)[c] = Parsed(kind, other)[c]
  <1>1. CASE kind \in {"price", "quote"}
    BY <1>1 DEF Parsed, PriceFields, Classes
  <1>2. CASE kind = "market"
    BY <1>2 DEF Parsed, MarketFields, Classes
  <1>3. CASE kind = "chart"
    BY <1>3 DEF Parsed, ChartFields, Classes
  <1>4. CASE kind = "account"
    BY <1>4 DEF Parsed, AccountFields, Classes
  <1>5. CASE kind = "trade"
    BY <1>5 DEF Parsed, TradeFields, Classes
  <1> QED BY <1>1, <1>2, <1>3, <1>4, <1>5, SchemaKinds

LEMMA ParsedIsRecord ==
  ASSUME NEW kind \in DOMAIN Schema, NEW map
  PROVE  \E a, b, d : Parsed(kind, map) = [number |-> a, choice |-> b, text |-> d]
  <1>1. CASE kind \in {"price", "quote"}
    BY <1>1 DEF Parsed, PriceFields
  <1>2. CASE kind = "market"
    BY <1>2 DEF Parsed, MarketFields
  <1>3. CASE kind = "chart"
    BY <1>3 DEF Parsed, ChartFields
  <1>4. CASE kind = "account"
    BY <1>4 DEF Parsed, AccountFields
  <1>5. CASE kind = "trade"
    BY <1>5 DEF Parsed, TradeFields
  <1> QED BY <1>1, <1>2, <1>3, <1>4, <1>5, SchemaKinds

\* The two maps of an update are parsed alike, and fail together or not at all.
LEMMA ConvertedFields ==
  ASSUME NEW kind \in DOMAIN Schema, NEW map, NEW classes \in SUBSET Schema[kind],
         map["number"] \in Numbers \cup {Null, Bad},
         map["choice"] \in Words \cup {Null, Empty, Bad},
         map["text"] \in Words \cup {Null, Empty},
         \A c \in Classes \ Schema[kind] : map[c] = Null,
         NEW data, data = Converted(kind, map, classes)
  PROVE  /\ {data.fields, data.changed} \subseteq [Classes -> Values \cup {Null, Empty}]
         /\ ~ReadableAs(kind, map) => data = Default
         /\ ReadableAs(kind, map) => \A c \in Classes :
              /\ map[c] \in Values => data.fields[c] = map[c]
              /\ map[c] = Null => data.fields[c] = Null
              /\ map[c] = Empty /\ kind = "quote" /\ c # "text" => data.fields[c] = Null
              /\ c \in classes => data.changed[c] = data.fields[c]
              /\ c \notin classes => data.changed[c] = Null
  <1> DEFINE part    == Carried(map, classes)
             fields  == Parsed(kind, map)
             changed == Parsed(kind, part)
  <1>1. \A c \in Classes : part[c] = IF c \in classes THEN map[c] ELSE Null
    BY DEF Carried
  <1>2. \A c \in Classes : ReadAs(kind, c, map[c], fields[c])
    BY FieldReads
  <1>3. \A c \in Classes : ReadAs(kind, c, part[c], changed[c])
    <2>1. /\ part["number"] \in Numbers \cup {Null, Bad}
          /\ part["choice"] \in Words \cup {Null, Empty, Bad}
          /\ part["text"] \in Words \cup {Null, Empty}
      BY <1>1 DEF Classes
    <2>2. \A c \in Classes \ Schema[kind] : part[c] = Null
      BY <1>1
    <2> HIDE DEF part
    <2> QED BY <2>1, <2>2, FieldReads
  <1>4. \A c \in Classes : c \in classes => changed[c] = fields[c]
    <2>1. ASSUME NEW c \in Classes, c \in classes PROVE changed[c] = fields[c]
      <3>1. map[c] = part[c]
        BY <1>1, <2>1
      <3> HIDE DEF part
      <3> QED BY <3>1, FieldwiseParsed
    <2> QED BY <2>1
  <1>5. \A c \in Classes : c \notin classes => changed[c] = Null
    <2>1. ASSUME NEW c \in Classes, c \notin classes PROVE changed[c] = Null
      <3>1. part[c] = Null
        BY <1>1, <2>1
      <3> HIDE DEF part
      <3> QED BY <1>3, <3>1 DEF ReadAs
    <2> QED BY <2>1
  <1>6. data = IF Fails(fields) \/ Fails(changed) THEN Default
               ELSE [fields |-> fields, changed |-> changed]
    BY DEF Converted
  <1>7. (\E a, b, d : fields = [number |-> a, choice |-> b, text |-> d])
        /\ (\E a, b, d : changed = [number |-> a, choice |-> b, text |-> d])
    BY ParsedIsRecord
  <1> HIDE DEF part, fields, changed
  <1>8. CASE ReadableAs(kind, map)
    <2>1. \A c \in Classes : fields[c] # Failed
      BY <1>2, <1>8 DEF ReadAs, ReadableAs
    <2>2. \A c \in Classes : changed[c] # Failed
      BY <1>4, <1>5, <2>1, UpdatesAssumption
    <2>3. data.fields = fields /\ data.changed = changed
      BY <1>6, <2>1, <2>2 DEF Fails
    <2>4. \A c \in Classes : fields[c] \in Values \cup {Null, Empty}
                             /\ changed[c] \in Values \cup {Null, Empty}
      BY <1>2, <1>3, <2>1, <2>2 DEF ReadAs
    <2>5. fields \in [Classes -> Values \cup {Null, Empty}]
      <3>1. PICK a, b, d : fields = [number |-> a, choice |-> b, text |-> d]
        BY <1>7
      <3>2. a = fields["number"] /\ b = fields["choice"] /\ d = fields["text"]
        BY <3>1
      <3>3. {a, b, d} \subseteq Values \cup {Null, Empty}
        BY <2>4, <3>2 DEF Classes
      <3> QED BY <3>1, <3>3 DEF Classes
    <2>6. changed \in [Classes -> Values \cup {Null, Empty}]
      <3>1. PICK a, b, d : changed = [number |-> a, choice |-> b, text |-> d]
        BY <1>7
      <3>2. a = changed["number"] /\ b = changed["choice"] /\ d = changed["text"]
        BY <3>1
      <3>3. {a, b, d} \subseteq Values \cup {Null, Empty}
        BY <2>4, <3>2 DEF Classes
      <3> QED BY <3>1, <3>3 DEF Classes
    <2>7. \A c \in Classes : /\ map[c] \in Values => fields[c] = map[c]
                             /\ map[c] = Null => fields[c] = Null
                             /\ map[c] = Empty /\ kind = "quote" /\ c # "text" => fields[c] = Null
      BY <1>2 DEF ReadAs
    <2> QED BY <1>4, <1>5, <1>8, <2>3, <2>5, <2>6, <2>7
  <1>9. CASE ~ReadableAs(kind, map)
    <2>1. PICK c \in Classes : fields[c] = Failed
      BY <1>2, <1>9 DEF ReadAs, ReadableAs
    <2>2. data = Default
      BY <1>6, <2>1 DEF Fails
    <2>3. NoFields \in [Classes -> Values \cup {Null, Empty}]
      BY DEF NoFields
    <2> QED BY <1>9, <2>2, <2>3 DEF Default
  <1> QED BY <1>8, <1>9

LEMMA ReceiveInv ==
  ASSUME UpdatesInv, Receive
  PROVE  UpdatesInv'
  <1>1. /\ streamed' = streamed /\ chosen_fields' = chosen_fields
        /\ carried' \in (SUBSET chosen_fields) \ {{}}
        /\ record' = Converted(streamed, item', carried')
        /\ quote' = IF streamed = "quote" THEN Merged(quote, record') ELSE quote
        /\ heard' = IF Readable(item') /\ streamed = "quote"
                    THEN [c \in Classes |-> IF item'[c] \in Values THEN item'[c] ELSE heard[c]]
                    ELSE heard
    BY DEF Receive
  <1>2. /\ streamed \in DOMAIN Schema /\ chosen_fields \in FieldNames(streamed)
        /\ \A c \in Classes : item[c] \in Offered[c] \cup {Null}
        /\ quote \in [Classes -> Values \cup {Null, Empty}]
        /\ heard \in [Classes -> Values \cup {Null, Empty}]
    BY DEF UpdatesInv, UpdatesTypeOK
  <1>3. chosen_fields \subseteq Schema[streamed] /\ Schema[streamed] \subseteq Classes
        /\ carried' \in SUBSET Schema[streamed]
    BY <1>1, <1>2, ChosenOfSchema
  <1>4. \A c \in Classes : item'[c] \in IF c \in carried' THEN Offered[c] ELSE {item[c]}
    BY DEF Receive, Classes
  <1>5. \A c \in Classes : item'[c] \in Offered[c] \cup {Null}
    BY <1>2, <1>4
  <1>6. \A c \in Classes \ chosen_fields : item'[c] = Null
    BY <1>1, <1>4 DEF UpdatesInv
  <1>7. /\ item'["number"] \in Numbers \cup {Null, Bad}
        /\ item'["choice"] \in Words \cup {Null, Empty, Bad}
        /\ item'["text"] \in Words \cup {Null, Empty}
    BY <1>5 DEF Classes, Offered
  <1>8. Readable(item') <=> ReadableAs(streamed, item')
    BY DEF Readable, ReadableAs
  <1>9. /\ {record'.fields, record'.changed} \subseteq [Classes -> Values \cup {Null, Empty}]
        /\ ~ReadableAs(streamed, item') => record' = Default
        /\ ReadableAs(streamed, item') => \A c \in Classes :
              /\ item'[c] \in Values => record'.fields[c] = item'[c]
              /\ item'[c] = Null => record'.fields[c] = Null
              /\ item'[c] = Empty /\ streamed = "quote" /\ c # "text" => record'.fields[c] = Null
              /\ c \in carried' => record'.changed[c] = record'.fields[c]
              /\ c \notin carried' => record'.changed[c] = Null
    BY <1>1, <1>2, <1>3, <1>6, <1>7, ConvertedFields
  <1>10. \A c \in Classes : Default.fields[c] = Null /\ Default.changed[c] = Null
    BY DEF Default, NoFields
  <1>11. \A c \in Schema[streamed] :
           /\ item'[c] \in Values => record'.fields[c] = (IF Readable(item') THEN item'[c] ELSE Null)
           /\ c \notin chosen_fields => record'.fields[c] = Null
           /\ record'.changed[c] \in {Null, record'.fields[c]}
           /\ record'.changed[c] # Null => c \in carried'
    BY <1>3, <1>6, <1>8, <1>9, <1>10
  <1>12. ASSUME streamed = "quote"
         PROVE  \A c \in Schema.quote :
                  /\ quote'[c] = heard'[c]
                  /\ Readable(item') /\ item'[c] \in Values => quote'[c] = item'[c]
    <2>1. ASSUME NEW c \in Schema["quote"]
          PROVE  /\ quote'[c] = heard'[c]
                 /\ Readable(item') /\ item'[c] \in Values => quote'[c] = item'[c]
      <3>1. c \in {"number", "choice"} /\ c \in Classes
        BY <2>1, SchemaKinds DEF Classes
      <3>2. quote'[c] = IF record'.fields[c] # Null THEN record'.fields[c] ELSE quote[c]
        BY <1>1, <1>12, <3>1 DEF Merged
      <3>3. quote[c] = heard[c]
        BY <1>12, <2>1 DEF UpdatesInv, UpdatesTell
      <3>4. CASE ~Readable(item')
        BY <1>1, <1>8, <1>9, <1>10, <3>1, <3>2, <3>3, <3>4
      <3>5. CASE Readable(item')
        <4>1. heard'[c] = IF item'[c] \in Values THEN item'[c] ELSE heard[c]
          BY <1>1, <1>12, <3>1, <3>5
        <4>2. CASE item'[c] \in Values
          <5>1. record'.fields[c] = item'[c] /\ item'[c] # Null
            BY <1>8, <1>9, <3>1, <3>5, <4>2, UpdatesAssumption
          <5> QED BY <3>2, <4>1, <4>2, <5>1
        <4>3. CASE item'[c] \notin Values
          <5>1. record'.fields[c] = Null
            <6>1. item'[c] \in {Null, Empty, Bad}
              BY <1>7, <3>1, <4>3 DEF Values
            <6>2. item'[c] # Bad
              BY <3>1, <3>5 DEF Readable
            <6> QED BY <1>8, <1>9, <1>12, <3>1, <3>5, <6>1, <6>2
          <5> QED BY <3>2, <3>3, <4>1, <4>3, <5>1
        <4> QED BY <4>2, <4>3
      <3> QED BY <3>4, <3>5
    <2> QED BY <2>1
  <1>13. UpdatesTell'
    <2>1. Readable(item)' <=> Readable(item')
      BY <1>1 DEF Readable
    <2> QED BY <1>1, <1>11, <1>12, <2>1 DEF UpdatesTell
  <1>14. quote' \in [Classes -> Values \cup {Null, Empty}]
    <2>1. \A c \in Classes : record'.fields[c] \in Values \cup {Null, Empty}
      BY <1>9
    <2>2. Merged(quote, record') \in [Classes -> Values \cup {Null, Empty}]
      BY <1>2, <2>1 DEF Merged
    <2> QED BY <1>1, <1>2, <2>2
  <1>15. heard' \in [Classes -> Values \cup {Null, Empty}]
    BY <1>1, <1>2
  <1>16. UpdatesTypeOK'
    BY <1>1, <1>2, <1>5, <1>9, <1>14, <1>15 DEF UpdatesTypeOK
  <1> QED BY <1>1, <1>6, <1>13, <1>16 DEF UpdatesInv

\* Nothing has been read of an item that starts anew.
LEMMA StartedInv ==
  ASSUME streamed \in DOMAIN Schema, chosen_fields \in FieldNames(streamed), item = NoFields,
         carried = {}, record = Default, quote = NoFields, heard = NoFields
  PROVE  UpdatesInv
  <1>1. NoFields \in [Classes -> Values \cup {Null, Empty}] /\ \A c \in Classes : NoFields[c] = Null
    BY DEF NoFields
  <1>2. record.fields = NoFields /\ record.changed = NoFields
    BY DEF Default
  <1>3. Null \notin Values
    BY UpdatesAssumption
  <1>4. Schema[streamed] \subseteq Classes /\ Schema.quote \subseteq Classes
    BY SchemaKinds, ChosenOfSchema DEF Classes
  <1>5. UpdatesTell
    BY <1>1, <1>2, <1>3, <1>4 DEF UpdatesTell
  <1>6. UpdatesTypeOK
    BY <1>1, <1>2 DEF UpdatesTypeOK
  <1> QED BY <1>1, <1>5, <1>6 DEF UpdatesInv

LEMMA UpdatesBegin == UpdatesInit => UpdatesInv
  <1> SUFFICES ASSUME UpdatesInit PROVE UpdatesInv
    OBVIOUS
  <1>1. "price" \in DOMAIN Schema /\ PriceSchema \in FieldNames("price")
    <2>1. Schema["price"] = Classes /\ Classes # {}
      BY SchemaKinds DEF Classes
    <2>2. FieldNames("price") = (SUBSET Schema["price"]) \ {{}}
      BY DEF FieldNames
    <2>3. PriceSchema = Classes
      BY DEF PriceSchema
    <2>4. PriceSchema \in SUBSET Schema["price"] /\ PriceSchema # {}
      BY <2>1, <2>3
    <2>5. "price" \in DOMAIN Schema
      BY SchemaKinds
    <2>6. PriceSchema \in (SUBSET Schema["price"]) \ {{}}
      BY <2>4, Zenon
    <2> QED BY <2>2, <2>5, <2>6, Zenon
  <1> QED BY <1>1, StartedInv DEF UpdatesInit

LEMMA UpdatesStep == UpdatesInv /\ [UpdatesNext]_upd => UpdatesInv'
  <1> SUFFICES ASSUME UpdatesInv, [UpdatesNext]_upd PROVE UpdatesInv'
    OBVIOUS
  <1>1. CASE Stream
    <2>1. (streamed \in DOMAIN Schema /\ chosen_fields \in FieldNames(streamed) /\ item = NoFields
           /\ carried = {} /\ record = Default /\ quote = NoFields /\ heard = NoFields)'
      BY <1>1 DEF Stream, FieldNames
    <2>2. UpdatesInv'
      BY <2>1, StartedInv, PTL
    <2> QED BY <2>2
  <1>2. CASE Receive
    BY <1>2, ReceiveInv
  <1>3. CASE UNCHANGED upd
    BY <1>3 DEF upd, UpdatesInv, UpdatesTypeOK, UpdatesTell, Readable
  <1> QED BY <1>1, <1>2, <1>3 DEF UpdatesNext

\* What a record or a quote says of a field is IG's last readable word on it, for any texts
\* and any choice of fields, over updates that cannot be read.
THEOREM UpdatesAreTold == UpdatesSpec => []UpdatesTell
  <1>1. UpdatesInv => UpdatesTell
    BY DEF UpdatesInv
  <1> QED BY <1>1, UpdatesBegin, UpdatesStep, PTL DEF UpdatesSpec

-----------------------------------------------------------------------------
(* The names of instruments.                                                *)

NamesSpec == NamesInit /\ [][ReadName]_nam

AllParts ==
  (UNION {{asset[i] : i \in DOMAIN asset} : asset \in Assets}) \cup Strikes \cup {Glued(s) : s \in Strikes}
    \cup {PeriodWord, Paren, CutParen} \cup {Part("type", type) : type \in Types}

\* What a name consists of: how many parts of each sort, and the parts at their places.
Prefixes(w) == IF w.period THEN 1 ELSE 0
Spaced(w)   == IF w.day = "spaced" THEN 1 ELSE 0
StrikeOf(w) == IF w.day = "glued" THEN Glued(w.strike) ELSE w.strike
StrikePlace(w) == Prefixes(w) + Len(w.asset) + Spaced(w) + 1
Counts(w) == Prefixes(w) + Len(w.asset) + Spaced(w) + (IF w.option THEN 2 ELSE 0) + Len(w.ending)

IsNamed(name, w) ==
  /\ name \in Seq(AllParts) /\ Len(name) = Counts(w)
  /\ w.period => name[1] = PeriodWord
  /\ \A k \in 1 .. Len(w.asset) : name[Prefixes(w) + k] = w.asset[k]
  /\ w.day = "spaced" => name[StrikePlace(w) - 1] = Paren
  /\ w.option => name[StrikePlace(w)] = StrikeOf(w) /\ name[StrikePlace(w) + 1] = Part("type", w.type)
  /\ w.ending # <<>> => name[Len(name)] = w.ending[1]

LEMMA PartsOfNames ==
  ASSUME NEW w \in Forms
  PROVE  /\ {PeriodWord, Paren, CutParen, w.strike, StrikeOf(w), Part("type", w.type)} \subseteq AllParts
         /\ w.asset \in Seq(AllParts) /\ w.asset # <<>> /\ Len(w.asset) \in Nat \ {0}
         /\ \A k \in 1 .. Len(w.asset) : w.asset[k].kind \in {"word", "number"}
         /\ w.strike.kind \in {"number", "decimal"}
         /\ w.ending \in {<<>>, <<Paren>>, <<CutParen>>}
         /\ w.period \in BOOLEAN /\ w.option \in BOOLEAN
         /\ w.day \in {"none", "spaced", "glued"} /\ w.type \in Types
  <1>1. /\ w.asset \in Assets /\ w.strike \in Strikes /\ w.type \in Types
        /\ w.ending \in {<<>>, <<Paren>>, <<CutParen>>}
        /\ w.period \in BOOLEAN /\ w.option \in BOOLEAN /\ w.day \in {"none", "spaced", "glued"}
    BY DEF Forms
  <1>2. /\ w.asset # <<>> /\ w.asset \in Seq({w.asset[i] : i \in DOMAIN w.asset})
        /\ \A i \in DOMAIN w.asset : w.asset[i].kind \in {"word", "number"}
        /\ w.strike.kind \in {"number", "decimal"}
    BY <1>1, NamesAssumption
  <1>3. {w.asset[i] : i \in DOMAIN w.asset} \subseteq AllParts
    BY <1>1 DEF AllParts
  <1>4. w.asset \in Seq(AllParts)
    BY <1>2, <1>3, SeqMonotonic
  <1>5. Len(w.asset) \in Nat \ {0} /\ DOMAIN w.asset = 1 .. Len(w.asset)
    BY <1>2, <1>4, EmptySeq
  <1>6. {PeriodWord, Paren, CutParen, Part("type", w.type), w.strike, Glued(w.strike)} \subseteq AllParts
    BY <1>1 DEF AllParts
  <1>7. StrikeOf(w) \in AllParts
    BY <1>6 DEF StrikeOf
  <1> QED BY <1>1, <1>2, <1>4, <1>5, <1>6, <1>7

LEMMA PlacesOfConcat ==
  ASSUME NEW S, NEW s \in Seq(S), NEW t \in Seq(S)
  PROVE  /\ s \o t \in Seq(S) /\ Len(s \o t) = Len(s) + Len(t)
         /\ \A i \in 1 .. Len(s) : (s \o t)[i] = s[i]
         /\ \A i \in 1 .. Len(t) : (s \o t)[Len(s) + i] = t[i]
  <1>1. Len(s) \in Nat /\ Len(t) \in Nat
    OBVIOUS
  <1>2. s \o t \in Seq(S) /\ Len(s \o t) = Len(s) + Len(t)
    BY ConcatProperties
  <1>3. \A i \in 1 .. Len(s) + Len(t) : (s \o t)[i] = IF i <= Len(s) THEN s[i] ELSE t[i - Len(s)]
    BY ConcatProperties
  <1>4. ASSUME NEW i \in 1 .. Len(s) PROVE (s \o t)[i] = s[i]
    <2>1. i \in 1 .. Len(s) + Len(t) /\ i <= Len(s)
      BY <1>1
    <2> QED BY <1>3, <2>1
  <1>5. ASSUME NEW i \in 1 .. Len(t) PROVE (s \o t)[Len(s) + i] = t[i]
    <2>1. /\ Len(s) + i \in 1 .. Len(s) + Len(t) /\ ~(Len(s) + i <= Len(s))
          /\ (Len(s) + i) - Len(s) = i
      BY <1>1
    <2> QED BY <1>3, <2>1
  <1> QED BY <1>2, <1>4, <1>5

\* A name is composed of its parts, in their order.
LEMMA NameIsComposed ==
  ASSUME NEW w \in Forms
  PROVE  IsNamed(Composed(w), w)
  <1> DEFINE prefix == IF w.period THEN <<PeriodWord>> ELSE <<>>
             day    == IF w.day = "spaced" THEN <<Paren>> ELSE <<>>
             strike == IF ~w.option THEN <<>> ELSE <<StrikeOf(w), Part("type", w.type)>>
             ending == w.ending
             s2 == prefix \o w.asset
             s3 == s2 \o day
             s4 == s3 \o strike
             s5 == s4 \o ending
  <1>1. /\ w.asset \in Seq(AllParts) /\ Len(w.asset) \in Nat \ {0}
        /\ {PeriodWord, Paren, CutParen, StrikeOf(w), Part("type", w.type)} \subseteq AllParts
        /\ ending \in {<<>>, <<Paren>>, <<CutParen>>}
    BY PartsOfNames
  <1>2. prefix \in Seq(AllParts) /\ Len(prefix) = Prefixes(w) /\ (w.period => prefix[1] = PeriodWord)
    BY <1>1 DEF Prefixes
  <1>3. day \in Seq(AllParts) /\ Len(day) = Spaced(w) /\ (w.day = "spaced" => day[1] = Paren)
    BY <1>1 DEF Spaced
  <1>4. /\ strike \in Seq(AllParts) /\ Len(strike) = IF w.option THEN 2 ELSE 0
        /\ w.option => strike[1] = StrikeOf(w) /\ strike[2] = Part("type", w.type)
    BY <1>1
  <1>5. ending \in Seq(AllParts) /\ Len(ending) \in {0, 1} /\ (ending # <<>> => Len(ending) = 1)
    <2>1. /\ <<>> \in Seq(AllParts) /\ <<Paren>> \in Seq(AllParts) /\ <<CutParen>> \in Seq(AllParts)
          /\ Len(<<>>) = 0 /\ Len(<<Paren>>) = 1 /\ Len(<<CutParen>>) = 1
      BY <1>1
    <2> HIDE DEF ending
    <2> QED BY <1>1, <2>1
  <1>6. Composed(w) = s5
    BY DEF Composed, StrikeOf
  <1>7. Prefixes(w) \in {0, 1} /\ Spaced(w) \in {0, 1} /\ (w.period => Prefixes(w) = 1)
        /\ (w.day = "spaced" => Spaced(w) = 1)
    BY DEF Prefixes, Spaced
  <1> HIDE DEF prefix, day, strike, ending
  <1>8. /\ s2 \in Seq(AllParts) /\ Len(s2) = Prefixes(w) + Len(w.asset)
        /\ \A i \in 1 .. Prefixes(w) : s2[i] = prefix[i]
        /\ \A i \in 1 .. Len(w.asset) : s2[Prefixes(w) + i] = w.asset[i]
    <2>1. s2 = prefix \o w.asset
      OBVIOUS
    <2> HIDE DEF s2
    <2>2. prefix \in Seq(AllParts) /\ w.asset \in Seq(AllParts)
      BY <1>1, <1>2
    <2>3. /\ (prefix \o w.asset) \in Seq(AllParts) /\ Len((prefix \o w.asset)) = Len(prefix) + Len(w.asset)
          /\ \A i \in 1 .. Len(prefix) : (prefix \o w.asset)[i] = prefix[i]
          /\ \A i \in 1 .. Len(w.asset) : (prefix \o w.asset)[Len(prefix) + i] = w.asset[i]
      BY <2>2, PlacesOfConcat
    <2>4. Len(prefix) = Prefixes(w)
      BY <1>1, <1>2
    <2> QED BY <2>1, <2>3, <2>4, Zenon
  <1> HIDE DEF s2
  <1>9. /\ s3 \in Seq(AllParts) /\ Len(s3) = Len(s2) + Spaced(w)
        /\ \A i \in 1 .. Len(s2) : s3[i] = s2[i]
        /\ \A i \in 1 .. Spaced(w) : s3[Len(s2) + i] = day[i]
    <2>1. s3 = s2 \o day
      OBVIOUS
    <2> HIDE DEF s3
    <2>2. s2 \in Seq(AllParts) /\ day \in Seq(AllParts)
      BY <1>3, <1>8
    <2>3. /\ (s2 \o day) \in Seq(AllParts) /\ Len((s2 \o day)) = Len(s2) + Len(day)
          /\ \A i \in 1 .. Len(s2) : (s2 \o day)[i] = s2[i]
          /\ \A i \in 1 .. Len(day) : (s2 \o day)[Len(s2) + i] = day[i]
      BY <2>2, PlacesOfConcat
    <2>4. Len(day) = Spaced(w)
      BY <1>3, <1>8
    <2> QED BY <2>1, <2>3, <2>4, Zenon
  <1> HIDE DEF s3
  <1>10. /\ s4 \in Seq(AllParts) /\ Len(s4) = Len(s3) + Len(strike)
         /\ \A i \in 1 .. Len(s3) : s4[i] = s3[i]
         /\ \A i \in 1 .. Len(strike) : s4[Len(s3) + i] = strike[i]
    <2>1. s4 = s3 \o strike
      OBVIOUS
    <2> HIDE DEF s4
    <2>2. s3 \in Seq(AllParts) /\ strike \in Seq(AllParts)
      BY <1>4, <1>9
    <2>3. /\ (s3 \o strike) \in Seq(AllParts) /\ Len((s3 \o strike)) = Len(s3) + Len(strike)
          /\ \A i \in 1 .. Len(s3) : (s3 \o strike)[i] = s3[i]
          /\ \A i \in 1 .. Len(strike) : (s3 \o strike)[Len(s3) + i] = strike[i]
      BY <2>2, PlacesOfConcat
    <2> QED BY <2>1, <2>3, Zenon
  <1> HIDE DEF s4
  <1>11. /\ s5 \in Seq(AllParts) /\ Len(s5) = Len(s4) + Len(ending)
         /\ \A i \in 1 .. Len(s4) : s5[i] = s4[i]
         /\ \A i \in 1 .. Len(ending) : s5[Len(s4) + i] = ending[i]
    <2>1. s5 = s4 \o ending
      OBVIOUS
    <2> HIDE DEF s5
    <2>2. s4 \in Seq(AllParts) /\ ending \in Seq(AllParts)
      BY <1>5, <1>10
    <2>3. /\ (s4 \o ending) \in Seq(AllParts) /\ Len((s4 \o ending)) = Len(s4) + Len(ending)
          /\ \A i \in 1 .. Len(s4) : (s4 \o ending)[i] = s4[i]
          /\ \A i \in 1 .. Len(ending) : (s4 \o ending)[Len(s4) + i] = ending[i]
      BY <2>2, PlacesOfConcat
    <2> QED BY <2>1, <2>3, Zenon
  <1> HIDE DEF s5
  <1>12. /\ Len(s2) \in Nat /\ Len(s3) \in Nat /\ Len(s4) \in Nat /\ Len(strike) \in {0, 2}
         /\ Len(s2) >= 1 /\ Len(s3) >= Len(s2) /\ Len(s4) >= Len(s3)
    BY <1>1, <1>4, <1>7, <1>8, <1>9, <1>10, SMTT(20)
  <1>13. StrikePlace(w) = Len(s3) + 1
    BY <1>1, <1>7, <1>8, <1>9 DEF StrikePlace
  <1>14. \A i \in 1 .. Len(s2) : s5[i] = s2[i]
    <2>1. ASSUME NEW i \in 1 .. Len(s2) PROVE s5[i] = s2[i]
      <3>1. i \in 1 .. Len(s3) /\ i \in 1 .. Len(s4)
        BY <1>12
      <3> QED BY <1>9, <1>10, <1>11, <3>1
    <2> QED BY <2>1
  <1>15. w.period => s5[1] = PeriodWord
    <2>1. 1 \in 1 .. Len(s2) /\ (w.period => 1 \in 1 .. Prefixes(w))
      BY <1>7, <1>12
    <2> QED BY <1>2, <1>8, <1>14, <2>1
  <1>16. \A k \in 1 .. Len(w.asset) : s5[Prefixes(w) + k] = w.asset[k]
    <2>1. ASSUME NEW k \in 1 .. Len(w.asset) PROVE s5[Prefixes(w) + k] = w.asset[k]
      <3>1. Prefixes(w) + k \in 1 .. Len(s2)
        BY <1>1, <1>7, <1>8
      <3> QED BY <1>8, <1>14, <3>1
    <2> QED BY <2>1
  <1>17. ASSUME w.day = "spaced" PROVE s5[StrikePlace(w) - 1] = Paren
    <2>1. Spaced(w) = 1 /\ StrikePlace(w) - 1 = Len(s2) + 1 /\ 1 \in 1 .. Spaced(w)
      BY <1>7, <1>9, <1>12, <1>13, <1>17
    <2>2. s3[Len(s2) + 1] = Paren
      BY <1>3, <1>9, <1>17, <2>1
    <2>3. Len(s2) + 1 \in 1 .. Len(s3) /\ Len(s2) + 1 \in 1 .. Len(s4)
      BY <1>9, <1>12, <2>1
    <2> QED BY <1>10, <1>11, <2>1, <2>2, <2>3
  <1>18. ASSUME w.option
         PROVE  s5[StrikePlace(w)] = StrikeOf(w) /\ s5[StrikePlace(w) + 1] = Part("type", w.type)
    <2>1. ASSUME NEW k \in {1, 2} PROVE s5[Len(s3) + k] = strike[k]
      <3>1. k \in 1 .. Len(strike) /\ Len(s3) + k \in 1 .. Len(s4)
        BY <1>4, <1>10, <1>12, <1>18
      <3> QED BY <1>10, <1>11, <3>1
    <2>2. StrikePlace(w) + 1 = Len(s3) + 2
      BY <1>12, <1>13
    <2> QED BY <1>4, <1>13, <1>18, <2>1, <2>2
  <1>19. ASSUME ending # <<>> PROVE s5[Len(s5)] = ending[1]
    <2>1. Len(ending) = 1
      BY <1>5, <1>19, Zenon
    <2>2. Len(s5) = Len(s4) + 1 /\ 1 \in 1 .. Len(ending)
      BY <1>11, <2>1
    <2> QED BY <1>11, <2>2
  <1>20. Len(s5) = Counts(w)
    BY <1>1, <1>4, <1>5, <1>7, <1>8, <1>9, <1>10, <1>11 DEF Counts, ending
  <1>21. ending = w.ending
    BY DEF ending
  <1> QED BY <1>6, <1>11, <1>15, <1>16, <1>17, <1>18, <1>19, <1>20, <1>21 DEF IsNamed

LEMMA KindOfParts ==
  ASSUME NEW w \in Forms
  PROVE  /\ PeriodWord.kind = "period" /\ Paren.kind = "paren" /\ CutParen.kind = "cut"
         /\ Part("type", w.type).kind = "type" /\ Part("type", w.type).text = w.type
         /\ StrikeOf(w).text = w.strike.text
         /\ StrikeOf(w).kind = IF w.day # "glued" THEN w.strike.kind
                               ELSE IF w.strike.kind = "number" THEN "glued" ELSE "word"
         /\ w.ending # <<>> => w.ending[1].kind = IF w.ending = <<CutParen>> THEN "cut" ELSE "paren"
  <1>1. w.ending \in {<<>>, <<Paren>>, <<CutParen>>}
    BY PartsOfNames
  <1>2. PeriodWord.kind = "period" /\ Paren.kind = "paren" /\ CutParen.kind = "cut"
        /\ Part("type", w.type).kind = "type" /\ Part("type", w.type).text = w.type
    BY DEF PeriodWord, Paren, CutParen, Part
  <1>3. /\ StrikeOf(w).text = w.strike.text
        /\ StrikeOf(w).kind = IF w.day # "glued" THEN w.strike.kind
                              ELSE IF w.strike.kind = "number" THEN "glued" ELSE "word"
    BY DEF StrikeOf, Glued, Part
  <1>4. CASE w.ending = <<>>
    BY <1>2, <1>3, <1>4
  <1>5. CASE w.ending = <<Paren>>
    <2>1. w.ending[1] = Paren
      BY <1>5
    <2>2. w.ending # <<CutParen>>
      <3>1. <<CutParen>>[1] = CutParen
        OBVIOUS
      <3> QED BY <1>2, <2>1, <3>1
    <2> QED BY <1>2, <1>3, <2>1, <2>2
  <1>6. CASE w.ending = <<CutParen>>
    <2>1. w.ending[1] = CutParen
      BY <1>6
    <2> QED BY <1>2, <1>3, <1>6, <2>1
  <1> QED BY <1>1, <1>4, <1>5, <1>6

LEMMA PlacesOfNames ==
  ASSUME NEW w \in Forms
  PROVE  /\ Prefixes(w) \in {0, 1} /\ (w.period <=> Prefixes(w) = 1)
         /\ Spaced(w) \in {0, 1} /\ (w.day = "spaced" <=> Spaced(w) = 1)
         /\ Len(w.asset) \in Nat /\ Len(w.asset) >= 1
         /\ Len(w.ending) \in {0, 1} /\ (w.ending = <<>> <=> Len(w.ending) = 0)
         /\ StrikePlace(w) \in Nat /\ StrikePlace(w) = Prefixes(w) + Len(w.asset) + Spaced(w) + 1
         /\ w.option => Counts(w) = StrikePlace(w) + 1 + Len(w.ending)
         /\ ~w.option => Counts(w) = StrikePlace(w) - 1 + Len(w.ending)
  <1>1. Len(w.asset) \in Nat \ {0} /\ w.ending \in {<<>>, <<Paren>>, <<CutParen>>}
    BY PartsOfNames
  <1>2. Len(w.ending) \in {0, 1} /\ (w.ending = <<>> <=> Len(w.ending) = 0)
    <2>1. Len(<<>>) = 0 /\ Len(<<Paren>>) = 1 /\ Len(<<CutParen>>) = 1
      OBVIOUS
    <2>2. <<Paren>> # <<>> /\ <<CutParen>> # <<>>
      OBVIOUS
    <2> QED BY <1>1, <2>1, <2>2
  <1>3. /\ Prefixes(w) \in {0, 1} /\ (w.period <=> Prefixes(w) = 1)
        /\ Spaced(w) \in {0, 1} /\ (w.day = "spaced" <=> Spaced(w) = 1)
    BY DEF Prefixes, Spaced
  <1>4. StrikePlace(w) \in Nat /\ StrikePlace(w) = Prefixes(w) + Len(w.asset) + Spaced(w) + 1
    BY <1>1, <1>3 DEF StrikePlace
  <1>5. /\ w.option => Counts(w) = Prefixes(w) + Len(w.asset) + Spaced(w) + 2 + Len(w.ending)
        /\ ~w.option => Counts(w) = Prefixes(w) + Len(w.asset) + Spaced(w) + 0 + Len(w.ending)
    BY DEF Counts
  <1>6. /\ w.option => Counts(w) = StrikePlace(w) + 1 + Len(w.ending)
        /\ ~w.option => Counts(w) = StrikePlace(w) - 1 + Len(w.ending)
    BY <1>1, <1>2, <1>3, <1>4, <1>5
  <1> QED BY <1>1, <1>2, <1>3, <1>4, <1>6

\* The only type in the name of an instrument is that of an option.
LEMMA OneType ==
  ASSUME NEW w \in Forms, NEW name, IsNamed(name, w), NEW i \in 1 .. Len(name)
  PROVE  name[i].kind = "type" <=> w.option /\ i = StrikePlace(w) + 1
  <1>1. /\ w.period => name[1] = PeriodWord
        /\ \A k \in 1 .. Len(w.asset) : name[Prefixes(w) + k] = w.asset[k]
        /\ w.day = "spaced" => name[StrikePlace(w) - 1] = Paren
        /\ w.option => name[StrikePlace(w)] = StrikeOf(w) /\ name[StrikePlace(w) + 1] = Part("type", w.type)
        /\ w.ending # <<>> => name[Len(name)] = w.ending[1]
        /\ Len(name) = Counts(w)
    BY DEF IsNamed
  <1>2. /\ Prefixes(w) \in {0, 1} /\ (w.period <=> Prefixes(w) = 1)
        /\ Spaced(w) \in {0, 1} /\ (w.day = "spaced" <=> Spaced(w) = 1)
        /\ Len(w.asset) \in Nat /\ Len(w.asset) >= 1
        /\ Len(w.ending) \in {0, 1} /\ (w.ending = <<>> <=> Len(w.ending) = 0)
        /\ StrikePlace(w) \in Nat /\ StrikePlace(w) = Prefixes(w) + Len(w.asset) + Spaced(w) + 1
        /\ w.option => Counts(w) = StrikePlace(w) + 1 + Len(w.ending)
        /\ ~w.option => Counts(w) = StrikePlace(w) - 1 + Len(w.ending)
    BY PlacesOfNames
  <1>3. \A k \in 1 .. Len(w.asset) : w.asset[k].kind \in {"word", "number"}
    BY PartsOfNames
  <1>4. w.option \in BOOLEAN /\ w.period \in BOOLEAN /\ w.strike.kind \in {"number", "decimal"}
    BY PartsOfNames
  <1>5. CASE i <= Prefixes(w)
    <2>1. i = 1 /\ w.period
      BY <1>2, <1>5
    <2>2. name[i].kind = "period"
      BY <1>1, <2>1, KindOfParts
    <2>3. i < StrikePlace(w)
      BY <1>2, <2>1
    <2> QED BY <1>2, <2>2, <2>3
  <1>6. CASE i > Prefixes(w) /\ i <= Prefixes(w) + Len(w.asset)
    <2>1. PICK k \in 1 .. Len(w.asset) : i = Prefixes(w) + k
      <3>1. i - Prefixes(w) \in 1 .. Len(w.asset) /\ i = Prefixes(w) + (i - Prefixes(w))
        BY <1>2, <1>6, SMTT(20)
      <3> QED BY <3>1
    <2>2. name[i].kind \in {"word", "number"}
      BY <1>1, <1>3, <2>1
    <2>3. i < StrikePlace(w)
      BY <1>2, <1>6
    <2> QED BY <1>2, <2>2, <2>3
  <1>7. CASE i > Prefixes(w) + Len(w.asset) /\ i < StrikePlace(w)
    <2>1. w.day = "spaced" /\ i = StrikePlace(w) - 1
      BY <1>2, <1>7
    <2>2. name[i].kind = "paren"
      BY <1>1, <2>1, KindOfParts
    <2> QED BY <1>2, <1>7, <2>2
  <1>8. CASE w.option /\ i = StrikePlace(w)
    <2>1. name[i].kind \in {"number", "decimal", "glued", "word"}
      BY <1>1, <1>4, <1>8, KindOfParts
    <2> QED BY <1>2, <1>8, <2>1
  <1>9. CASE w.option /\ i = StrikePlace(w) + 1
    BY <1>1, <1>9, KindOfParts
  <1>10. CASE i >= StrikePlace(w) /\ ~(w.option /\ i \in {StrikePlace(w), StrikePlace(w) + 1})
    <2>1. i = Len(name) /\ w.ending # <<>>
      <3>1. Len(name) = Counts(w) /\ i \in Nat /\ i <= Len(name)
        BY <1>1, <1>2
      <3>2. PICK s \in Nat, e \in {0, 1} : s = StrikePlace(w) /\ e = Len(w.ending)
        BY <1>2
      <3>3. i >= s
        BY <1>10, <3>2
      <3>6. e = 0 <=> w.ending = <<>>
        BY <1>2, <3>2
      <3>4. CASE w.option
        <4>1. Len(name) = s + 1 + e /\ i # s /\ i # s + 1
          BY <1>1, <1>2, <1>10, <3>2, <3>4
        <4>2. i = Len(name) /\ e = 1
          BY <3>1, <3>3, <4>1
        <4> QED BY <3>6, <4>2
      <3>5. CASE ~w.option
        <4>1. Len(name) = s - 1 + e
          BY <1>1, <1>2, <3>2, <3>5
        <4>2. i = Len(name) /\ e = 1
          BY <3>1, <3>3, <4>1
        <4> QED BY <3>6, <4>2
      <3> QED BY <3>4, <3>5
    <2>2. name[i].kind \in {"paren", "cut"}
      BY <1>1, <2>1, KindOfParts
    <2> QED BY <1>10, <2>2
  <1> QED BY <1>2, <1>5, <1>6, <1>7, <1>8, <1>9, <1>10

\* So there is one place where the strike of an option can be, if it and what follows fit.
LEMMA StrikeIsAt ==
  ASSUME NEW w \in Forms, NEW name, IsNamed(name, w), NEW kinds, NEW ends
  PROVE  StrikeAt(name, kinds, ends)
           = IF /\ w.option /\ StrikeOf(w).kind \in kinds
                /\ \/ w.ending = <<>> /\ "none" \in ends
                   \/ w.ending # <<>> /\ w.ending[1].kind \in ends
             THEN StrikePlace(w) ELSE 0
  <1> DEFINE places == {i \in DOMAIN name :
                   /\ i > 1 /\ name[i].kind \in kinds /\ Kind(name, i + 1) = "type"
                   /\ \/ Len(name) = i + 1 /\ "none" \in ends
                      \/ Len(name) = i + 2 /\ Kind(name, i + 2) \in ends}
             fits == /\ w.option /\ StrikeOf(w).kind \in kinds
                     /\ \/ w.ending = <<>> /\ "none" \in ends
                        \/ w.ending # <<>> /\ w.ending[1].kind \in ends
             s == StrikePlace(w)
  <1>1. /\ name \in Seq(AllParts) /\ Len(name) \in Nat /\ DOMAIN name = 1 .. Len(name)
        /\ w.option => name[s] = StrikeOf(w)
        /\ w.ending # <<>> => name[Len(name)] = w.ending[1]
        /\ w.option => Len(name) = s + 1 + Len(w.ending)
        /\ Len(w.ending) \in {0, 1} /\ (w.ending = <<>> <=> Len(w.ending) = 0)
    BY PlacesOfNames DEF IsNamed
  <1>2. s \in Nat /\ s > 1 /\ w.option \in BOOLEAN
    <2>1. /\ Prefixes(w) \in {0, 1} /\ Spaced(w) \in {0, 1} /\ Len(w.asset) \in Nat
          /\ Len(w.asset) >= 1 /\ s = Prefixes(w) + Len(w.asset) + Spaced(w) + 1
      BY PlacesOfNames
    <2> QED BY <2>1, PartsOfNames
  <1> HIDE DEF s
  <1>3. ASSUME NEW i \in DOMAIN name, Kind(name, i + 1) = "type"
        PROVE  w.option /\ i = s
    <2>1. i + 1 \in DOMAIN name /\ name[i + 1].kind = "type"
      BY <1>3 DEF Kind
    <2>2. i + 1 \in 1 .. Len(name)
      BY <1>1, <2>1
    <2>3. w.option /\ i + 1 = s + 1
      BY <2>1, <2>2, OneType DEF s
    <2> QED BY <1>1, <1>2, <2>3
  <1>4. ASSUME w.option
        PROVE  s \in DOMAIN name /\ Kind(name, s + 1) = "type" /\ (Len(name) = s + 1 <=> w.ending = <<>>)
               /\ (w.ending # <<>> => Len(name) = s + 2 /\ Kind(name, s + 2) = w.ending[1].kind)
               /\ (Len(name) = s + 2 => w.ending # <<>>)
    <2>1. s \in DOMAIN name /\ s + 1 \in 1 .. Len(name) /\ (Len(name) = s + 1 <=> w.ending = <<>>)
          /\ (w.ending # <<>> => Len(name) = s + 2) /\ (Len(name) = s + 2 => w.ending # <<>>)
          /\ (w.ending # <<>> => s + 2 \in DOMAIN name)
      <3>1. PICK e \in {0, 1} : e = Len(w.ending) /\ (w.ending = <<>> <=> e = 0)
        BY <1>1
      <3>2. Len(name) = s + 1 + e /\ DOMAIN name = 1 .. s + 1 + e
        BY <1>1, <1>4, <3>1
      <3>3. /\ s \in 1 .. s + 1 + e /\ s + 1 \in 1 .. s + 1 + e
            /\ s + 1 + e = s + 1 <=> e = 0
            /\ s + 1 + e = s + 2 <=> e # 0
            /\ e # 0 => s + 2 \in 1 .. s + 1 + e
        BY ONLY <1>2, s \in Nat, e \in {0, 1}
      <3> QED BY <3>1, <3>2, <3>3, Zenon
    <2>2. name[s + 1].kind = "type"
      BY <1>4, <2>1, OneType DEF s
    <2>3. Kind(name, s + 1) = "type"
      BY <1>1, <2>1, <2>2 DEF Kind
    <2>4. w.ending # <<>> => Kind(name, s + 2) = w.ending[1].kind
      <3> QED BY <1>1, <2>1 DEF Kind
    <2> QED BY <2>1, <2>3, <2>4
  <1>5. CASE fits
    <2>1. s \in places
      BY <1>1, <1>2, <1>4, <1>5
    <2>2. \A i \in places : i = s
      BY <1>3
    <2>3. places # {} /\ (CHOOSE i \in places : TRUE) \in places
      BY <2>1
    <2>4. StrikeAt(name, kinds, ends) = CHOOSE i \in places : TRUE
      BY <2>3 DEF StrikeAt
    <2> HIDE DEF places
    <2> QED BY <1>5, <2>2, <2>3, <2>4 DEF s
  <1>6. CASE ~fits
    <2>1. \A i \in places : FALSE
      <3>1. ASSUME NEW i \in places PROVE FALSE
        <4>1. w.option /\ i = s
          BY <1>3, <3>1
        <4> QED BY <1>1, <1>4, <1>6, <3>1, <4>1
      <3> QED BY <3>1
    <2>2. places = {}
      BY <2>1
    <2>3. StrikeAt(name, kinds, ends) = 0
      BY <2>2 DEF StrikeAt
    <2> QED BY <1>6, <2>3
  <1> QED BY <1>5, <1>6

LEMMA UptoPlace ==
  ASSUME NEW name \in Seq(AllParts), NEW n \in 0 .. Len(name)
  PROVE  /\ Upto(name, n) \in Seq(AllParts) /\ Len(Upto(name, n)) = n
         /\ \A i \in 1 .. n : Upto(name, n)[i] = name[i]
  <1>1. Len(name) \in Nat /\ n \in Nat /\ \A i \in 1 .. n : name[i] \in AllParts
    OBVIOUS
  <1>2. /\ SubSeq(name, 1, n) \in Seq(AllParts)
        /\ Len(SubSeq(name, 1, n)) = IF 1 <= n THEN n - 1 + 1 ELSE 0
        /\ \A i \in 1 .. n - 1 + 1 : SubSeq(name, 1, n)[i] = name[1 + i - 1]
    BY <1>1, SubSeqProperties
  <1> QED BY <1>1, <1>2 DEF Upto

LEMMA SuffixGone ==
  ASSUME NEW name \in Seq(AllParts), NEW n \in 1 .. Len(name),
         \A k \in 1 .. n : name[k].kind # "paren",
         Len(name) > n => name[n + 1].kind = "paren" /\ name[Len(name)].kind = "paren"
  PROVE  WithoutSuffix(name) = Upto(name, n)
  <1> DEFINE parens == {i \in DOMAIN name \ {1} : name[i].kind = "paren"}
  <1>1. Len(name) \in Nat /\ DOMAIN name = 1 .. Len(name) /\ n \in Nat /\ n >= 1 /\ n <= Len(name)
    OBVIOUS
  <1>2. CASE Len(name) = n
    <2>1. parens = {}
      BY <1>1, <1>2
    <2>2. WithoutSuffix(name) = name
      BY <2>1 DEF WithoutSuffix
    <2>3. Upto(name, n) = name
      BY <1>2, SubSeqFull DEF Upto
    <2> QED BY <2>2, <2>3
  <1>3. CASE Len(name) > n
    <2>1. n + 1 \in parens
      BY <1>1, <1>3
    <2>2. \A i \in parens : i \in Nat /\ i >= n + 1
      BY <1>1
    <2>3. Kind(name, Len(name)) = "paren"
      BY <1>1, <1>3 DEF Kind
    <2>4. WithoutSuffix(name) = Upto(name, (CHOOSE i \in parens : \A j \in parens : i <= j) - 1)
      BY <2>1, <2>3 DEF WithoutSuffix
    <2> HIDE DEF parens
    <2>5. PICK first : first = CHOOSE i \in parens : \A j \in parens : i <= j
      OBVIOUS
    <2>6. \A j \in parens : n + 1 <= j
      BY <2>2
    <2>7. first \in parens /\ \A j \in parens : first <= j
      BY <2>1, <2>5, <2>6
    <2>8. first - 1 = n
      <3>1. first \in Nat /\ first >= n + 1 /\ first <= n + 1
        BY <2>1, <2>2, <2>7
      <3> QED BY <1>1, <3>1
    <2>9. WithoutSuffix(name) = Upto(name, first - 1)
      BY <2>4, <2>5, Zenon
    <2> QED BY <2>8, <2>9
  <1>4. Len(name) = n \/ Len(name) > n
    <2>1. \A l \in Nat : n <= l => l = n \/ l > n
      BY <1>1
    <2> QED BY <1>1, <2>1, Zenon
  <1> QED BY <1>2, <1>3, <1>4, Zenon

\* The underlying is what stands between one word for the period and a parenthesis.
LEMMA AssetCleaned ==
  ASSUME NEW w \in Forms, NEW name \in Seq(AllParts), NEW m \in Nat,
         Len(name) = Prefixes(w) + Len(w.asset) + m,
         w.period => name[1] = PeriodWord,
         \A k \in 1 .. Len(w.asset) : name[Prefixes(w) + k] = w.asset[k],
         m > 0 => name[Prefixes(w) + Len(w.asset) + 1].kind = "paren" /\ name[Len(name)].kind = "paren"
  PROVE  CleanAssetName(name) = w.asset
  <1> DEFINE base == IF Len(name) > 1 /\ name[1].kind = "period" THEN Tail(name) ELSE name
             n    == Len(w.asset)
  <1>1. /\ n \in Nat \ {0} /\ w.period \in BOOLEAN /\ w.asset \in Seq(AllParts)
        /\ \A k \in 1 .. n : w.asset[k].kind \in {"word", "number"}
    BY PartsOfNames
  <1>2. /\ Prefixes(w) \in {0, 1} /\ (w.period <=> Prefixes(w) = 1) /\ n \in Nat /\ n >= 1
        /\ Len(name) = Prefixes(w) + n + m
    BY PlacesOfNames
  <1>3. /\ base \in Seq(AllParts) /\ Len(base) = n + m
        /\ \A k \in 1 .. n + m : base[k] = name[Prefixes(w) + k]
    <2>1. CASE w.period
      <3>1. Len(name) > 1 /\ name[1].kind = "period"
        BY <1>1, <1>2, <2>1, KindOfParts
      <3>2. name # <<>> /\ base = Tail(name)
        BY <3>1
      <3> HIDE DEF base
      <3>3. /\ base \in Seq(AllParts) /\ Len(base) = Len(name) - 1
            /\ \A k \in 1 .. Len(base) : base[k] = name[k + 1]
        BY <3>2, HeadTailProperties
      <3>4. Prefixes(w) = 1
        BY <1>2, <2>1
      <3>5. Len(base) = n + m
        BY <1>2, <3>3, <3>4
      <3>6. \A k \in 1 .. n + m : Prefixes(w) + k = k + 1
        BY <3>4
      <3> QED BY <3>3, <3>5, <3>6
    <2>2. CASE ~w.period
      <3>1. name[1] = w.asset[1] /\ name[1].kind # "period"
        <4> HIDE DEF n
        <4>a. Prefixes(w) = 0
          BY ONLY <1>2, <2>2
        <4>b. 1 \in 1 .. n
          BY ONLY <1>1
        <4>1. 1 \in 1 .. n /\ Prefixes(w) + 1 = 1
          BY ONLY <4>a, <4>b
        <4>2. name[Prefixes(w) + 1] = w.asset[1]
          <5>1. 1 \in 1 .. Len(w.asset)
            BY <4>1 DEF n
          <5> QED BY ONLY <5>1, \A k \in 1 .. Len(w.asset) : name[Prefixes(w) + k] = w.asset[k]
        <4>3. name[1] = w.asset[1]
          BY ONLY <4>1, <4>2
        <4>4. w.asset[1].kind \in {"word", "number"}
          BY <1>1, <4>1
        <4> QED BY ONLY <4>3, <4>4
      <3>2. base = name
        BY <3>1
      <3> HIDE DEF base
      <3>3. Prefixes(w) = 0
        BY <1>2, <2>2
      <3>4. Len(base) = n + m
        BY <1>2, <3>2, <3>3
      <3>5. \A k \in 1 .. n + m : Prefixes(w) + k = k
        BY <3>3
      <3> QED BY <3>2, <3>4, <3>5
    <2> QED BY <1>1, <2>1, <2>2
  <1>4. CleanAssetName(name) = WithoutSuffix(base)
    BY DEF CleanAssetName
  <1> HIDE DEF base, n
  <1>5. \A k \in 1 .. n : base[k] = w.asset[k] /\ base[k].kind # "paren"
    <2>1. ASSUME NEW k \in 1 .. n PROVE base[k] = w.asset[k]
      <3>1. k \in 1 .. n + m
        BY <1>1
      <3> QED BY <1>3, <3>1 DEF n
    <2> QED BY <1>1, <2>1
  <1>6. m > 0 => base[n + 1].kind = "paren" /\ base[Len(base)].kind = "paren"
    <2>1. ASSUME m > 0 PROVE base[n + 1].kind = "paren" /\ base[Len(base)].kind = "paren"
      <3>1. /\ n + 1 \in 1 .. n + m /\ n + m \in 1 .. n + m
            /\ Prefixes(w) + (n + 1) = Prefixes(w) + n + 1 /\ Prefixes(w) + (n + m) = Len(name)
        BY <1>2, <2>1
      <3> QED BY <1>3, <2>1, <3>1 DEF n
    <2> QED BY <2>1
  <1>7. WithoutSuffix(base) = Upto(base, n)
    <2>1. n \in 1 .. Len(base) /\ (Len(base) > n => m > 0)
      BY <1>1, <1>3
    <2> QED BY <1>3, <1>5, <1>6, <2>1, SuffixGone
  <1>8. Upto(base, n) = w.asset
    <2>1. n \in 0 .. Len(base)
      BY <1>1, <1>3
    <2>2. /\ Upto(base, n) \in Seq(AllParts) /\ Len(Upto(base, n)) = n
          /\ \A i \in 1 .. n : Upto(base, n)[i] = base[i]
      BY <1>3, <2>1, UptoPlace
    <2>3. Len(w.asset) = n
      BY DEF n
    <2>4. \A i \in 1 .. Len(w.asset) : Upto(base, n)[i] = w.asset[i]
      BY <1>5, <2>2, <2>3
    <2> QED BY <1>1, <2>2, <2>3, <2>4, SeqEqual
  <1> QED BY <1>4, <1>7, <1>8

\* The patterns: which of them finds the strike, and what is made of the rest.
LEMMA WhatIsParsed ==
  ASSUME NEW w \in Forms, NEW name, IsNamed(name, w)
  PROVE  LET lost == w.day = "glued" /\ (w.strike.kind = "decimal" \/ w.ending = <<CutParen>>)
         IN ParseInstrumentName(name)
              = IF w.option /\ ~lost THEN Option(name, StrikePlace(w))
                ELSE Info(CleanAssetName(WithoutSuffix(name)), NoOption, NoOption)
  <1> DEFINE lost  == w.day = "glued" /\ (w.strike.kind = "decimal" \/ w.ending = <<CutParen>>)
             plain == StrikeAt(name, {"number", "decimal"}, {"none", "paren"})
             glued == StrikeAt(name, {"glued"}, {"none", "paren"})
             cut   == StrikeAt(name, {"number", "decimal"}, {"cut"})
             s     == StrikePlace(w)
             kind  == StrikeOf(w).kind
             isCut == w.ending = <<CutParen>>
             rest  == Info(CleanAssetName(WithoutSuffix(name)), NoOption, NoOption)
  <1>1. /\ w.strike.kind \in {"number", "decimal"} /\ w.day \in {"none", "spaced", "glued"}
        /\ w.option \in BOOLEAN /\ w.ending \in {<<>>, <<Paren>>, <<CutParen>>}
    BY PartsOfNames
  <1>2. /\ kind = IF w.day # "glued" THEN w.strike.kind
                  ELSE IF w.strike.kind = "number" THEN "glued" ELSE "word"
        /\ w.ending # <<>> => w.ending[1].kind = IF isCut THEN "cut" ELSE "paren"
    BY KindOfParts
  <1>3. isCut => w.ending # <<>>
    OBVIOUS
  <1>4. s \in Nat /\ s # 0
    <2>1. /\ Prefixes(w) \in {0, 1} /\ Spaced(w) \in {0, 1} /\ Len(w.asset) \in Nat
          /\ s = Prefixes(w) + Len(w.asset) + Spaced(w) + 1
      BY PlacesOfNames
    <2> QED BY <2>1
  <1>5. plain = IF w.option /\ kind \in {"number", "decimal"} /\ ~isCut THEN s ELSE 0
    BY <1>2, <1>3, StrikeIsAt
  <1>6. glued = IF w.option /\ kind = "glued" /\ ~isCut THEN s ELSE 0
    BY <1>2, <1>3, StrikeIsAt
  <1>7. cut = IF w.option /\ kind \in {"number", "decimal"} /\ isCut THEN s ELSE 0
    BY <1>2, <1>3, StrikeIsAt
  <1>8. ParseInstrumentName(name)
          = IF plain # 0 THEN Option(name, plain)
            ELSE IF glued # 0 THEN Option(name, glued)
            ELSE IF cut # 0 THEN Option(name, cut) ELSE rest
    BY DEF ParseInstrumentName
  <1> HIDE DEF plain, glued, cut, rest, s, kind, isCut
  <1>9. lost <=> w.day = "glued" /\ (w.strike.kind = "decimal" \/ isCut)
    BY DEF isCut
  <1> HIDE DEF lost
  <1>10. CASE w.option /\ ~lost
    <2>1. ParseInstrumentName(name) = Option(name, s)
      BY <1>1, <1>2, <1>4, <1>5, <1>6, <1>7, <1>8, <1>9, <1>10
    <2> QED BY <1>10, <2>1 DEF s, lost
  <1>11. CASE ~(w.option /\ ~lost)
    <2>1. plain = 0 /\ glued = 0 /\ cut = 0
      BY <1>1, <1>2, <1>5, <1>6, <1>7, <1>9, <1>11
    <2> QED BY <1>8, <1>11, <2>1 DEF rest, lost
  <1> QED BY <1>10, <1>11

\* The strike and the type of an option are at their place, and its underlying is before it.
LEMMA OptionFound ==
  ASSUME NEW w \in Forms, NEW name, IsNamed(name, w), w.option
  PROVE  Option(name, StrikePlace(w)) = Info(w.asset, w.strike.text, w.type)
  <1> DEFINE s == StrikePlace(w)
             n == Len(w.asset)
             d == Spaced(w)
             before == Upto(name, s - 1)
  <1>1. /\ Prefixes(w) \in {0, 1} /\ (w.period <=> Prefixes(w) = 1)
        /\ d \in {0, 1} /\ (w.day = "spaced" <=> d = 1)
        /\ n \in Nat /\ n >= 1 /\ Len(w.ending) \in {0, 1}
        /\ s \in Nat /\ s = Prefixes(w) + n + d + 1 /\ Counts(w) = s + 1 + Len(w.ending)
    BY PlacesOfNames
  <1>2. /\ name \in Seq(AllParts) /\ Len(name) = Counts(w)
        /\ w.period => name[1] = PeriodWord
        /\ \A k \in 1 .. n : name[Prefixes(w) + k] = w.asset[k]
        /\ w.day = "spaced" => name[s - 1] = Paren
        /\ name[s] = StrikeOf(w) /\ name[s + 1] = Part("type", w.type)
    BY DEF IsNamed
  <1> HIDE DEF s, n, d
  <1>3. s - 1 \in 0 .. Len(name) /\ s - 1 = Prefixes(w) + n + d
    BY <1>1, <1>2
  <1>4. /\ before \in Seq(AllParts) /\ Len(before) = s - 1
        /\ \A i \in 1 .. s - 1 : before[i] = name[i]
    BY <1>2, <1>3, UptoPlace
  <1> HIDE DEF before
  <1>5. w.period => before[1] = PeriodWord
    <2>1. 1 \in 1 .. s - 1
      BY <1>1
    <2> QED BY <1>2, <1>4, <2>1
  <1>6. \A k \in 1 .. n : before[Prefixes(w) + k] = w.asset[k]
    <2>1. ASSUME NEW k \in 1 .. n PROVE before[Prefixes(w) + k] = w.asset[k]
      <3>1. Prefixes(w) + k \in 1 .. s - 1
        BY <1>1
      <3> QED BY <1>2, <1>4, <3>1
    <2> QED BY <2>1
  <1>7. d > 0 => before[Prefixes(w) + n + 1].kind = "paren" /\ before[Len(before)].kind = "paren"
    <2>1. ASSUME d > 0 PROVE before[s - 1] = Paren /\ Prefixes(w) + n + 1 = s - 1 /\ Len(before) = s - 1
      <3>1. d = 1 /\ s - 1 \in 1 .. s - 1 /\ Prefixes(w) + n + 1 = s - 1
        BY <1>1, <2>1
      <3> QED BY <1>1, <1>2, <1>4, <3>1
    <2> QED BY <2>1, KindOfParts
  <1>8. CleanAssetName(before) = w.asset
    <2>1. d \in Nat /\ Len(before) = Prefixes(w) + Len(w.asset) + d
      BY <1>1, <1>3, <1>4 DEF n
    <2> QED BY <1>4, <1>5, <1>6, <1>7, <2>1, AssetCleaned DEF n
  <1>9. name[s].text = w.strike.text /\ name[s + 1].text = w.type
    BY <1>2, KindOfParts
  <1> QED BY <1>8, <1>9 DEF Option, before, s

\* Without a strike to find, the name is the underlying, when it does not end with a text
\* that was cut off.
LEMMA AssetFound ==
  ASSUME NEW w \in Forms, NEW name, IsNamed(name, w), ~w.option, w.ending # <<CutParen>>
  PROVE  CleanAssetName(WithoutSuffix(name)) = w.asset
  <1> DEFINE n == Len(w.asset)
             d == Spaced(w)
             e == Len(w.ending)
             p == Prefixes(w)
             before == Upto(name, p + n)
  <1>1. /\ p \in {0, 1} /\ (w.period <=> p = 1) /\ d \in {0, 1} /\ (w.day = "spaced" <=> d = 1)
        /\ n \in Nat /\ n >= 1 /\ e \in {0, 1} /\ (w.ending = <<>> <=> e = 0)
        /\ StrikePlace(w) = p + n + d + 1 /\ Counts(w) = StrikePlace(w) - 1 + e
    BY PlacesOfNames
  <1>2. /\ name \in Seq(AllParts) /\ Len(name) = Counts(w)
        /\ w.period => name[1] = PeriodWord
        /\ \A k \in 1 .. n : name[p + k] = w.asset[k]
        /\ w.day = "spaced" => name[StrikePlace(w) - 1] = Paren
        /\ w.ending # <<>> => name[Len(name)] = w.ending[1]
    BY DEF IsNamed
  <1>3. \A k \in 1 .. n : w.asset[k].kind \in {"word", "number"}
    BY PartsOfNames
  <1> HIDE DEF n, d, e, p
  <1>4. Len(name) = p + n + d + e /\ p + n \in 1 .. Len(name) /\ p + n \in 0 .. Len(name)
    BY <1>1, <1>2
  <1>5. \A k \in 1 .. p + n : name[k].kind # "paren"
    <2>1. ASSUME NEW k \in 1 .. p + n PROVE name[k].kind # "paren"
      <3>1. CASE k <= p
        <4>1. k = 1 /\ w.period
          BY <1>1, <3>1
        <4> QED BY <1>2, <4>1, KindOfParts
      <3>2. CASE k > p
        <4>1. k - p \in 1 .. n /\ p + (k - p) = k
          BY <1>1, <3>2
        <4>2. name[k] = w.asset[k - p]
          BY <1>2, <4>1
        <4> QED BY <1>3, <4>1, <4>2
      <3> QED BY <1>1, <3>1, <3>2
    <2> QED BY <2>1
  <1>6. e = 1 => name[Len(name)].kind = "paren"
    BY <1>1, <1>2, KindOfParts
  <1>7. d = 1 => name[p + n + 1].kind = "paren"
    <2>1. StrikePlace(w) - 1 = p + n + d
      BY <1>1
    <2> QED BY <1>1, <1>2, <2>1, KindOfParts
  <1>8. Len(name) > p + n => name[p + n + 1].kind = "paren" /\ name[Len(name)].kind = "paren"
    <2>1. CASE d = 1 /\ e = 1
      BY <1>6, <1>7, <2>1
    <2>2. CASE d = 1 /\ e = 0
      <3>1. Len(name) = p + n + 1
        BY <1>1, <1>4, <2>2
      <3> QED BY <1>7, <2>2, <3>1
    <2>3. CASE d = 0 /\ e = 1
      <3>1. Len(name) = p + n + 1
        BY <1>1, <1>4, <2>3
      <3> QED BY <1>6, <2>3, <3>1
    <2>4. CASE d = 0 /\ e = 0
      <3>1. Len(name) = p + n /\ p + n \in Nat
        BY <1>1, <1>4, <2>4
      <3> QED BY <3>1
    <2> QED BY <1>1, <2>1, <2>2, <2>3, <2>4
  <1>9. WithoutSuffix(name) = before
    BY <1>2, <1>4, <1>5, <1>8, SuffixGone
  <1>10. /\ before \in Seq(AllParts) /\ Len(before) = p + n
         /\ \A i \in 1 .. p + n : before[i] = name[i]
    BY <1>2, <1>4, UptoPlace
  <1> HIDE DEF before
  <1>11. w.period => before[1] = PeriodWord
    <2>1. 1 \in 1 .. p + n
      BY <1>1
    <2> QED BY <1>2, <1>10, <2>1
  <1>12. \A k \in 1 .. n : before[p + k] = w.asset[k]
    <2>1. ASSUME NEW k \in 1 .. n PROVE before[p + k] = w.asset[k]
      <3>1. p \in Nat /\ n \in Nat
        BY <1>1
      <3>2. p + k \in 1 .. p + n
        BY <3>1
      <3> QED BY <1>2, <1>10, <3>2
    <2> QED BY <2>1
  <1>13. Len(before) = p + n + 0
    BY <1>1, <1>10
  <1>14. CleanAssetName(before) = w.asset
    <2>1. 0 \in Nat /\ ~(0 > 0)
      OBVIOUS
    <2> QED BY <1>10, <1>11, <1>12, <1>13, <2>1, AssetCleaned DEF p, n
  <1> QED BY <1>9, <1>14

\* is_call and is_put find the type wherever it is in the name.
LEMMA TypeFound ==
  ASSUME NEW w \in Forms, NEW name, IsNamed(name, w), NEW type \in Types
  PROVE  IsTypeName(name, type) <=> w.option /\ w.type = type
  <1>1. Len(name) \in Nat /\ DOMAIN name = 1 .. Len(name)
    BY DEF IsNamed
  <1>2. \A t : Part("type", t).kind = "type" /\ Part("type", t).text = t
    BY DEF Part
  <1>3. ASSUME NEW i \in DOMAIN name, name[i] = Part("type", type)
        PROVE  w.option /\ w.type = type
    <2>1. i \in 1 .. Len(name) /\ name[i].kind = "type"
      BY <1>1, <1>2, <1>3
    <2>2. w.option /\ i = StrikePlace(w) + 1
      BY <2>1, OneType
    <2>3. name[i] = Part("type", w.type)
      BY <2>2 DEF IsNamed
    <2>4. Part("type", type).text = Part("type", w.type).text
      BY <1>3, <2>3
    <2> QED BY <1>2, <2>2, <2>4
  <1>4. ASSUME w.option, w.type = type
        PROVE  \E i \in DOMAIN name : name[i] = Part("type", type)
    <2>1. name[StrikePlace(w) + 1] = Part("type", type)
      BY <1>4 DEF IsNamed
    <2>2. StrikePlace(w) + 1 \in DOMAIN name
      <3>1. /\ StrikePlace(w) \in Nat /\ Len(w.ending) \in {0, 1}
            /\ Counts(w) = StrikePlace(w) + 1 + Len(w.ending)
        BY <1>4, PlacesOfNames
      <3>2. Len(name) = Counts(w)
        BY DEF IsNamed
      <3>3. StrikePlace(w) + 1 \in 1 .. Counts(w)
        BY <3>1
      <3> QED BY <1>1, <3>2, <3>3
    <2> QED BY <2>1, <2>2
  <1> QED BY <1>3, <1>4 DEF IsTypeName

LEMMA NamesStep == NamesTell /\ [ReadName]_nam => NamesTell'
  <1> SUFFICES ASSUME NamesTell, [ReadName]_nam PROVE NamesTell'
    OBVIOUS
  <1>1. CASE ReadName
    <2> DEFINE lost == naming'.day = "glued"
                         /\ (naming'.strike.kind = "decimal" \/ naming'.ending = <<CutParen>>)
    <2>1. /\ naming' \in Forms /\ instrument_name' = Composed(naming')
          /\ parsed' = ParseInstrumentName(instrument_name')
      BY <1>1 DEF ReadName
    <2>2. IsNamed(instrument_name', naming')
      BY <2>1, NameIsComposed
    <2>3. parsed' = IF naming'.option /\ ~lost THEN Option(instrument_name', StrikePlace(naming'))
                    ELSE Info(CleanAssetName(WithoutSuffix(instrument_name')), NoOption, NoOption)
      BY <2>1, <2>2, WhatIsParsed
    <2>4. \A a, b, c : /\ Info(a, b, c).asset_name = a /\ Info(a, b, c).strike = b
                       /\ Info(a, b, c).option_type = c
      BY DEF Info
    <2>5. naming'.option /\ ~lost =>
            parsed' = Info(naming'.asset, naming'.strike.text, naming'.type)
      BY <2>1, <2>2, <2>3, OptionFound
    <2>6. ~naming'.option \/ lost => parsed'.strike = NoOption /\ parsed'.option_type = NoOption
      BY <2>3, <2>4
    <2>7. ~naming'.option /\ naming'.ending # <<CutParen>> => parsed'.asset_name = naming'.asset
      BY <2>1, <2>2, <2>3, <2>4, AssetFound
    <2>8. ASSUME NEW type \in Types
          PROVE  /\ IsTypeName(instrument_name', type) <=> naming'.option /\ naming'.type = type
                 /\ parsed'.option_type = type => IsTypeName(instrument_name', type)
      <3>1. IsTypeName(instrument_name', type) <=> naming'.option /\ naming'.type = type
        BY <2>1, <2>2, TypeFound
      <3>2. type # NoOption
        BY DEF Types, NoOption
      <3>3. CASE naming'.option /\ ~lost
        <4>1. parsed'.option_type = naming'.type
          BY <2>4, <2>5, <3>3
        <4> QED BY <3>1, <3>3, <4>1
      <3>4. CASE ~naming'.option \/ lost
        BY <2>6, <3>1, <3>2, <3>4
      <3> QED BY <3>3, <3>4
    <2> QED BY <2>5, <2>6, <2>7, <2>8 DEF NamesTell, IsTypeName
  <1>2. CASE UNCHANGED nam
    BY <1>2 DEF nam, NamesTell, IsTypeName
  <1> QED BY <1>1, <1>2

LEMMA NamesBegin == NamesInit => NamesTell
  BY DEF NamesInit, NamesTell

\* The name of an option gives back its underlying, strike and type, and that of another
\* instrument gives none, for any underlyings of words and numbers.
THEOREM NamesAreTold == NamesSpec => []NamesTell
  BY NamesBegin, NamesStep, PTL DEF NamesSpec

\* A name says no other type than one of the two.
NamesTyped == NamesTell /\ NamesTypeOK

LEMMA NamesTypesBegin == NamesInit => NamesTyped
  <1> SUFFICES ASSUME NamesInit PROVE NamesTyped
    OBVIOUS
  <1>1. Forms # {}
    <2>1. PICK a \in Assets, s \in Strikes : TRUE
      BY NamesAssumption
    <2>2. [asset |-> a, period |-> TRUE, day |-> "none", option |-> TRUE, strike |-> s,
           type |-> "CALL", ending |-> <<>>] \in Forms
      BY DEF Forms, Types
    <2> QED BY <2>2
  <1>2. naming \in Forms
    BY <1>1 DEF NamesInit
  <1>3. parsed.option_type = NoOption
    BY DEF NamesInit, Info
  <1> QED BY <1>2, <1>3, NamesBegin DEF NamesTyped, NamesTypeOK

LEMMA NamesKeepTypes == NamesTyped /\ [ReadName]_nam => NamesTyped'
  <1> SUFFICES ASSUME NamesTyped, [ReadName]_nam PROVE NamesTypeOK'
    BY NamesStep DEF NamesTyped
  <1>1. CASE UNCHANGED nam
    BY <1>1 DEF nam, NamesTyped, NamesTypeOK
  <1>2. CASE ReadName
    <2> DEFINE lost == naming'.day = "glued"
                         /\ (naming'.strike.kind = "decimal" \/ naming'.ending = <<CutParen>>)
    <2>1. /\ naming' \in Forms /\ instrument_name' = Composed(naming')
          /\ parsed' = ParseInstrumentName(instrument_name')
      BY <1>2 DEF ReadName
    <2>2. IsNamed(instrument_name', naming')
      BY <2>1, NameIsComposed
    <2>3. parsed' = IF naming'.option /\ ~lost THEN Option(instrument_name', StrikePlace(naming'))
                    ELSE Info(CleanAssetName(WithoutSuffix(instrument_name')), NoOption, NoOption)
      BY <2>1, <2>2, WhatIsParsed
    <2>4. \A a, b, c : Info(a, b, c).option_type = c
      BY DEF Info
    <2>5. naming'.option /\ ~lost => parsed'.option_type = naming'.type
      BY <2>1, <2>2, <2>3, <2>4, OptionFound
    <2>6. naming'.type \in Types
      BY <2>1 DEF Forms
    <2>7. ~(naming'.option /\ ~lost) => parsed'.option_type = NoOption
      BY <2>3, <2>4
    <2> HIDE DEF lost
    <2> QED BY <2>1, <2>5, <2>6, <2>7 DEF NamesTypeOK
  <1> QED BY <1>1, <1>2
=============================================================================
