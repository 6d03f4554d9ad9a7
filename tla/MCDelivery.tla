------------------------------ MODULE MCDelivery ------------------------------
(* Delivery on small instances, one per way the two feeds of a broker can differ. *)
EXTENDS Delivery, TLC

CONSTANTS f1, f2, f3, r1, r2, r3, o1, o2, p1, p2, i1, i2, i3, j1, j2

\* Kraken, single-match fills: both feeds agree, one fill per order.
SingleFills     == {f1, f2}
SingleTrades    == {r1, r2}
SingleTradeOf   == f1 :> r1 @@ f2 :> r2
SingleWsOrder   == f1 :> o1 @@ f2 :> o2
SingleRestOrder == r1 :> o1 @@ r2 :> o2
SingleWsId      == f1 :> i1 @@ f2 :> i2
SingleRestId    == r1 :> i1 @@ r2 :> i2
TwoTimes        == r1 :> 1 @@ r2 :> 2
SameTime        == r1 :> 1 @@ r2 :> 1
NoAliases       == [id \in Ids |-> {}]

\* Kraken, an order that fills twice (f1, f2) and another order.
PartialTradeOf   == f1 :> r1 @@ f2 :> r2 @@ f3 :> r3
PartialWsOrder   == f1 :> o1 @@ f2 :> o1 @@ f3 :> o2
PartialRestOrder == r1 :> o1 @@ r2 :> o1 @@ r3 :> o2
PartialId        == f1 :> i1 @@ f2 :> i2 @@ f3 :> i3
PartialRestId    == r1 :> i1 @@ r2 :> i2 @@ r3 :> i3
ThreeTimes       == r1 :> 1 @@ r2 :> 2 @@ r3 :> 3

(* IBKR: order ids are unrelated, and Flex reports a combo leg under the four-segment form of
   its id, which is its alias.  f1 and f2 are siblings, executions whose ids agree in four
   segments, so that Flex has one trade for them; f3 is a leg alone. *)
IbkrTradeOf   == f1 :> r1 @@ f2 :> r1 @@ f3 :> r2
IbkrWsOrder   == f1 :> o1 @@ f2 :> o1 @@ f3 :> o2
IbkrRestOrder == r1 :> p1 @@ r2 :> p2
IbkrWsId      == f1 :> i1 @@ f2 :> i2 @@ f3 :> i3
IbkrRestId    == r1 :> j1 @@ r2 :> j2
IbkrAliases   == i1 :> {j1} @@ i2 :> {j1} @@ i3 :> {j2} @@ j1 :> {} @@ j2 :> {}

ThreadSymmetry == Permutations(Threads)
=============================================================================
