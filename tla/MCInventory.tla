----------------------------- MODULE MCInventory -----------------------------
(***************************************************************************)
(* TLC instances of Inventory.                                             *)
(***************************************************************************)
EXTENDS Inventory, TLC

CONSTANTS o1, o2, w1, w2

L(s, n) == [sku |-> s, qty |-> n]

TwoSkus == {"A", "B"}
TwoWorkers == {w1, w2}
TwoOrders == {o1, o2}
OneOrder == {o1}

\* Two orders that lock two rows in opposite orders, of which one row is scarce.
CrossedLines == (o1 :> <<L("A", 1), L("B", 1)>>) @@ (o2 :> <<L("B", 1), L("A", 2)>>)
CrossedStock == ("A" :> 3) @@ ("B" :> 1)

\* One order that names a SKU twice.
RepeatedLines == o1 :> <<L("A", 1), L("A", 1)>>
ScarceStock == ("A" :> 1) @@ ("B" :> 1)
=============================================================================
