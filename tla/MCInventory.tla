---------------------------- MODULE MCInventory ----------------------------
(* Two forms about one doll, the second with a purchase that is dated back, *)
(* and a third that is refused; two posts, two counts.                      *)
EXTENDS Inventory, TLC

CONSTANTS p1, p2, c1, c2, k1, k2, k3, kuromi

MCForm ==
  (k1 :> [item |-> kuromi, qty |-> 3, price |-> 1, shipping |-> 1, day |-> 1, receipt |-> TRUE]) @@
  (k2 :> [item |-> kuromi, qty |-> 2, price |-> 5, shipping |-> 0, day |-> 0, receipt |-> FALSE]) @@
  (k3 :> [item |-> kuromi, qty |-> 0, price |-> 1, shipping |-> 0, day |-> 0, receipt |-> FALSE])
MCCountedQty == {-1, 1}

Interchangeable == Permutations(Posts) \cup Permutations(Counts)
=============================================================================
