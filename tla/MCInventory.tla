---------------------------- MODULE MCInventory ----------------------------
(* Instances of Inventory for TLC.                                         *)
EXTENDS Inventory, TLC

CONSTANTS s1, s2

Line(sku, quantity) == [sku |-> sku, quantity |-> quantity]

(* Carts that name a product once, as the shop's own client sends them.    *)
DistinctCarts == {<<Line(s1, 1)>>, <<Line(s1, 1), Line(s2, 2)>>}

(* A cart that names the same product on two lines: no DTO rules it out.   *)
RepeatedCarts == {<<Line(s1, 1)>>, <<Line(s1, 1), Line(s1, 1)>>}

(* Attempts are interchangeable, and so are orders.                        *)
Symmetry == Permutations(Attempts) \cup Permutations(OrderIds)
=============================================================================
