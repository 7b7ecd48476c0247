------------------------------ MODULE MCOrder ------------------------------
(* Instances of Order for TLC.                                             *)
EXTENDS Order, TLC

CONSTANTS s1, s2

(* One product, the other one, both, and the emptied cart.                 *)
OneCart == s1 :> 1
AllCarts == {NoCart, s1 :> 2, s2 :> 1, s1 :> 1 @@ s2 :> 2}
TwoCarts == {NoCart, s2 :> 1}
FullCarts == {s1 :> 2, s2 :> 1, s1 :> 2 @@ s2 :> 2}

(* Requests are interchangeable.                                           *)
Symmetry == Permutations(Calls)
=============================================================================
