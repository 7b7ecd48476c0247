----------------------------- MODULE MCCheckout -----------------------------
(* Instances of Checkout for TLC.                                          *)
EXTENDS Checkout

CONSTANTS o1, o2

(* No draft, one, or two that list different quantities.                   *)
MCCarts == {<<>>, o1 :> 2, o1 :> 1 @@ o2 :> 2}
=============================================================================
