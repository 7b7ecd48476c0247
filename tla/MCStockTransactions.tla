------------------------ MODULE MCStockTransactions ------------------------
(* Instances of StockTransactions for TLC.                                 *)
EXTENDS StockTransactions, TLC

CONSTANTS s1, s2, s3, s4

(* Three products have a row, the fourth gets one when it is restocked.    *)
MCRows == s1 :> 2 @@ s2 :> 2 @@ s3 :> 2

Cart(skus, change) ==
  [restock |-> FALSE, lines |-> [i \in DOMAIN skus |-> [sku |-> skus[i], change |-> change]]]

(* Two carts or three may wait in a circle, one names a product twice, one *)
(* a product that has no row before the restock of it.                     *)
MCWorks ==
  {Cart(<<s1, s2>>, -1), Cart(<<s2, s1>>, 1), Cart(<<s2, s3>>, -1), Cart(<<s3, s3, s1>>, -1),
   Cart(<<s1, s4>>, 1), [restock |-> TRUE, lines |-> <<[sku |-> s4, change |-> 2]>>]}
=============================================================================
