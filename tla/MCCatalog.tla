----------------------------- MODULE MCCatalog -----------------------------
EXTENDS Catalog, TLC

CONSTANTS a, b

MCSkus == {a, b}

(* An empty order, one that lists a variant, one that lists both.          *)
MCCarts == {<<>>, <<[sku |-> a, quantity |-> 1]>>,
            <<[sku |-> a, quantity |-> 1], [sku |-> b, quantity |-> 2]>>}

(* One variant or both; one product that is not for sale.                  *)
MCDocuments ==
  {[variants |-> a :> [stock |-> 1, price |-> 1], isActive |-> TRUE],
   [variants |-> b :> [stock |-> 0, price |-> 2], isActive |-> FALSE],
   [variants |-> a :> [stock |-> 1, price |-> 1] @@ b :> [stock |-> 0, price |-> 2], isActive |-> TRUE]}

Budget(c, o, r, u, f, t) ==
  [creations |-> c, orders |-> o, restocks |-> r, updates |-> u, faults |-> f, retries |-> t]

(* Creations and updates with faults, messages without a product, an order *)
(* of a product with faults, and all consumers at once without.            *)
MCBudgets ==
  {Budget(2, 0, 0, 1, 2, 0), Budget(0, 1, 1, 0, 1, 1), Budget(1, 1, 0, 0, 1, 1),
   Budget(1, 0, 1, 1, 0, 0), Budget(1, 1, 1, 0, 0, 1)}

MCSymmetry == Permutations(Products) \cup Permutations(Requests)
=============================================================================
