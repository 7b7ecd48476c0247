----------------------------- MODULE StockRows -----------------------------
(***************************************************************************)
(* What the other modules take the transactions of the inventory service   *)
(* to be: a cart changes all of its rows in one step or none of them, and  *)
(* a restock, which is not atomic, changes its row first and is announced  *)
(* later or never.                                                         *)
(***************************************************************************)
EXTENDS Integers, FiniteSetsExt

CONSTANTS Calls, InitialRows

VARIABLES
  works,    \* works[c]: the lines, each a sku and a change, and whether it is a restock
  rows,     \* rows[s]: stockQuantity of a sku that has a row
  applied,  \* the calls whose lines the rows show
  outcome   \* outcome[c]: "open", "committed" or "failed"

rowVars == <<works, rows, applied, outcome>>

Change(lines, s) ==
  MapThenSumSet(LAMBDA i : IF lines[i].sku = s THEN lines[i].change ELSE 0, DOMAIN lines)
SkusOf(lines) == {lines[i].sku : i \in DOMAIN lines}

RowsInit ==
  /\ rows = InitialRows
  /\ applied = {}
  /\ outcome = [c \in Calls |-> "open"]

Ends(c, how) == outcome' = [outcome EXCEPT ![c] = how]

Apply(c) ==
  /\ c \notin applied
  /\ applied' = applied \cup {c}
  /\ rows' = [s \in DOMAIN rows \cup SkusOf(works[c].lines) |->
       (IF s \in DOMAIN rows THEN rows[s] ELSE 0) + Change(works[c].lines, s)]

(* A cart is applied and answered in one step, and needs its rows.         *)
CommitCart(c) ==
  /\ outcome[c] = "open" /\ ~ works[c].restock
  /\ SkusOf(works[c].lines) \subseteq DOMAIN rows
  /\ Apply(c)
  /\ Ends(c, "committed")
  /\ UNCHANGED works

(* The units of a restock arrive, and are announced.                       *)
Restock(c) ==
  /\ outcome[c] = "open" /\ works[c].restock
  /\ Apply(c)
  /\ UNCHANGED <<works, outcome>>

Announce(c) ==
  /\ outcome[c] = "open" /\ works[c].restock /\ c \in applied
  /\ Ends(c, "committed")
  /\ UNCHANGED <<works, rows, applied>>

Fail(c) ==
  /\ outcome[c] = "open"
  /\ Ends(c, "failed")
  /\ UNCHANGED <<works, rows, applied>>

RowsNext == \E c \in Calls : CommitCart(c) \/ Restock(c) \/ Announce(c) \/ Fail(c)
RowsSpec == RowsInit /\ [][RowsNext]_rowVars
=============================================================================
