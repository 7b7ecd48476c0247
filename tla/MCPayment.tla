----------------------------- MODULE MCPayment -----------------------------
(* Instances of Payment for TLC.                                           *)
EXTENDS Payment, TLC

(* Orders and requests are interchangeable: nothing in Payment chooses     *)
(* between two of them.  Used by the safety runs only.                     *)
Symmetry == Permutations(Orders) \cup Permutations(Calls)
=============================================================================
