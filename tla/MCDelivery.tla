----------------------------- MODULE MCDelivery -----------------------------
(* Delivery for TLC.  The .cfg files give the sets and the bounds. *)
EXTENDS Delivery, TLC

Symmetry == Permutations(Writers) \cup Permutations(Pruners)
=============================================================================
