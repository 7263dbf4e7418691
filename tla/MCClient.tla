------------------------------ MODULE MCClient ------------------------------
(* Client for TLC: one filter subscription. *)
EXTENDS Client

CONSTANTS o1, b

OneFilter == [s \in {b} |-> "filter"]
FirstObject == [s \in Subs |-> o1]
=============================================================================
