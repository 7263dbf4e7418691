---------------------------- MODULE MCConnection ----------------------------
(* Connection for TLC: the subscriptions of each run. *)
EXTENDS Connection

CONSTANTS o1, o2, a, b, c

TwoObjectsAndAFilter == [s \in {a, b, c} |-> IF s = c THEN "filter" ELSE "object"]
OneFilter == [s \in {b} |-> "filter"]
OneObject == [s \in {a} |-> "object"]
FirstObject == [s \in Subs |-> o1]

\* a and b are subscriptions of one object.
Symmetry == Permutations({a, b})
=============================================================================
