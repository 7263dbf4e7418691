----------------------------- MODULE MCSubjects -----------------------------
(* Subjects for TLC.  The .cfg file gives the sets and the bound. *)
EXTENDS Subjects, TLC

Symmetry ==
    Permutations(Orders) \cup Permutations(Customers) \cup Permutations(Values)
    \cup Permutations(Sessions) \cup Permutations(Lines)
=============================================================================
