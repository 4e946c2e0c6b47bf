------------------------------ MODULE MCPages ------------------------------
(* An instance of Pages for TLC. *)
EXTENDS Pages, TLC

MCTexts == {Rows}

\* Rows and call slots are interchangeable: every set of a search is all of them.
MCSymmetry == Permutations(Rows) \cup Permutations(Calls)
=============================================================================
