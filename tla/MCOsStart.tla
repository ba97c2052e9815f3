----------------------------- MODULE MCOsStart -----------------------------
(* The starts are alike. *)
EXTENDS OsStart, TLC

StartSymmetry == Permutations(Starts)
=============================================================================
