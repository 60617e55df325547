------------------------------ MODULE MCIdGen ------------------------------
(* Instances of IdGen for TLC. *)
EXTENDS IdGen, TLC

CONSTANTS s1, s2

MCSymmetry == Permutations(Sessions)
=============================================================================
