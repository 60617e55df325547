------------------------------ MODULE MCStage ------------------------------
(* Instances of Stage for TLC. *)
EXTENDS Stage, TLC

CONSTANTS q1, q2, q3, c100, w60

\* Requests and sizes are interchangeable: nothing orders them.
MCSymmetry == Permutations(Requests) \cup Permutations(Sizes)
=============================================================================
