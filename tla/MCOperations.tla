----------------------------- MODULE MCOperations -----------------------------
(* Instances of Operations for TLC. *)
EXTENDS Operations, TLC

Symmetry == Permutations(Objects) \cup Permutations(Contents) \cup Permutations(Jobs)
=============================================================================
