------------------------------- MODULE MCNvs -------------------------------
(* The values of scalars are interchangeable. *)
EXTENDS NvsStorage
Symmetry == Permutations(Values)
=============================================================================
