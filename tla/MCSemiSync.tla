----------------------------- MODULE MCSemiSync -----------------------------
(* Instances of SemiSync for TLC. *)
EXTENDS SemiSync, TLC

Symmetry == Permutations(Sessions) \union Permutations(Slaves)
=============================================================================
