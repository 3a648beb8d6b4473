------------------------------ MODULE MCMDLMap ------------------------------
(* MDLMap on small instances for TLC. *)
EXTENDS MDLMap, TLC

\* Threads, addresses and object keys are interchangeable.
Symmetry ==
  Permutations(Thread) \cup Permutations(Addr) \cup Permutations(ObjectKey)
=============================================================================
