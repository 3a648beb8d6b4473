-------------------------------- MODULE MCMDL -------------------------------
(* MDL on small instances for TLC. *)
EXTENDS MDL

CONSTANTS t, g

\* Every type of an object lock.
AllRequests == {t} \X ObjectType
\* FLUSH TABLES WITH READ LOCK against statements that write.
GlobalRequests == {g} \X ScopedType

Symmetry == Permutations(Ctx)
=============================================================================
