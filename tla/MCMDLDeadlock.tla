---------------------------- MODULE MCMDLDeadlock ---------------------------
(* MDLDeadlock on small instances for TLC. *)
EXTENDS MDLDeadlock

CONSTANTS t1, t2

\* INSERT and ALTER TABLE of one table, which upgrades SNW to X, and DROP of
\* another one.
AlterAndDrop == ({t1} \X {"SW", "SNW"}) \union {<<t2, "X">>}
\* Two tables that are dropped in any order.
TwoDrops == {t1, t2} \X {"X"}
\* SELECT, INSERT and ALTER TABLE of one table.
OneTable == {t1} \X {"SR", "SW", "SNW"}

Symmetry == Permutations(Ctx)
=============================================================================
