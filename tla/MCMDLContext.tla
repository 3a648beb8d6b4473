---------------------------- MODULE MCMDLContext ----------------------------
(***************************************************************************)
(* Instances of MDLContext for TLC.                                        *)
(***************************************************************************)
EXTENDS MDLContext

CONSTANT h1

\* One table is what savepoints and HANDLERs need.
Savepoints == [tables |-> 1, aliases |-> {h1}, savepoints |-> 2]
\* With two tables statements may fail between them.
TwoTables == [tables |-> 2, aliases |-> {}, savepoints |-> 1]

Both == {Savepoints, TwoTables}
OnlyTables == {TwoTables}
HandlerAndTables == {[tables |-> 2, aliases |-> {h1}, savepoints |-> 0]}
=============================================================================
