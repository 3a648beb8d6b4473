------------------------------ MODULE MCThrLock -----------------------------
(* ThrLock on small instances for TLC. *)
EXTENDS ThrLock

One(ty) == <<[table |-> 1, type |-> ty]>>

\* Every type of lock on one table.
AllTypes == {One(ty) : ty \in LockType}
\* Statements that read and write two tables, named in either order.
TwoTables == {<<[table |-> i, type |-> a], [table |-> 3 - i, type |-> b]>> :
                i \in {1, 2}, a, b \in {TL_READ, TL_WRITE}}
\* Readers and writers, statements that name a table twice, and two that name
\* two tables in opposite orders.
Statements ==
  LET R(i) == [table |-> i, type |-> TL_READ]
      W(i) == [table |-> i, type |-> TL_WRITE]
      A(i) == [table |-> i, type |-> TL_WRITE_ALLOW_WRITE]
  IN {<<R(1)>>, <<A(1), W(1)>>, <<W(1), W(2)>>, <<W(2), W(1)>>}
\* Inserts next to readers, and updates.
Inserts == {One(ty) : ty \in {TL_READ, TL_WRITE_CONCURRENT_INSERT, TL_WRITE}}
\* An engine with row locks (InnoDB) and LOCK TABLES.
RowLocks == {One(ty) : ty \in {TL_READ_NO_INSERT, TL_WRITE_ALLOW_WRITE, TL_WRITE}}

Symmetry == Permutations(Thread)
=============================================================================
