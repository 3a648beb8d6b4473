----------------------------- MODULE MDLContext -----------------------------
(***************************************************************************)
(* The metadata locks of one connection: the three ticket lists of its     *)
(* MDL_context (sql/mdl.cc), and the statements that move tickets between  *)
(* them: transactions and savepoints (sql/transaction.cc), HANDLER         *)
(* (sql/sql_handler.cc), LOCK TABLES and UNLOCK TABLES (sql/sql_base.cc),  *)
(* the global read lock (sql/lock.cc), DROP, ALTER and FLUSH TABLES.  A    *)
(* step is a statement, up to and including the clean-up at the end of     *)
(* mysql_execute_command.  The other connections appear only in that a     *)
(* lock that the context does not hold yet may not be granted (time out,   *)
(* deadlock, kill), and that a pending lock of theirs makes this           *)
(* connection close its HANDLERs.  Module MDL has the locks themselves.    *)
(***************************************************************************)
EXTENDS MDLTypes, Naturals, FiniteSets, SequencesExt

CONSTANTS
  Scenarios,      \* bounds: what a connection may use, see below
  MayKill         \* KILL QUERY may meet FLUSH TABLES under LOCK TABLES

ASSUME BoundsAssumption ==
  /\ \A s \in Scenarios :
        /\ DOMAIN s = {"tables", "aliases", "savepoints"}
        /\ s.tables \in Nat /\ IsFiniteSet(s.aliases) /\ s.savepoints \in Nat
  /\ MayKill \in BOOLEAN

VARIABLE thd  \* what the connection's THD has about locks

\* The tables, numbered in the order of their names.
Tables == 1..thd.scenario.tables
\* The names HANDLERs are opened under.
Aliases == thd.scenario.aliases
\* Bound on the savepoints of a transaction.
MaxSavepoints == thd.scenario.savepoints

(***************************************************************************)
(* Keys, durations and requests                                            *)
(***************************************************************************)
\* Keys in the order of MDL_key::cmp: by namespace, then by name.
GlobalKey == <<0, 0>>
SchemaKey == <<1, 0>>
TableKey(t) == <<2, t>>
CommitKey == <<7, 0>>
Keys == {GlobalKey, SchemaKey, CommitKey} \cup {TableKey(t) : t \in Tables}

\* enum_mdl_duration
MDL_STATEMENT == 0
MDL_TRANSACTION == 1
MDL_EXPLICIT == 2
Duration == {MDL_STATEMENT, MDL_TRANSACTION, MDL_EXPLICIT}

Request(key, type, duration) ==
  [key |-> key, type |-> type, duration |-> duration]

NULL == 0  \* no ticket

(***************************************************************************)
(* The ticket lists of a context, newest ticket first                      *)
(***************************************************************************)
\* A context c: c.m_tickets holds the lists, c.held the key and the type of
\* every ticket there is.
EmptyContext == [m_tickets |-> [d \in Duration |-> <<>>], held |-> <<>>]

First(list) == IF list = <<>> THEN NULL ELSE Head(list)

HasStrongerOrEqualType(key, have, wanted) ==
  IF key[1] = 2
  THEN ObjectGrantedIncompatible(wanted) \subseteq ObjectGrantedIncompatible(have)
  ELSE ScopedGrantedIncompatible(wanted) \subseteq ScopedGrantedIncompatible(have)

\* MDL_context::find_ticket: the tickets that satisfy a request, in the order
\* of the search; the code stops at the first.
FindTicket(c, r) ==
  LET Suits(i) == /\ c.held[i].key = r.key
                  /\ HasStrongerOrEqualType(r.key, c.held[i].type, r.type)
      Found(d) == LET hits == SelectSeq(c.m_tickets[d], Suits)
                  IN [i \in 1..Len(hits) |-> [duration |-> d, ticket |-> hits[i]]]
  IN Found(r.duration) \o Found((r.duration + 1) % 3) \o Found((r.duration + 2) % 3)

IsLockOwner(c, key, type) ==
  FindTicket(c, Request(key, type, MDL_TRANSACTION)) # <<>>

\* A new ticket at the front of the list of its duration.  Memory of a
\* destroyed ticket is used again.
AddTicket(c, r) ==
  LET id == CHOOSE i \in 1..(Cardinality(DOMAIN c.held) + 1) : i \notin DOMAIN c.held
  IN [ctx |-> [m_tickets |-> [c.m_tickets EXCEPT ![r.duration] = <<id>> \o @],
               held |-> [i \in DOMAIN c.held \cup {id} |->
                          IF i = id THEN [key |-> r.key, type |-> r.type]
                                    ELSE c.held[i]]],
      ticket |-> id]

\* MDL_context::try_acquire_lock_impl when the request is granted.
TryAcquireLock(c, r) ==
  LET found == FindTicket(c, r)
  IN IF found # <<>> /\ found[1].duration = r.duration /\ r.duration # MDL_EXPLICIT
     THEN [ctx |-> c, ticket |-> found[1].ticket]
     ELSE AddTicket(c, r)

\* The lists are intrusive: remove() unlinks a ticket from the list it is on.
Unlink(c, ticket) ==
  [c EXCEPT !.m_tickets = [d \in Duration |-> SelectSeq(@[d], LAMBDA i : i # ticket)]]

ReleaseLock(c, ticket) ==
  [Unlink(c, ticket) EXCEPT !.held = Restrict(@, DOMAIN @ \ {ticket})]

\* The tickets of a list that are newer than the sentinel.
StoredBefore(list, sentinel) ==
  IF Contains(list, sentinel)
  THEN SubSeq(list, 1, SelectInSeq(list, LAMBDA i : i = sentinel) - 1)
  ELSE list

ReleaseLocksStoredBefore(c, d, sentinel) ==
  LET released == StoredBefore(c.m_tickets[d], sentinel)
  IN IF released = <<>> THEN c
     ELSE [c EXCEPT !.m_tickets[d] = SubSeq(@, Len(released) + 1, Len(@)),
                    !.held = Restrict(@, DOMAIN @ \ Range(released))]

MdlSavepoint(c) == [stmt |-> First(c.m_tickets[MDL_STATEMENT]),
                    trans |-> First(c.m_tickets[MDL_TRANSACTION])]

\* Faulty variant of RollbackToSavepoint: the statement's locks are forgotten.
KeepStatementLocks(c, svp) ==
  ReleaseLocksStoredBefore(c, MDL_TRANSACTION, svp.trans)

RollbackToSavepoint(c, svp) ==
  ReleaseLocksStoredBefore(ReleaseLocksStoredBefore(c, MDL_STATEMENT, svp.stmt),
                           MDL_TRANSACTION, svp.trans)

ReleaseStatementLocks(c) == ReleaseLocksStoredBefore(c, MDL_STATEMENT, NULL)

ReleaseTransactionalLocks(c) ==
  ReleaseLocksStoredBefore(ReleaseStatementLocks(c), MDL_TRANSACTION, NULL)

\* Faulty variant of HasLock: every ticket is taken for a new one.
NeverInSavepoint(c, svp, ticket) == FALSE

\* MDL_context::has_lock: the ticket is older than the savepoint, or explicit.
HasLock(c, svp, ticket) ==
  /\ ~ Contains(StoredBefore(c.m_tickets[MDL_STATEMENT], svp.stmt), ticket)
  /\ ~ Contains(StoredBefore(c.m_tickets[MDL_TRANSACTION], svp.trans), ticket)

\* Grant the first n requests of a list.
Granted(c, requests, n) ==
  FoldLeft(LAMBDA a, r : LET b == TryAcquireLock(a.ctx, r)
                         IN [ctx |-> b.ctx, tickets |-> Append(a.tickets, b.ticket)],
           [ctx |-> c, tickets |-> <<>>], SubSeq(requests, 1, n))

\* The requests may stop being granted after the first n: only a request that
\* needs a new lock has to wait, and can fail.
MayStop(c, requests, n) ==
  IF n = Len(requests) THEN TRUE
  ELSE FindTicket(Granted(c, requests, n).ctx, requests[n + 1]) = <<>>

\* MDL_context::acquire_locks, with the requests already in the order of their
\* keys, of which the first n are granted: all the locks, or none.
AcquireLocks(c, requests, n) ==
  LET a == Granted(c, requests, n)
  IN IF n = Len(requests) THEN a
     ELSE [ctx |-> RollbackToSavepoint(a.ctx, MdlSavepoint(c)), tickets |-> <<>>]

\* MDL_context::upgrade_shared_lock_to_exclusive when it succeeds.
UpgradeToExclusive(c, ticket) ==
  LET a == TryAcquireLock(c, Request(c.held[ticket].key, "X", MDL_TRANSACTION))
      isNew == ~ HasLock(a.ctx, MdlSavepoint(c), a.ticket)
      merged == IF isNew THEN ReleaseLock(a.ctx, a.ticket) ELSE a.ctx
  IN IF c.held[ticket].type = "X" THEN c
     ELSE [merged EXCEPT !.held[ticket].type = "X"]

DowngradeExclusive(c, ticket, type) ==
  IF c.held[ticket].type = "X" THEN [c EXCEPT !.held[ticket].type = type] ELSE c

ReleaseAllLocksForName(c, ticket) ==
  FoldLeft(ReleaseLock, c,
           SelectSeq(c.m_tickets[MDL_EXPLICIT],
                     LAMBDA i : c.held[i].key = c.held[ticket].key))

SetLockDuration(c, ticket, d) ==
  [Unlink(c, ticket) EXCEPT !.m_tickets[d] = <<ticket>> \o @]

\* Faulty variant of SetExplicitDurationForAllLocks: the statement's locks
\* stay where they are.
ForgetStatementList(c) ==
  [c EXCEPT !.m_tickets[MDL_EXPLICIT] = Reverse(@) \o c.m_tickets[MDL_TRANSACTION],
            !.m_tickets[MDL_TRANSACTION] = <<>>]

\* The lists are swapped, and what is left is moved to the front, one by one.
SetExplicitDurationForAllLocks(c) ==
  [c EXCEPT !.m_tickets =
     [d \in Duration |->
        IF d = MDL_EXPLICIT
        THEN Reverse(c.m_tickets[MDL_EXPLICIT]) \o Reverse(c.m_tickets[MDL_STATEMENT])
               \o c.m_tickets[MDL_TRANSACTION]
        ELSE <<>>]]

SetTransactionDurationForAllLocks(c) ==
  [c EXCEPT !.m_tickets[MDL_TRANSACTION] = Reverse(@) \o c.m_tickets[MDL_EXPLICIT],
            !.m_tickets[MDL_EXPLICIT] = <<>>]

(***************************************************************************)
(* The connection                                                          *)
(***************************************************************************)
NoHandler == [table |-> 0, ticket |-> NULL]
NoGlobalReadLock == [shared |-> NULL, commits |-> NULL]

Init ==
  \E scenario \in Scenarios :
    thd = [ctx |-> EmptyContext,
           handlers |->                 \* handler_tables_hash
             [a \in scenario.aliases |-> NoHandler],
           grl |-> NoGlobalReadLock,    \* global_read_lock
           locked_tables_mode |-> FALSE, \* LTM_LOCK_TABLES?
           locked |-> <<>>,             \* locked_tables_list: table -> ticket
           lost |-> {},                 \* for the properties: the tables that a
                                        \* killed FLUSH took off that list
           option_table_lock |-> FALSE,
           option_begin |-> FALSE,
           autocommit |-> TRUE,
           savepoints |-> <<>>,         \* transaction.savepoints, oldest first
           connected |-> TRUE,
           scenario |-> scenario]       \* the bounds, which never change

InMultiStmtTransactionMode(s) == ~ s.autocommit \/ s.option_begin

ReleaseTransactional(s) ==
  [s EXCEPT !.ctx = ReleaseTransactionalLocks(@),
            !.lost = IF s.locked_tables_mode THEN @ ELSE {}]

(***************************************************************************)
(* HANDLER tables                                                          *)
(***************************************************************************)
OpenHandlers(s) == {a \in Aliases : s.handlers[a].ticket # NULL}

HandlerTickets(s, as) == {s.handlers[a].ticket : a \in as} \ {NULL}

\* mysql_ha_close_table for a set of aliases: the entries stay, for a re-open.
HaCloseTables(s, as) ==
  [s EXCEPT !.ctx = FoldSet(LAMBDA i, c : ReleaseLock(c, i), @, HandlerTickets(s, as)),
            !.handlers = [a \in Aliases |-> IF a \in as THEN [@[a] EXCEPT !.ticket = NULL]
                                                        ELSE @[a]]]

HandlersOf(s, ts) == {a \in Aliases : s.handlers[a].table \in ts}

HaRmTables(s, ts) ==
  [HaCloseTables(s, HandlersOf(s, ts)) EXCEPT
     !.handlers = [a \in Aliases |-> IF a \in HandlersOf(s, ts) THEN NoHandler ELSE @[a]]]

HaSetExplicitLockDuration(s) ==
  [s EXCEPT !.ctx = FoldSet(LAMBDA i, c : SetLockDuration(c, i, MDL_EXPLICIT),
                            @, HandlerTickets(s, Aliases))]

(***************************************************************************)
(* The global read lock                                                    *)
(***************************************************************************)
IsAcquired(s) == s.grl.shared # NULL

GrlTickets(s) == {s.grl.shared, s.grl.commits} \ {NULL}

UnlockGlobalReadLock(s) ==
  [s EXCEPT !.ctx = FoldSet(LAMBDA i, c : ReleaseLock(c, i), @, GrlTickets(s)),
            !.grl = NoGlobalReadLock]

GrlSetExplicitLockDuration(s) ==
  [s EXCEPT !.ctx = FoldSet(LAMBDA i, c : SetLockDuration(c, i, MDL_EXPLICIT),
                            @, GrlTickets(s))]

(***************************************************************************)
(* LOCK TABLES mode                                                        *)
(***************************************************************************)
\* Faulty variant of LeaveLockedTablesMode: open HANDLERs are forgotten.
ForgetHandlersOnLeave(s) ==
  GrlSetExplicitLockDuration(
    [s EXCEPT !.ctx = SetTransactionDurationForAllLocks(@),
              !.locked_tables_mode = FALSE])

LeaveLockedTablesMode(s) ==
  HaSetExplicitLockDuration(
    GrlSetExplicitLockDuration(
      [s EXCEPT !.ctx = SetTransactionDurationForAllLocks(@),
                !.locked_tables_mode = FALSE]))

UnlockLockedTables(s) ==
  IF s.locked_tables_mode
  THEN [LeaveLockedTablesMode(s) EXCEPT !.locked = <<>>]
  ELSE s

\* init_locked_tables and enter_locked_tables_mode
InitLockedTables(s, locked) ==
  [s EXCEPT !.ctx = SetExplicitDurationForAllLocks(@),
            !.locked_tables_mode = TRUE,
            !.locked = locked,
            !.option_table_lock = TRUE]

\* find_table_for_mdl_upgrade
Upgradable(s, t) ==
  /\ t \in DOMAIN s.locked
  /\ IsLockOwner(s.ctx, GlobalKey, "IX")
  /\ s.ctx.held[s.locked[t]].type \in UpgradableType \cup {"X"}

InOrder(ts) == SetToSortSeq(ts, <)

\* The requests of lock_table_names, in the order of their keys.
TableNames(ts, type) ==
  LET names == InOrder(ts)
  IN [i \in 1..Len(names) |-> Request(TableKey(names[i]), type, MDL_TRANSACTION)]

WithScopes(requests) ==
  IF requests = <<>> THEN <<>>
  ELSE <<Request(GlobalKey, "IX", MDL_STATEMENT),
         Request(SchemaKey, "IX", MDL_TRANSACTION)>> \o requests

(***************************************************************************)
(* Transactions and the end of a statement                                 *)
(***************************************************************************)
TransCommitImplicit(s) ==
  IF InMultiStmtTransactionMode(s) \/ s.option_table_lock
  THEN [s EXCEPT !.option_table_lock = @ /\ s.locked_tables_mode,
                 !.option_begin = FALSE, !.savepoints = <<>>]
  ELSE [s EXCEPT !.option_begin = FALSE]

\* The implicit commit before and after a statement of CF_AUTO_COMMIT_TRANS.
ImplicitCommit(s) == ReleaseTransactional(TransCommitImplicit(s))

EndOfStatement(s) ==
  IF InMultiStmtTransactionMode(s)
  THEN [s EXCEPT !.ctx = ReleaseStatementLocks(@)]
  ELSE ReleaseTransactional(s)

\* trans_begin; ok says whether the commit of the old transaction succeeds.
TransBegin(s, ok) ==
  LET u == UnlockLockedTables(s)
      commits == InMultiStmtTransactionMode(u) \/ u.option_table_lock
      ended == [u EXCEPT !.option_table_lock = @ /\ ~ commits,
                         !.option_begin = FALSE, !.savepoints = <<>>]
  IN IF commits /\ ~ ok THEN ended
     ELSE [ReleaseTransactional(ended) EXCEPT !.option_begin = TRUE]

Begin(ok) ==
  /\ thd.connected
  /\ thd' = EndOfStatement(TransBegin(thd, ok))

\* COMMIT and ROLLBACK; a failure skips the release of the locks.
CommitOrRollback(ok, chain) ==
  LET ended == [thd EXCEPT !.option_begin = FALSE, !.savepoints = <<>>]
      released == ReleaseTransactional(ended)
  IN /\ thd.connected
     /\ thd' = EndOfStatement(IF ~ ok THEN ended
                              ELSE IF chain THEN TransBegin(released, TRUE)
                              ELSE released)

\* SET autocommit commits implicitly before and after.
SetAutocommit(value) ==
  /\ thd.connected
  /\ thd' = ImplicitCommit([ImplicitCommit(thd) EXCEPT !.autocommit = value])

\* A statement of CF_AUTO_COMMIT_TRANS whose first implicit commit fails.
ImplicitCommitFails ==
  /\ thd.connected
  /\ thd' = ImplicitCommit(TransCommitImplicit(thd))

\* The tickets of a transaction with what they lock, newest first.
TransactionLocks(c) ==
  [i \in 1..Len(c.m_tickets[MDL_TRANSACTION]) |->
     <<c.m_tickets[MDL_TRANSACTION][i], c.held[c.m_tickets[MDL_TRANSACTION][i]]>>]

\* SAVEPOINT: a new one, or the i-th set anew.  The field locks is there for
\* the property SavepointKeepsLocks only.
Savepoint(i) ==
  LET others == IF i > Len(thd.savepoints) THEN thd.savepoints
                ELSE RemoveAt(thd.savepoints, i)
  IN /\ thd.connected
     /\ InMultiStmtTransactionMode(thd)
     /\ i <= MaxSavepoints
     /\ thd' = EndOfStatement(
                 [thd EXCEPT !.savepoints =
                    Append(others, [svp |-> MdlSavepoint(thd.ctx),
                                    locks |-> TransactionLocks(thd.ctx)])])

\* ROLLBACK TO the i-th savepoint; the locks are kept when the binary log is on.
RollbackTo(i, binlogOn) ==
  LET s == [thd EXCEPT !.savepoints = SubSeq(@, 1, i)]
  IN /\ thd.connected
     /\ thd' = EndOfStatement(
                 IF binlogOn THEN s
                 ELSE [s EXCEPT !.ctx = RollbackToSavepoint(@, thd.savepoints[i].svp)])

ReleaseSavepoint(i) ==
  /\ thd.connected
  /\ thd' = EndOfStatement([thd EXCEPT !.savepoints = SubSeq(@, 1, i - 1)])

(***************************************************************************)
(* Statements that use tables                                              *)
(***************************************************************************)
\* Every statement that opens tables first closes HANDLERs whose locks others
\* wait for (mysql_ha_flush in open_tables): the set closed.
\* A statement that reads or writes a table.  The first n of its requests are
\* granted; a failure keeps the locks until the transaction ends.
Dml(t, write, closed, n) ==
  LET s == HaCloseTables(thd, closed)
      requests == IF write THEN <<Request(GlobalKey, "IX", MDL_STATEMENT),
                                  Request(TableKey(t), "SW", MDL_TRANSACTION)>>
                           ELSE <<Request(TableKey(t), "SR", MDL_TRANSACTION)>>
  IN /\ thd.connected
     /\ n <= Len(requests)
     /\ IF s.locked_tables_mode \/ (write /\ IsAcquired(s))
        THEN n = 0 /\ thd' = EndOfStatement(s)
        ELSE /\ MayStop(s.ctx, requests, n)
             /\ thd' = EndOfStatement([s EXCEPT !.ctx = Granted(@, requests, n).ctx])

(***************************************************************************)
(* HANDLER statements                                                      *)
(***************************************************************************)
\* mysql_ha_open for an alias of table t: granted says whether the lock was
\* acquired, ok whether the table could be opened with it.
HaOpen(s, a, t, granted, ok) ==
  LET svp == MdlSavepoint(s.ctx)
      request == Request(TableKey(t), "S", MDL_TRANSACTION)
      acquired == IF granted THEN TryAcquireLock(s.ctx, request)
                  ELSE [ctx |-> s.ctx, ticket |-> NULL]
      own == IF HasLock(acquired.ctx, svp, acquired.ticket)
             THEN AddTicket(acquired.ctx, request)
             ELSE acquired
  IN IF granted /\ ok
     THEN [s EXCEPT !.ctx = SetLockDuration(own.ctx, own.ticket, MDL_EXPLICIT),
                    !.handlers[a] = [table |-> t, ticket |-> own.ticket]]
     ELSE [s EXCEPT !.ctx = RollbackToSavepoint(acquired.ctx, svp)]

HandlerOpen(a, t, closed, granted, ok) ==
  LET s == HaCloseTables(thd, closed)
  IN /\ thd.connected
     /\ ~ thd.locked_tables_mode
     /\ thd.handlers[a].table = 0
     /\ granted \/ MayStop(s.ctx, <<Request(TableKey(t), "S", MDL_TRANSACTION)>>, 0)
     /\ thd' = EndOfStatement(HaOpen(s, a, t, granted, ok))

\* HANDLER READ re-opens a table that was closed, maybe by itself because its
\* table lock was aborted.
HandlerRead(a, closed, granted, ok) ==
  LET s == HaCloseTables(thd, closed \cup {a})
      t == thd.handlers[a].table
  IN /\ thd.connected
     /\ ~ thd.locked_tables_mode
     /\ t # 0
     /\ granted \/ MayStop(s.ctx, <<Request(TableKey(t), "S", MDL_TRANSACTION)>>, 0)
     /\ thd' = EndOfStatement(HaOpen(s, a, t, granted, ok))

HandlerClose(a) ==
  /\ thd.connected
  /\ ~ thd.locked_tables_mode
  /\ thd.handlers[a].table # 0
  /\ thd' = EndOfStatement([HaCloseTables(thd, {a}) EXCEPT !.handlers[a] = NoHandler])

(***************************************************************************)
(* LOCK TABLES, UNLOCK TABLES, FLUSH TABLES                                *)
(***************************************************************************)
\* The tickets with which the tables ts are locked after the requests.
TicketsOf(c, ts, type) ==
  [t \in ts |-> FindTicket(c, Request(TableKey(t), type, MDL_TRANSACTION))[1].ticket]

\* The first n requests, those for write locks before those for read locks.
LockTables(writes, reads, closed, n) ==
  LET s == [HaCloseTables(ReleaseTransactional(UnlockLockedTables(TransCommitImplicit(thd))),
                          closed) EXCEPT !.option_table_lock = TRUE]
      names == WithScopes(TableNames(writes, "SNRW"))
      requests == names \o TableNames(reads, "SR")
      named == AcquireLocks(s.ctx, names, IF n < Len(names) THEN n ELSE Len(names)).ctx
      all == Granted(s.ctx, requests, n).ctx
      failed == [ImplicitCommit([s EXCEPT !.ctx = IF n < Len(names) THEN named ELSE all])
                   EXCEPT !.option_table_lock = FALSE]
  IN /\ thd.connected
     /\ n <= Len(requests)
     /\ IF writes # {} /\ IsAcquired(s)
        THEN n = 0 /\ thd' = EndOfStatement(failed)
        ELSE /\ MayStop(s.ctx, requests, n)
             /\ thd' = EndOfStatement(
                         IF n < Len(requests) THEN failed
                         ELSE InitLockedTables([s EXCEPT !.ctx = all],
                                TicketsOf(all, writes, "SNRW") @@ TicketsOf(all, reads, "SR")))

\* The commit with which LOCK TABLES begins may fail, after which nothing is
\* locked.
LockTablesCommitFails ==
  /\ thd.connected
  /\ thd' = EndOfStatement(ReleaseTransactional(UnlockLockedTables(TransCommitImplicit(thd))))

UnlockTables ==
  LET unlocked ==
        IF thd.option_table_lock
        THEN [ReleaseTransactional(UnlockLockedTables(TransCommitImplicit(thd)))
                EXCEPT !.option_table_lock = FALSE]
        ELSE thd
  IN /\ thd.connected
     /\ thd' = EndOfStatement(IF IsAcquired(unlocked) THEN UnlockGlobalReadLock(unlocked)
                                                      ELSE unlocked)

\* FLUSH TABLES ts WITH READ LOCK: no scoped locks.  The tables may fail to
\* open after the first n = all requests have been granted.
FlushTablesListWithReadLock(ts, closed, n, opened) ==
  LET s == HaCloseTables(ImplicitCommit(thd), closed)
      names == TableNames(ts, "SNW")
      acquired == AcquireLocks(s.ctx, names, n).ctx
  IN /\ thd.connected
     /\ ~ thd.locked_tables_mode
     /\ n <= Len(names)
     /\ MayStop(s.ctx, names, n)
     /\ thd' = ImplicitCommit(
                 IF n = Len(names) /\ opened
                 THEN InitLockedTables([s EXCEPT !.ctx = acquired], TicketsOf(acquired, ts, "SNW"))
                 ELSE [s EXCEPT !.ctx = acquired])

\* FLUSH TABLES WITH READ LOCK: n of its two locks are granted.
FlushTablesWithReadLock(n) ==
  LET s == ImplicitCommit(thd)
      requests == <<Request(GlobalKey, "S", MDL_EXPLICIT), Request(CommitKey, "S", MDL_EXPLICIT)>>
      granted == Granted(s.ctx, requests, n)
      flushed == HaCloseTables([s EXCEPT !.ctx = granted.ctx], Aliases)
  IN /\ thd.connected
     /\ ~ thd.locked_tables_mode
     /\ IF IsAcquired(s)
        THEN n = 2 /\ thd' = ImplicitCommit(HaCloseTables(s, Aliases))
        ELSE thd' = ImplicitCommit(
                      IF n = 0 THEN s
                      ELSE IF n = 1
                      THEN UnlockGlobalReadLock([flushed EXCEPT !.grl.shared = granted.tickets[1]])
                      ELSE [flushed EXCEPT !.grl = [shared |-> granted.tickets[1],
                                                    commits |-> granted.tickets[2]]])

\* FLUSH TABLES outside of LOCK TABLES.
FlushTables ==
  /\ thd.connected
  /\ ~ thd.locked_tables_mode
  /\ thd' = ImplicitCommit(HaCloseTables(ImplicitCommit(thd), Aliases))

UpgradeAll(c, tickets) == FoldLeft(UpgradeToExclusive, c, SetToSeq(tickets))

\* Faulty variant of DowngradeAll: only one of the open tables is reached.
DowngradeOne(c, tickets) ==
  IF tickets = {} THEN c
  ELSE DowngradeExclusive(c, CHOOSE i \in tickets : TRUE, "SNRW")

DowngradeAll(c, tickets) ==
  FoldLeft(LAMBDA d, i : DowngradeExclusive(d, i, "SNRW"), c, SetToSeq(tickets))

\* FLUSH TABLES under LOCK TABLES, with a list of tables or for all of them:
\* those in done are locked exclusively and closed; only when it is all that
\* are to be flushed, old versions are waited for, which closes more HANDLERs.
\* Whether the waits succeed or not, the tables are then opened again and the
\* locks of the open ones downgraded.  When the statement has been killed by
\* then, nothing can be opened, and the closed tables leave the list.
FlushLockedTables(list, ts, done, more, killed) ==
  LET s == ImplicitCommit(thd)
      flushes == \A t \in ts : Upgradable(s, t)
      noHandlers == HaCloseTables(s, HandlersOf(s, ts) \cup more)
      flushed == UpgradeAll(noHandlers.ctx, {s.locked[t] : t \in done})
      lost == IF killed THEN done ELSE {}
      open == DOMAIN s.locked \ lost
  IN /\ thd.connected
     /\ thd.locked_tables_mode
     /\ IF list THEN ts # {}
        ELSE ts = DOMAIN s.locked /\ more \in {{}, OpenHandlers(thd)}
     /\ killed => MayKill
     /\ IF flushes
        THEN /\ done # ts => more = {}
             /\ done = ts /\ ~ list /\ ~ killed => more = OpenHandlers(thd)
             /\ thd' = ImplicitCommit(
                         [noHandlers EXCEPT
                            !.ctx = DowngradeAll(flushed, {s.locked[t] : t \in open}),
                            !.locked = Restrict(@, open),
                            !.lost = @ \cup lost])
        ELSE done = {} /\ more = {} /\ ~ killed /\ thd' = ImplicitCommit(s)

(***************************************************************************)
(* DROP TABLE and ALTER TABLE                                              *)
(***************************************************************************)
\* Outside of LOCK TABLES all names are locked at once.
DropTables(ts, n) ==
  LET s == HaRmTables(ImplicitCommit(thd), ts)
      requests == WithScopes(TableNames(ts, "X"))
  IN /\ thd.connected
     /\ ~ thd.locked_tables_mode
     /\ n <= Len(requests)
     /\ IF IsAcquired(s)
        THEN n = 0 /\ thd' = ImplicitCommit(s)
        ELSE /\ MayStop(s.ctx, requests, n)
             /\ thd' = ImplicitCommit([s EXCEPT !.ctx = AcquireLocks(@, requests, n).ctx])

\* Under LOCK TABLES the first n tables are dropped; the lock on the next one
\* could not be upgraded.
DropLockedTables(ts, n) ==
  LET s == HaRmTables(ImplicitCommit(thd), ts)
      names == InOrder(ts)
      tickets == {s.locked[names[i]] : i \in 1..n}
      left == DOMAIN s.locked \ {names[i] : i \in 1..n}
      dropped == [s EXCEPT !.ctx = UpgradeAll(@, tickets), !.locked = Restrict(@, left)]
  IN /\ thd.connected
     /\ thd.locked_tables_mode
     /\ n <= Cardinality(ts)
     /\ IF \A t \in ts : Upgradable(s, t)
        THEN thd' = ImplicitCommit(
                      IF left = {} THEN UnlockLockedTables(dropped)
                      ELSE [dropped EXCEPT !.ctx = FoldLeft(ReleaseAllLocksForName, @, SetToSeq(tickets))])
        ELSE n = 0 /\ thd' = ImplicitCommit(s)

\* ALTER TABLE outside of LOCK TABLES: after its n-th request it may or may
\* not get to the upgrade.
AlterTable(t, closed, n, upgraded) ==
  LET s == HaCloseTables(HaRmTables(ImplicitCommit(thd), {t}), closed)
      requests == WithScopes(TableNames({t}, "SNW"))
      a == AcquireLocks(s.ctx, requests, n)
  IN /\ thd.connected
     /\ ~ thd.locked_tables_mode
     /\ n <= Len(requests)
     /\ IF IsAcquired(s)
        THEN n = 0 /\ ~ upgraded /\ thd' = ImplicitCommit(s)
        ELSE /\ MayStop(s.ctx, requests, n)
             /\ upgraded => n = Len(requests)
             /\ thd' = ImplicitCommit([s EXCEPT !.ctx =
                         IF upgraded THEN UpgradeToExclusive(a.ctx, a.tickets[n]) ELSE a.ctx])

\* ALTER TABLE under LOCK TABLES: refused before the upgrade, done, or lost
\* after it: the table is renamed, or an error leaves it closed.
AlterLockedTable(t, closed, outcome) ==
  LET s == HaCloseTables(HaRmTables(ImplicitCommit(thd), {t}), closed)
      ticket == s.locked[t]
      upgraded == UpgradeToExclusive(s.ctx, ticket)
  IN /\ thd.connected
     /\ thd.locked_tables_mode
     /\ IF outcome = "refused" THEN thd' = ImplicitCommit(s)
        ELSE /\ Upgradable(s, t)
             /\ thd' = ImplicitCommit(
                         IF outcome = "done"
                         THEN [s EXCEPT !.ctx = DowngradeExclusive(upgraded, ticket, "SNRW")]
                         ELSE [s EXCEPT !.ctx = ReleaseAllLocksForName(upgraded, ticket),
                                        !.locked = Restrict(@, DOMAIN @ \ {t})])

(***************************************************************************)
(* The end of the connection                                               *)
(***************************************************************************)

\* THD::cleanup
Cleanup(s) ==
  LET ended == [s EXCEPT !.option_begin = FALSE, !.savepoints = <<>>]
      closed == HaRmTables(UnlockLockedTables(ended), Tables)
      released == [ReleaseTransactional(closed) EXCEPT !.connected = FALSE]
  IN IF IsAcquired(released) THEN UnlockGlobalReadLock(released) ELSE released

Disconnect == thd.connected /\ thd' = Cleanup(thd)

MaxRequests == Cardinality(Tables) + 2

Next ==
  \/ \E ok \in BOOLEAN : Begin(ok)
  \/ \E ok, chain \in BOOLEAN : CommitOrRollback(ok, chain)
  \/ \E value \in BOOLEAN : SetAutocommit(value)
  \/ ImplicitCommitFails
  \/ \E i \in 1..(Len(thd.savepoints) + 1) : Savepoint(i)
  \/ \E i \in DOMAIN thd.savepoints : ReleaseSavepoint(i) \/ RollbackTo(i, TRUE) \/ RollbackTo(i, FALSE)
  \/ \E a \in Aliases : HandlerClose(a)
  \/ \E closed \in SUBSET OpenHandlers(thd) :
       \/ \E t \in Tables, write \in BOOLEAN, n \in 0..2 : Dml(t, write, closed, n)
       \/ \E a \in Aliases, granted, ok \in BOOLEAN :
            \/ \E t \in Tables : HandlerOpen(a, t, closed, granted, ok)
            \/ HandlerRead(a, closed, granted, ok)
       \/ \E writes, reads \in SUBSET Tables, n \in 0..MaxRequests :
            /\ writes \cap reads = {} /\ writes \cup reads # {}
            /\ LockTables(writes, reads, closed, n)
       \/ \E ts \in SUBSET Tables \ {{}}, n \in 0..MaxRequests, opened \in BOOLEAN :
            FlushTablesListWithReadLock(ts, closed, n, opened)
       \/ \E t \in Tables, n \in 0..3, upgraded \in BOOLEAN : AlterTable(t, closed, n, upgraded)
       \/ \E t \in Tables, outcome \in {"refused", "done", "lost"} :
            AlterLockedTable(t, closed, outcome)
  \/ LockTablesCommitFails
  \/ UnlockTables
  \/ \E n \in 0..2 : FlushTablesWithReadLock(n)
  \/ FlushTables
  \/ \E list, killed \in BOOLEAN, ts \in SUBSET Tables :
       \E done \in SUBSET ts, more \in SUBSET OpenHandlers(thd) :
         FlushLockedTables(list, ts, done, more, killed)
  \/ \E ts \in SUBSET Tables \ {{}}, n \in 0..MaxRequests : DropTables(ts, n) \/ DropLockedTables(ts, n)
  \/ Disconnect

Spec == Init /\ [][Next]_thd

(***************************************************************************)
(* Properties                                                              *)
(***************************************************************************)
Lists(c) == c.m_tickets[MDL_STATEMENT] \o c.m_tickets[MDL_TRANSACTION] \o c.m_tickets[MDL_EXPLICIT]

\* Every ticket is on exactly one of the three lists, whatever statements have
\* moved it (set_lock_duration, set_explicit_duration_for_all_locks and
\* set_transaction_duration_for_all_locks), and no list has a ticket that has
\* been destroyed.
TypeOK ==
  /\ Range(Lists(thd.ctx)) = DOMAIN thd.ctx.held
  /\ IsInjective(Lists(thd.ctx))
  /\ \A i \in DOMAIN thd.ctx.held : thd.ctx.held[i] \in [key : Keys, type : MDLType]
  /\ DOMAIN thd.locked \subseteq Tables
  /\ \A a \in Aliases : thd.handlers[a] \in [table : Tables \cup {0}, ticket : Nat]
  /\ Len(thd.savepoints) <= MaxSavepoints

\* As long as a transaction has a savepoint, the locks it held when the
\* savepoint was set stay exactly as they were, and its marker stays on the
\* list in front of them: ROLLBACK TO (rollback_to_savepoint) gives up what was
\* acquired later, and nothing else.  HANDLER OPEN would break this if it took
\* over a ticket of the transaction (has_lock, clone_ticket in mysql_ha_open).
SavepointKeepsLocks ==
  \A i \in DOMAIN thd.savepoints :
    LET sv == thd.savepoints[i]
        now == TransactionLocks(thd.ctx)
        older == Len(sv.locks)
    IN /\ Len(now) >= older
       /\ sv.locks = SubSeq(now, Len(now) - older + 1, Len(now))
       /\ older > 0 => sv.svp.trans = now[Len(now) - older + 1][1]

\* Tickets of explicit duration are never released in bulk, so each must have
\* exactly one owner that will release it: a HANDLER, the global read lock, or
\* LOCK TABLES, which also gives up the ones of the tables it has lost.  A
\* HANDLER's ticket is not shared, and locks its table.
ExplicitAccounted ==
  LET explicit == Range(thd.ctx.m_tickets[MDL_EXPLICIT])
      handlers == HandlerTickets(thd, Aliases)
      others == explicit \ (handlers \cup GrlTickets(thd))
  IN /\ handlers \cup GrlTickets(thd) \subseteq explicit
     /\ Cardinality(handlers) = Cardinality(OpenHandlers(thd))
     /\ \A a \in OpenHandlers(thd) :
          thd.ctx.held[thd.handlers[a].ticket].key = TableKey(thd.handlers[a].table)
     /\ others # {} => thd.locked_tables_mode
     /\ \A i \in others : \/ thd.ctx.held[i].key \in {GlobalKey, SchemaKey}
                          \/ \E t \in DOMAIN thd.locked : thd.locked[t] = i
                          \/ \E t \in thd.lost : thd.ctx.held[i].key = TableKey(t)

\* When the connection has ended it holds no lock (the assertion of
\* THD::cleanup): every order of LOCK TABLES, FLUSH, HANDLER and transaction
\* statements before the end is undone by it.
NothingLeft == ~ thd.connected => thd.ctx = EmptyContext

\* Every ticket is on one of the three lists, every ticket of explicit duration
\* belongs to a HANDLER, the global read lock or LOCK TABLES, and a connection
\* that ends leaves none behind.
TicketsAccounted == TypeOK /\ ExplicitAccounted /\ NothingLeft

\* Under LOCK TABLES, each locked table is protected by a ticket of explicit
\* duration for it, and as long as one of them can be upgraded (other than the
\* ones of FLUSH TABLES ... WITH READ LOCK) the connection still has its share
\* of the global lock, which was acquired for one statement only.
LockedTablesProtected ==
  thd.locked_tables_mode =>
    \A t \in DOMAIN thd.locked :
      LET i == thd.locked[t]
      IN /\ Contains(thd.ctx.m_tickets[MDL_EXPLICIT], i)
         /\ thd.ctx.held[i].key = TableKey(t)
         /\ thd.ctx.held[i].type = "SNRW" => IsLockOwner(thd.ctx, GlobalKey, "IX")

\* No statement leaves an exclusive lock behind when it is over: what DROP,
\* ALTER and FLUSH upgrade they release or downgrade, also when they fail after
\* some of the tables.  The exception is a FLUSH TABLES that is killed: the
\* tables it has closed and taken off the list of locked tables stay locked
\* exclusively, these and no others, until LOCK TABLES mode has been left and
\* the locks of the transaction are released.
NoExclusiveLeft ==
  \A i \in DOMAIN thd.ctx.held :
    thd.ctx.held[i].type = "X" =>
      \E t \in thd.lost : thd.ctx.held[i].key = TableKey(t)

\* close_cached_tables: "reopen them and get the old locks. This should always
\* succeed", so that no exclusive lock is left at all.
OldLocksBack == \A i \in DOMAIN thd.ctx.held : thd.ctx.held[i].type # "X"

\* Whatever the connection holds, a list of requests for any tables that is
\* refused at any point leaves the context exactly as it was
\* (acquire_locks: mdl_savepoint, rollback_to_savepoint).
AllOrNothing ==
  \A ts \in SUBSET Tables, type \in {"SNW", "SNRW", "X"} :
    LET requests == WithScopes(TableNames(ts, type))
    IN \A n \in 0..Len(requests) :
         n < Len(requests) /\ MayStop(thd.ctx, requests, n)
           => AcquireLocks(thd.ctx, requests, n).ctx = thd.ctx
=============================================================================
