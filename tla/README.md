# A TLA+ model of the MySQL server's concurrency core

The repository holds a copy of the MySQL 5.5 server under `src/mysql` and a
few small unrelated projects. This directory specifies the parts of the server
whose correctness is a matter of interleavings, queues, failures and recovery:
metadata locking, table locks, two-phase commit with the binary log,
semisynchronous replication and the lock-free hash. The specifications are
checked with TLC on small instances. For metadata locking with its registry and
its deadlock detector, for table locks, for two-phase commit and for
semisynchronous replication the safety properties are also proved with TLAPS,
for all instances.

## 1. Inventory

| Component | Source | State | Operations | What is hard | What makes it correct |
|---|---|---|---|---|---|
| rw_pr_lock_t | `mysys/thr_rwlock.c` | mutex, condition, reader and waiter counts, writer flag | init, rdlock, wrlock, unlock | stolen wakeups, unlocked read of the flag, destruction right after unlock | exclusion, no lost wakeup, safe destruction |
| MDL_map | `sql/mdl.cc` | hash of MDL_lock, cache of unused objects, version and reference counters | find_or_insert, remove | the object dies, or serves another key, between lookup and lock | one lock per key, no use after free, no leak |
| MDL_lock, MDL_wait | `sql/mdl.cc`, `mdl.h` | granted and waiting lists with bitmaps, hog counter, wait slots | can_grant_lock, reschedule_waiters, remove_ticket, set_status, timed_wait | grant against timeout, KILL and victim; bitmaps against changes of type; starvation | granted locks are compatible, slot and queue agree, nobody is forgotten |
| MDL_context, one against others | `sql/mdl.cc` | tickets, m_waiting_for | acquire, try_acquire, clone, upgrade, downgrade, release | an upgrade needs two tickets; a failure has to restore the original | no orphan tickets, one upgrader |
| MDL_context, durations | `sql/mdl.cc`, `sql_base.cc`, `sql_handler.cc`, `lock.cc`, `transaction.cc` | three ticket lists, savepoints, HANDLERs, locked tables, global read lock | the statements that lock, flush, alter, drop, commit, roll back | tickets move between durations, savepoints mark positions in a list, statements fail half-way | every ticket has one owner, savepoints keep what is older |
| Deadlock detector | `sql/mdl.cc` | path of a search with its read locks, victim | find_deadlock, visit_subgraph | several searches at once in a graph that changes | no deadlock escapes, paths are real, all requests are answered |
| thr_lock | `mysys/thr_lock.c` | four lists and two counters for each table | thr_multi_lock, thr_lock, wait_for_lock, thr_unlock, aborts, delayed upgrade | ten types with special cases, killed waiters, priorities | exclusion, nobody is forgotten, no starvation, no deadlock |
| Two-phase commit | `sql/log.cc`, `sql/handler.cc`, `ha_innodb.cc` | binary log files, InnoDB's log, prepared_xids, three mutexes | prepare, log_xid, commit, unlog, rotation, recovery | a crash between any two steps; recovery reads the last file only | atomic commitment, same order in both logs |
| Semisync replication | `plugin/semisync` | active transactions, reply and wait positions, on/off | commitTrx, reportReplyBinlog, switch_off, try_switch_on, SET GLOBAL, RESET MASTER | reply against timeout; broadcast after unlock; lost replies | a commit returns, and "yes" means received |
| Lock-free allocator and hash | `mysys/lf_hash.c`, `lf_alloc-pin.c` | one list with dummy nodes, pins, purgatories, free stack | insert, delete, search, get_pins, put_pins | ABA, memory reclaimed while pinned, unlinking against insertion | a linearizable set; pinned nodes stay |
| Table definition cache | `sql/table.cc`, `sql_base.cc` | shares, versions, flush tickets | wait_for_old_version, visit_subgraph | flush waits join the wait-for graph under another mutex | no missed deadlock |
| Event scheduler, InnoDB latches and read views | `sql/event_*.cc`, `storage/innobase` | | | | candidates |

**How they interact.** A connection (an `MDL_context`) asks `MDL_map` for the
`MDL_lock` of a key and gets it with its `m_rwlock` (a `rw_pr_lock_t`)
write-locked. It takes the lock or appends a ticket to the waiting list,
clears its wait slot, publishes `m_waiting_for`, and searches the wait-for
graph. The search read-locks the `m_LOCK_waiting_for` of contexts and the
`m_rwlock` of locks along its path, which is free of deadlocks only because
those locks prefer readers. Then the connection sleeps in its wait slot until
another connection's `reschedule_waiters`, a search that chose it as the
victim, a timeout or KILL fills the slot. The removal of the last ticket hands
the `MDL_lock` back to `MDL_map`. With metadata locks in place the statement
takes its table locks (`thr_multi_lock`), sorted so that no deadlock arises.
At the end `ha_commit_trans` prepares InnoDB, writes the binary log and commits
InnoDB; the semisync plugin hangs on the binary log's hooks and makes the
session wait for a slave in between. The lock-free hash serves the performance
schema, which is called from all of the above.

## 2. Modules

| Module | Models | Grain of an action |
|---|---|---|
| `RwPrLock` | rw_pr_lock_t | code between two operations on the mutex or the condition |
| `MDLMap` | MDL_map and the life of MDL_lock objects | a section under m_mutex or m_rwlock |
| `MDLTypes` | enum_mdl_type and the compatibility and priority matrices | constants |
| `MDL` | MDL_lock, MDL_wait and the lock operations of MDL_context | a critical section; one iteration of reschedule_waiters |
| `MDLDeadlock` | find_deadlock and the visitor, composed with `MDL` and shown to implement it | a visit of one node |
| `MDLContext` | the ticket lists of one connection and its statements | a statement with its clean-up |
| `ThrLock` | THR_LOCK | a critical section of THR_LOCK::mutex |
| `BinlogTC` | TC_LOG_BINLOG, ha_commit_trans, ha_recover, InnoDB as participant | a section between two mutex operations, a write or a sync |
| `AtomicCommit` | abstract: every transaction decided once, client, log and engine agree | |
| `SemiSync` | ReplSemiSyncMaster, ActiveTranx, dump threads and slaves | a critical section of LOCK_binlog_ |
| `LfHash` | lf_hash.c and lf_alloc-pin.c | one access to shared memory |
| `LfSet` | abstract: a linearizable set | |
| `RwPrLockProofs`, `MDLMapProofs`, `MDLProofs`, `MDLQueueProofs`, `MDLDeadlockProofs`, `ThrLockProofs`, `BinlogTCProofs`, `SemiSyncProofs` | theorems (section 5) | |
| `MC...` | sets of requests, programs and symmetries for TLC | |

Variables and definitions bear the names of the source where TLA+ allows it
(`m_granted`, `active_tranxs`, `prepared_xids`, `lf_pinbox_put_pins`). A
comment in every module says where in the code each value of `pc` is. A
definition called a "faulty variant" of another one is what a plausible bug
would turn it into. None of them is used by a specification; each shows that
some property would notice the bug.

### Abstractions worth knowing

*Metadata locks.*

* In `MDL` a bitmap is a set of types, the granted list is a set (its order is
  never used for a decision), the waiting list is a sequence.
* In `MDL` a search may choose any waiting context as its victim.
  `MDLDeadlock` replaces this by the search of the code, and implements `MDL`
  (checked by the run `mdl`, proved by `Implements`). The safety theorems about
  `MDL` hold therefore for every strategy of choosing victims.
* In `MDL` tickets of all durations are kept together. A request that
  `find_ticket` satisfies either reuses the ticket, which changes nothing, or
  clones it (`CloneTicket`). An upgrade in a context that already has X reuses
  that ticket (`UpgradeOwnX`); if its duration differs the code clones it
  first and merges the clone away, with the same result. The durations are the
  subject of `MDLContext`, which in turn sees other connections only as locks
  that are not granted.
* A removed last ticket leaves the hog counter as it is (the object goes to
  the cache) or resets it (the object is freed): both are allowed.
* In `MDLMap` the lists of a lock are abstracted to the tickets that refer to
  it, and the cache to a set: any cached object may come first.
* `MDLDeadlock` derives the read locks of a search from its stack.
  `RespectReadLocks` lets no writer change what is read-locked, the lists and
  the types of the tickets on them; an active writer (`m_rwlock`) makes a search
  wait.
* Notifications of conflicting sessions appear only in `MDLContext`, as
  HANDLERs that a statement may find itself asked to close. The periodic short
  waits of `acquire_lock` only repeat notifications.
* `MDLContext` composes the statement from operators that each stand for one
  function (`AcquireLocks`, `HaCloseTables`, `ImplicitCommit`). A statement
  that acquires locks may be refused after any number n of them.

*Table locks.* The callbacks into the engine are data, except `check_status`,
which may answer anything. A thread's locks are granted one critical section
at a time, so other threads come between the tables of a statement. What the
code does by walking a list, to sort it, to unlink an element or to take out the
requests of one kind, is defined by its result: the elements in question in the
order in question (`InOrder`, `Filter`). The handler thread of INSERT DELAYED
locks one table, its own (`ThrLockAssumption`). DDL may abort the locks of any
thread that has the table open, whether it waits or not, and
`thr_abort_locks_for_thread` wakes the other waiters in every case.

*Two-phase commit.* Transactions and their Xid events are the same thing; a
file of the binary log is a sequence of them. Each of the two logs has a
durable prefix, and a crash keeps any extension of it. `sync_binlog` and
`innodb_flush_log_at_trx_commit` are 1. A transaction with an empty
transactional cache is in `Empty`. Any transaction may also have changed
non-transactional tables: then `log_xid` first writes the statement cache, in a
critical section of its own that may fail or rotate the log while the session
owns `prepare_commit_mutex` (`FlushStmtCache`). The events of that cache carry no
xid and are left out of the files.

*Semisync.* A position is a number; `Wrap` is where the numeric suffix of the
file name gets a digit more, since `compare` orders names as strings. The
network keeps order per connection, and a broken connection loses what is
under way. A dump thread that cannot read a reply ignores the error
(`readSlaveReplyFails`): it stays, and its slave stays counted, until it finds
at a later send that the connection is broken. The slave's next connection
begins after that. Replies that arrive but are malformed, which the code ignores
in the same way without losing the connection, are left out.
`rpl_semi_sync_master_wait_no_slave` is 1 by default and can be changed by SET
GLOBAL at any time; `WaitNoSlave` is the set of values it takes.

*Lock-free hash.* Memory is sequentially consistent, which `my_atomic_*`
provides for the CASes and pins, and x86 for the plain reads between them. The
hash is unique, as with all its users. The pins are harvested into the sorted
array on the stack (the linear search by `match_pins` is for threads whose
stack is nearly used up). The stack of unused pins has a version number
against ABA and is popped and pushed at once. A few accesses of which at most
one can conflict with another thread are one step: the removal of several pins,
and `purgatory` (which belongs to one thread) with the read of `pins_in_array`.
The second reads of `top` and of a link are separate from the reads of the
free pointer and of key and hash number that rely on them. Hash numbers have 2 bits, the fourth
pin, which nobody uses, is left out, and so is the failure of
`_lf_dynarray_lvalue`. A thread takes pins, makes calls, and may give the pins
back, as the performance schema does in `destroy_thread`.
`MCLfHash!AllPrograms` says which calls.

## 3. Runs

| Run | Instance | Checks | Shows |
|---|---|---|---|
| `rwpr` | 3 threads, 2 requests each, spurious wakeups | Exclusion, NoLostWakeup, DestroySafe, WriterServed | the lock works, and the unlocked read of active_writer is harmless |
| `map` | 2 threads, 2 tables, a schema, the global key, 3 addresses, cache of 1, counters modulo 3 | NoUseAfterFree, RegistryConsistent, NothingLeaks, LookupReturns | the version and the two counters handle reuse, wrap-around and failed insertions; casts are right |
| `mdl` | 3 contexts, SW and SNW with upgrade and downgrade on one table, X on another, KILL, max_write_lock_count 1, five requests in all, the detector step by step | TypeOK, GrantedCompatible, SlotMatchesQueue, NoOrphanTicket, NoForgottenWaiter, QueuesConsistent, PathIsReal, NoMissedDeadlock, Spec | the protocol under all races of grant, KILL and victim; concurrent searches are exact; `MDLDeadlock` implements `MDL` |
| `deadlock_live` | 3 contexts, 2 tables dropped in any order, five requests in all, no timeout, no KILL | RequestAnswered | no request hangs |
| `context` | KILL, and either 1 table with a HANDLER and 2 savepoints, or 2 tables with a savepoint; statements that fail after none, some or all of the tables | SavepointKeepsLocks, TicketsAccounted, AllOrNothing, LockedTablesProtected, NoExclusiveLeft | every sequence of statements leaves the lists in order; the only exclusive locks left are those of a killed FLUSH (section 4, item 14) |
| `thr_all` | 3 threads, all types, KILL, timeout, abort by DDL | Exclusion, NoForgottenWaiter, ListsConsistent | no type of lock and no way to end a wait breaks the lists |
| `thr_live` | 3 threads, statements with one or two tables | OldLockIsStronger, Served | sorting excludes deadlock, nobody starves |
| `binlog_crash` | 3 transactions, with or without a statement cache, rotation from log_xid, unlog and FLUSH LOGS, 2 crashes, failing prepare and write | LogsConsistent, PrefixCommitted, AtomicCommitSpec | refinement of `AtomicCommit` across crashes, also in the recovery |
| `binlog_live` | 2 transactions, one without events, rotation from everywhere, a crash, all failures | CommitReturns | no deadlock of rotation and commits |
| `semi` | 2 sessions, 2 slaves, a broken connection, noticed or not, both values of wait_no_slave, timeouts, SET GLOBAL twice, RESET MASTER | YesMeansReceived, NoLostWakeup, ActiveTranxsConsistent | a positive answer is true, nobody sleeps who could go on, nothing acknowledged stays listed |
| `semi_live` | 2 sessions, 2 slaves, a broken connection, noticed or not, both values of wait_no_slave, timeouts that need not happen | CommitReturns, SwitchesBackOn | commits return because replies come; semisync recovers |
| `lfhash` | 2 threads, 3 nodes, 3 keys of which two share a bucket, 4 buckets, a new hash and a grown one, purgatory of 2, one malloc failure; a node comes back to the top of the free stack while the other thread is in `_lf_alloc_new` | NodesSafe, LinearizableSet, CallReturns | no node is reused while pinned, which also prevents ABA on the free stack; refinement of `LfSet`; put_pins ends |

Several invariants are conjunctions of named parts, each with its own comment:
`RegistryConsistent` (types, one lock per key, right class of object),
`QueuesConsistent` (exact bitmaps, one upgrader, hogs give way),
`TicketsAccounted` (types, one owner for each explicit ticket, nothing left at
the end), `ListsConsistent` (types, lists against THR_LOCK_DATA, counters),
`LogsConsistent` (types, prepared transactions are in the last file),
`ActiveTranxsConsistent` (types, sorted, nothing acknowledged outside the window
of RESET MASTER), `NodesSafe`
(each node in one place, pinned content stays, no deleted node left behind when
nobody is in a call).

**Further configurations** ask the same questions of other instances. They all
pass, and are kept for changes of the corresponding code:
`MDLTypesAll.cfg` (all seven types of object locks, with `MCMDL`),
`MDLGlobal.cfg` (scoped locks, `MCMDL`), `MDLContextHandler.cfg` (two tables and
a HANDLER, `MCMDLContext`).

**What some properties do not say.** `NoForgottenWaiter` of `MDL` accepts any
lock granted to another context as a reason to wait, also a compatible one.
The stronger form, with a conflicting lock, is false of the code:
`reschedule_waiters` may pass over SNW in favour of SR because
max_write_lock_count is reached, and then reset the count, so that the SNW
request waits for SR, which does not exclude it. The holder of that lock
reschedules the queue when it releases it, so nobody is forgotten for good
unless a lock is never released (`RequestAnswered` says that requests are
answered). `NoExclusiveLeft` and `ActiveTranxsPending` each name the one
situation in which the code leaves something behind, and say exactly what it
leaves. `Served` is about statements that nobody aborts. `CommitReturns` of
`BinlogTC` exempts commits that wait for the mutex which a failed one has kept
(section 4, item 13).

**Bounds.** `Slot` bounds the tickets of a context: two are what an upgrade or
a clone needs. Three contexts or threads are the least with which a holder, a
waiter and a third party that times out, searches or releases meet. `MaxOps`
bounds the requests of a thread and `MaxRequests` those of all contexts
together, in modules with unbounded counters: five requests are one more than
the loop of two waits needs, and leave one for the third context. `UintMax` is at least the number of threads, as the comment on the
counters demands, and small enough to wrap. `MaxSearchDepth` is greater than
the number of contexts, so the depth limit (32 in the code) does not stand in
for a found loop. `MaxWriteLockCount` is 1 where the counter matters, and out
of reach in `deadlock_live` (see item 1 of section 4). Two crashes suffice for one in normal
operation and one in the recovery from it; two files for a rotation between
log_xid and commit. Two transactions per session or slave (`MaxPos`) let a
reply be ahead of, equal to and behind a waiter. Two tables let a statement of
`MDLContext` fail after some of its tables; HANDLERs and the interplay of several
savepoints need one table and the scoped locks (`Scenarios`). In `LfHash` two nodes in one
bucket make predecessor and victim meet, the third is the one that is inserted
or reused; a purgatory of two makes both branches of the purgatory test
happen. `PopAndPushBack` is the shortest program in which the top of the free
stack is popped and comes back with another node below it: it has to be
inserted, and both have to be deleted and leave the purgatory together. Without
the pin of `_lf_alloc_new` (`PinNothing`) this loses the other node.
Deadlock checking is off where the bounds let all threads finish or
where connections need not issue requests; that nobody is stuck is stated as a
property instead. `ThrLock` has no such bound and is checked for deadlock;
in `thr_all`, where a wait may be aborted at any time, the check says little, in
`thr_live` it excludes deadlocks between statements.

**Fairness.** Everywhere: a thread inside an operation goes on, and one that
holds a lock between operations eventually releases it (a statement or
transaction ends). A mutex that keeps being free is obtained (weak fairness);
in `BinlogTC` the mutexes are contended again and again, so obtaining them is
strongly fair, as with mutexes that do not starve a waiter for ever. `SemiSync`
also assumes that dump threads and slaves go on while connected, that a dump
thread finds out about its broken connection (the failed read sets `net->error`,
with which the next send, a heartbeat at the latest, fails; and a slave that
registers again makes `kill_zombie_dump_threads` end the old one), that a slave
reconnects, and that RESET MASTER, once begun, ends. There is no
fairness of timeouts, KILL, spurious wakeups, crashes or new requests.
In `LfHash` a thread inside a call goes on (stated by its effect on the local
variables, which is cheaper to check than WF of the disjunction of all steps); that retries end is then due to the
bounded number of calls of the others (the code is lock-free, not wait-free).

## 4. Where the code and its comments disagree

While modelling, the following statements of comments, assertions and debug
checks turned out not to describe what the code does. For each one there is a
configuration with which TLC prints a trace that violates the statement
(`tlc -config <cfg> <module>`), and a property in the module that quotes it. The runs of
section 3 are restricted to where the statement holds, as their comments say.

1. `MDLPassedOver.cfg` with `MCMDLDeadlock`, `PassedOverWaiterHasReason`
   (`sql/mdl.cc:1362`). With m_hog_lock_count >= max_write_lock_count and a
   weak request in the queue, the loop of reschedule_waiters skips every
   strong request. The comment at sql/mdl.cc:1325 says "Note that it is not an
   issue if we fail to wake up any pending waiters for weak locks in the loop
   below. This would mean that all of them are either killed, timed out or
   chosen as a victim by deadlock resolver, but have not managed to remove
   ticket from the waiters list yet." The trace shows otherwise: a connection
   that holds SNW waits for its upgrade to X, another one waits for SW with
   its wait slot open, and the last SR lock is released. X is skipped, and SW
   cannot be granted because SNW is still held. No other connection holds a
   lock or is about to leave the queue, so nobody calls reschedule_waiters
   again; the wait-for graph has no loop (the upgrade waits for nobody), so
   both requests stay until KILL or lock_wait_timeout.
2. `MDLHogCount.cfg` with `MCMDLDeadlock`, `HogCountReset`
   (`sql/mdl.cc:1629`). The comment at sql/mdl.cc:1405 says the reset at the
   end of reschedule_waiters "ensures: - That m_hog_lock_count is correctly
   reset after strong lock is released and weak locks are granted (or there
   are no other lock requests)." When the ticket that leaves is the last one
   of the lock, remove_ticket calls mdl_locks.remove instead of
   reschedule_waiters, and MDL_object_lock::reset changes only the key
   (sql/mdl.cc:531): the count survives in the cached object. The trace: SNW
   is granted from the queue while SW waits; it is released just when the SW
   request times out, so that the closed wait slot keeps SW in the queue and
   the count stays; when the ticket of the SW request then leaves, the lock is
   empty and m_hog_lock_count is 1.
3. `ThrLockAllowWrite.cfg` with `MCThrLock`, `AllowWriteNeverWaits`
   (`mysys/thr_lock.c:896`). check_locks reports as an error
   (mysys/thr_lock.c:266): "Warning at '%s': Found WRITE_ALLOW_WRITE lock
   waiting for WRITE_ALLOW_WRITE lock". The trace: one thread holds
   TL_WRITE_ALLOW_WRITE, a second one waits for TL_WRITE, a third one for
   TL_WRITE_ALLOW_WRITE behind it; the second is killed. wait_for_lock calls
   wake_up_waiters, which does nothing because lock->write.data is set, so the
   third thread goes on waiting for a lock it is compatible with until the
   first one is released.
4. `ThrLockNoInsert.cfg` with `MCThrLock`, `NoInsertExcludesAllowWrite`
   (`mysys/thr_lock.c:587`). check_locks reports as an error
   (mysys/thr_lock.c:282) "Warning at '%s': Found lock of type %d that is
   write and read locked" for a TL_WRITE_ALLOW_WRITE lock of one thread next
   to TL_READ_NO_INSERT of another. The trace: thr_lock grants
   TL_READ_NO_INSERT while TL_WRITE_ALLOW_WRITE is held, as its comment at
   line 582 explains (Bug#42147); the check was not changed with it.
5. `ThrLockWriterWaits.cfg` with `MCThrLock`, `WriterWaitsForNoInsert`
   (`mysys/thr_lock.c:914`). check_locks, called at the end of
   free_all_read_locks and wake_up_waiters with allow_no_locks = 0, reports as
   an error (mysys/thr_lock.c:252) "Warning at '%s': Write lock %d waiting
   while no exclusive read locks". The trace: when write_lock_count exceeds
   max_write_lock_count, wake_up_waiters gives all read locks and returns,
   although the request at the head of write_wait is
   TL_WRITE_CONCURRENT_INSERT and no TL_READ_NO_INSERT lock is active.
6. `SemiSyncDisable.cfg` with `MCSemiSync`, `CommitAssertion`
   (`plugin/semisync/semisync_master.cc:755`). commitTrx says
   (plugin/semisync/semisync_master.cc:752): "At this point, the binlog file
   and position of this transaction must have been removed from ActiveTranx",
   and asserts it through active_tranxs_. The trace: a session passes the test
   of master_enabled_ outside the mutex, SET GLOBAL
   rpl_semi_sync_master_enabled=0 deletes the list and sets the pointer to
   NULL, and the session jumps to l_end, where the assertion reads through the
   NULL pointer.
7. `SemiSyncRemove.cfg` with `MCSemiSync`, `SwitchOffAssertion`
   (`plugin/semisync/semisync_master.cc:799`). switch_off asserts
   (plugin/semisync/semisync_master.cc:799) "assert(active_tranxs_ != NULL);".
   remove_slave calls it without looking at master_enabled_: with
   rpl_semi_sync_master_wait_no_slave=0 the last semisync slave that
   disconnects after the plugin was disabled makes it fail. A session whose
   wait timed out while the plugin was being disabled does the same.
8. `SemiSyncDigits.cfg` with `MCSemiSync`, `WritesInOrder`
   (`plugin/semisync/semisync_master.cc:119`). insert_tranx_node says
   (plugin/semisync/semisync_master.cc:173): "Otherwise, it is an error
   because the transaction should hold the mysql_bin_log.LOCK_log when
   appending events." The trace: every writer holds LOCK_log, but compare()
   orders file names with strcmp, and the first file number with one digit
   more sorts before all the others; the insertion fails and semisync is
   switched off.
9. `SemiSyncResetCommit.cfg` with `MCSemiSync`, `CommitAssertion`
   (`plugin/semisync/semisync_master.cc:755`). commitTrx says
   (plugin/semisync/semisync_master.cc:752): "At this point, the binlog file
   and position of this transaction must have been removed from ActiveTranx".
   The trace: a transaction is written to the new log after reset_logs and
   before resetMaster, while reply_file_ still has a position of the old log;
   commitTrx finds the reply ahead and leaves at once with its node in the
   list, counted as semisynchronous although no slave has it. This needs
   rpl_semi_sync_master_wait_no_slave=1, the default: otherwise the last slave to
   leave before RESET MASTER has switched semisync off. `ActiveTranxsPending`
   therefore excepts the transactions of the new log during that window, and
   only these.
10. `SemiSyncSmallest.cfg` with `MCSemiSync`, `WaitIsSmallest`
    (`plugin/semisync/semisync_master.cc:1163`). semisync_master.h:406 says of
    wait_file_pos_: "The smallest position in that file that a trx is waiting
    for". The trace: resetMaster marks it as unknown while a session sleeps,
    and the next session to wait sets it to its own, larger position.
11. `BinlogTCEmpty.cfg` with `MCBinlogTC`, `PreparedInLastFile`
    (`sql/log.cc:6612`). sql/log.cc:4230 says of the rotation: "be sure all
    xids are "unlogged", so that on recover we only need to scan one - latest
    - binlog file for prepared xids". log_xid reports success for a
    transaction whose cache is empty without counting it (binlog_flush_cache),
    and unlog then decrements the counter for it ("prepared_xids can be 0 if
    the transaction had ignorable errors", log.cc:6610). If another
    transaction is between log_xid and commit, it is that one's count which is
    lost: the log is rotated while its xid is in the old file, and a crash
    makes recover roll it back although it is in the binary log.
12. `BinlogTCSync.cfg` with `MCBinlogTC`, `AtomicCommitSpec`
    (`sql/log.cc:5524`). sql/handler.cc:1182 documents the result 1 of
    ha_commit_trans as "transaction was rolled back". When flush_and_sync or
    the after_flush hook fails, the Xid_log_event has already been written to
    the file and nothing removes it: ha_commit_trans rolls back and answers 1,
    and slaves, and recover after a crash that loses the unflushed rollback,
    take the transaction as committed.
13. `BinlogTCMutex.cfg` with `MCBinlogTC`, `MutexGivenBack`
    (`storage/innobase/handler/ha_innodb.cc:2920`).
    storage/innobase/handler/ha_innodb.cc:10555 says "we're taking the mutex
    on prepare, and releasing it on commit". The way out of ha_commit_trans
    when prepare or log_xid fails is ha_rollback_trans: innobase_rollback
    calls trx_deregister_from_2pc, which clears owns_prepare_mutex, but not
    mysql_mutex_unlock(&prepare_commit_mutex). The mutex stays locked for ever
    and every later commit waits in innobase_xa_prepare.
14. `MDLContextKill.cfg` with `MCMDLContext`, `OldLocksBack`
    (`sql/sql_base.cc:1177`). close_cached_tables, for FLUSH TABLES under LOCK
    TABLES, upgrades the lock of each table and closes it, then opens the
    closed tables again and downgrades the locks of the open ones. Its comment
    says of the re-opening: "reopen them and get the old locks. This should
    always succeed (unless some external process has removed the tables)"
    (sql/sql_base.cc:1172-1176). But open_table returns an error at once when
    thd->killed is set (sql/sql_base.cc:2677): when KILL QUERY ends the wait
    for one of the tables, reopen_tables fails and takes the tables closed so
    far off the list of locked tables, and the downgrade, which goes through
    thd->open_tables, does not reach them. They keep exclusive metadata locks
    until UNLOCK TABLES, so that no other connection can read them. ALTER
    TABLE releases the lock in the same situation (sql/sql_table.cc:6988).
    `thd.lost` in `MDLContext` keeps track of these tables; `NoExclusiveLeft`
    says that no other exclusive lock is left.

Four more remarks about `mysys/lf_*.c` come from reading, since the model covers
only what the callers use. `ldelete` of a non-unique hash can leave a marked
node in the list (its second `lfind` stops at another node with the same key),
against the comment on equal numbers of flags and removals (`lf_hash.c:231`).
`_lf_pinbox_free` scans the purgatory unless its size is a multiple of
`LF_PURGATORY_SIZE`, the reverse of what the name suggests. When
`initialize_bucket` runs out of memory, `lf_hash_insert` forgets its node (`lost` in
`LfHash`). And `find_or_create_table_share` (`pfs_instr_class.cc`) does not
unpin after a search that found nothing, which leaves in pin 2 the last
node that `lfind` passed; `find_or_create_file` does unpin, and `LfHash`
follows it.

## 5. Proofs

Every theorem holds for all values of the constants that satisfy the named
assumptions of its module. The sets of threads, transactions, sessions or
slaves whose members are counted are assumed to be finite. A theorem
`Spec => []P` rests on an inductive invariant that says more than `P`; TLC
checked each of them on the instances of section 3 before it was proved. The
proofs have one lemma per action.

`RwPrLockProofs` (any finite set of threads, any number of requests): the
invariant `IInv` says that the two counters equal the number of threads in the
corresponding stretch of code, that the mutex is held in exactly three places,
that the writer flag is set if and only if there is a writer, and that a
signal is pending whenever the lock is neither read nor written while writers
wait. `Exclusion` is not inductive without the exact counters (the test
`active_readers != 0` has to mean something), nor is `NoLostWakeup` without
the pending signal. Results: `ExclusionHolds`, `NoLostWakeupHolds`,
`DestroySafeHolds`.

`MDLMapProofs` (any threads, keys and addresses, any size of the cache, any
width of the counters with room for all threads): `IInv` says of every
`MDL_lock` who can still reach it. The difference of `m_ref_usage` and
`m_ref_release`, modulo the width of the counters (`Balance`), is the number of
threads between lookup and lock; as long as the version is the one that a
thread has seen, the object is in the hash under the thread's key
(`LookedUp`); a thread that has seen equal counters is the only one that will
free the object (`LastUserIs`, `Doomed`). For the absence of leaks `Freed` and
`InUse` name, for each object, a thread that will free it or take it out of the
hash. Results: `NoUseAfterFreeHolds`, `RegistryConsistentHolds`,
`NothingLeaksHolds`.

`MDLProofs` (any contexts, keys, tickets, requests and any
max_write_lock_count): `IInv` locates every ticket. It is on a list of its own
lock (`Placed`), waiting or granted but not both (`Waiting`), known to its
context once granted (`Owned`, `Known`), in step with the wait slot (`Slots`),
and what `reschedule_waiters` has yet to visit is still waiting (`Iterating`).
`Upgrading` keeps track of the two tickets of an upgrade, and `BitmapCovers`
justifies the shortcut of `can_grant_lock`. `GrantedCompatible` alone is not
inductive: a grant from the queue needs the bitmap to cover the list, a merge
needs the context to hold X already, a clone needs the order of strength of
the types. Three lemmas about lists (`DropFacts`, `AppendFacts`, `TailFacts`)
and one about new grants (`NewGrant`, with the symmetry of the matrices) carry
the proof. Results: `TypeCorrect`, `GrantedCompatibleHolds`,
`SlotMatchesQueueHolds`, `NoOrphanTicketHolds`. The only assumption is
`MDLAssumption`: kinds of keys are disjoint and requests have a type that fits
their key.

`MDLQueueProofs` adds to it what is true of the queue of each lock (`QInv`).
The bitmaps are exact. The types that hog a lock exclude each other, so one
loop of `reschedule_waiters` grants at most one of them while a weak request
waits, and only if the limit was not reached before (`HogCount`). And every
waiter has a reason to wait (`Reason`), except those the loop has yet to visit
and those it passes over because the limit is reached (`Attended`); the second
exception is why `NoForgottenWaiter` has the condition on
`m_hog_lock_count`, without which it is false (section 4, item 1). Results:
`QueuesConsistentHolds`, `NoForgottenWaiterHolds`.

`MDLDeadlockProofs` (also any number of simultaneous searches and any
`MaxSearchDepth` above 1) has two arguments. *Paths are real* (`RealPath`):
the search keeps the read locks of every node on its path, so no step of
another context can change the edges between them (`CalmKeepsPath`, from
`RespectReadLocks`). The attempt to prove this showed that the lists and the
bitmap are not enough: a merge may change the type of a granted ticket and
leave both as they are, so `RespectReadLocks` speaks of the types too.
*No deadlock escapes*: `Detected` says that for every set of waiting contexts in
which each waits for another member, some member is still searching and has
not turned its back on the set (`Explores`: for every member on the path, the
next node or one that remains to be visited is a member). It is preserved
because edges between two contexts that wait neither come nor go
(`EdgesStay`), because a context that publishes `m_waiting_for` begins a
search (so the last member to do so sees the whole loop), and because a search
leaves a node only when it has no unexplored neighbour, which a member of the
set always has. `NoMissedDeadlock` itself is far from inductive: it says
nothing while somebody still searches. Results: `Implements` (the step-by-step
detector implements `MDL`, where a search may choose any victim),
`PathIsRealHolds`, `NoMissedDeadlockHolds`, and `DetectorKeepsLocks`, which
carries the results about `MDL` over.

`BinlogTCProofs` (any transactions, sessions that rotate the log, files and
crashes): the two logs enter the argument as sets of transactions with a
record of some kind (`Committed`, `DiskPrepared`, `Logged`, `Unsynced`...).
`IInv` says what the logs hold of a transaction at each step of
`ha_commit_trans` (`Phase`), that the binary log decides (`Agree`), who has
the two mutexes (`Held`; a transaction that rotates the log is still before its
write if it owns `prepare_commit_mutex`, and after `unlog` otherwise), that `prepared_xids` is the number of transactions
between `log_xid` and `unlog` (`Counting`), that while the server is up
everything undecided is in the hands of a session (`Pending`), that what is
not durably committed is in the last file and that file is marked as in use
(`InLastFile`), and that what a crash may cut off has not been promised to
anybody (`NotPromised`). The hypothesis `CodeHypothesis` excludes transactions
with an empty cache and failures of the sync, since the code breaks the
guarantee there (section 4, items 11 and 12). Results: `LogsConsistentHolds`,
`PrefixCommittedHolds` and `Refinement`: the system with its crashes and
recoveries implements `AtomicCommit`.

`SemiSyncProofs` (any sessions, slaves, transactions and resets): a session
that sleeps is covered by `wait_file`, whose position is not greater than its
own, or a broadcast is under way (`Sleepers`; by transitivity of `compare`,
which is a total order even where it is not that of the numbers), and
`wait_sessions` counts those that sleep (`WaitersCounted`); the reply position
is one that some slave has reached (`Received`), and nothing it covers is still
active (`Acknowledged`). `YesMeansReceivedHolds` and
`ActiveTranxsConsistentHolds` assume `InOrder`, that no file name has one digit
more than the others (section 4, item 8). Both hold for either value of
`rpl_semi_sync_master_wait_no_slave`, and for changes of it. The window of RESET
MASTER (item 9) is part of the invariant: while it is open, what a reply covers
is a transaction of the new log. `NoLostWakeupHolds` and
`ActiveTranxsSortedHolds` do not need `InOrder`. As in the runs, `YesMeansReceived` and
`NoLostWakeup` speak of the time until the first RESET MASTER.

`ThrLockProofs` (any finite set of threads, any tables and statements of
bounded length, any `max_write_lock_count`, either value of
`thr_upgraded_concurrent_insert_lock`): `IInv` has a part for each table and a
part for each thread. `TableInv` is about the record that the mutex of one table
protects. The lists hold nobody twice, readers and writers are on their own
lists, a lock data is on a waiting list exactly while it has a condition, and
`read_no_write_count` is exact (`Consistent`); the locks in use tolerate each
other (`Tolerant`); nobody waits for nothing (`NoneForgotten`). `ThreadInv`
says that the array of a thread is sorted, which types its lock data may have
given what was requested (`TypeFits`), and that it waits only for the one at its
position, or for a delayed write (`Waits`).

`Exclusion` alone is not inductive. `thr_lock` looks at the first writer only, so
the invariant needs that no writer behind it is stronger (`FirstIsStrongest`),
except behind a lock that excludes everybody. A thread that already has a
write lock on the table is not checked at all, so the invariant needs the order
that `sort_locks` establishes; a lock whose type has changed since (an insert
that cannot be concurrent, the upgrade of INSERT DELAYED) has become stronger,
never weaker. The rescheduling of INSERT DELAYED makes a lock weaker, and takes
it off the active list in the same critical section. `NoForgottenWaiter` rests on
`WakeUpFacts`: whatever the lists were before, `wake_up_waiters` leaves nobody
forgotten, and it lets in only what `Tolerant` allows. It is proved along the
branches of the code (`FreeFacts` for `free_all_read_locks`, `StartFacts` for the
group of writers that start together). Under these are lemmas about lists
(`InOrderFacts`, `FilterFacts`, `SplitFacts`, `CountFacts`, `SortLocksFacts`); the
arrangement that `InOrder` chooses exists because the number of elements before
an element is its position, so no induction over data is needed. A change of one table leaves
the others in order because the lock data of different tables are different
(`TablesStep`). Results: `ExclusionHolds`, `NoForgottenWaiterHolds`,
`ListsConsistentHolds`, `OldLockIsStrongerHolds`. Assumptions: those of
`ThrLockAssumption`.

**Only model-checked.** `MDLContext` and `LfHash` with its refinement of
`LfSet`. A statement of `MDLContext` acquires and releases its locks by folds over
lists of tickets, so that what it does for every list is an induction over
data; `LfHash` walks a linked list whose order is an induction over its links.
And all liveness (`Served` of `ThrLock` among them): fairness and ENABLED are
beyond the prover.

**Next to be proved**: `TicketsAccounted` of `MDLContext`, once its folds are
replaced by operators on sets of tickets as was done for the lists of `ThrLock`;
`NodesSafe` of `LfHash` (a node is in one place, and pinned nodes are not reused).

## 6. Not modelled

* `TC_LOG_MMAP`, the coordinator for servers without a binary log:
  `PAGE::ptr` is never assigned and the pages are zero-filled, so the first
  `log_xid` dereferences a null pointer. Nothing behind it can be reached in
  this version.
* The table definition cache and its flush waits: the wait-for graph of
  `MDLDeadlock` has the waits for metadata locks only. The waits for table
  versions would be a second kind of edge, under `LOCK_open`.
* Event scheduler, InnoDB's latches and read views: self-contained, candidates
  for extension.
* The storage engines' data structures, the SQL layer, the client side, binary
  log I/O, the query cache and third-party code are dominated by data layout or
  sequential evaluation. They make up nearly all of the one and a half million lines of
  the repository, so the model covers a small share of them by design.
* The other projects in the repository (a port of Box2D, LightRock,
  SpriteListGen, IGP, qtransformtracker) are sequential programs without
  protocol state.
