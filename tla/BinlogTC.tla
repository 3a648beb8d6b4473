------------------------------ MODULE BinlogTC ------------------------------
(***************************************************************************)
(* Two-phase commit with the binary log as transaction coordinator         *)
(* (TC_LOG_BINLOG in sql/log.cc), InnoDB as the other participant, and     *)
(* ha_commit_trans of sql/handler.cc that drives both: prepare, log_xid,   *)
(* commit, unlog, the rotation of the log between them, and the recovery   *)
(* after a crash, which reads the last log file only.                      *)
(*                                                                         *)
(* sync_binlog and innodb_flush_log_at_trx_commit are 1, innodb_support_xa *)
(* is on.  The log of InnoDB is a sequence of records of which a crash     *)
(* keeps at least those that were flushed; the last file of the binary log *)
(* likewise.                                                               *)
(***************************************************************************)
EXTENDS Naturals, Sequences, FiniteSets

CONSTANTS Txn,          \* transactions that changed InnoDB tables
          Empty,        \* those among them whose binlog cache is empty
          Flushers,     \* sessions that execute FLUSH LOGS
          Failures,     \* errors that may occur: "prepare", "write", "sync"
          MaxCrashes,   \* bound: crashes
          MaxFiles,     \* bound: files that commits do not go beyond
          None          \* no owner

ASSUME BinlogTCAssumption ==
    /\ Empty \subseteq Txn
    /\ Flushers \cap Txn = {}
    /\ Failures \subseteq {"prepare", "write", "sync"}
    /\ MaxCrashes \in Nat /\ MaxFiles \in Nat \ {0}
    /\ IsFiniteSet(Txn) /\ IsFiniteSet(Flushers)
    /\ None \notin Txn \union Flushers

VARIABLES server,               \* "up" or "recover"
          pc, outcome,          \* sessions
          failed,               \* transactions whose prepare failed
          prepare_commit_mutex, \* owner
          owns_prepare_mutex,   \* trx_t::owns_prepare_mutex, as a set
          LOCK_log,             \* owner
          prepared_xids,
          redo, flushed,        \* InnoDB log, and how much of it is on disk
          binlog, synced,       \* files; how much of the last one is on disk
          in_use,               \* LOG_EVENT_BINLOG_IN_USE_F of the last file
          crashes

engine == <<redo, flushed>>
files  == <<binlog, synced, in_use>>
vars   == <<server, pc, outcome, failed, prepare_commit_mutex,
            owns_prepare_mutex, LOCK_log, prepared_xids, engine, files, crashes>>

Session == Txn \union Flushers
Record  == [trx : Txn, kind : {"prepare", "commit", "rollback"}]

Place   == {"idle", "prepared", "stmt", "log_xid", "write", "sync", "commit",
            "flush", "unlog", "rotate", "new_file", "wait", "close", "open",
            "rollback", "done", "dead"}

TypeOK ==
    /\ server \in {"up", "recover"}
    /\ pc \in [Session -> Place]
    /\ outcome \in [Txn -> {"none", "commit", "abort"}]
    /\ failed \subseteq Txn
    /\ prepare_commit_mutex \in Txn \union {None}
    /\ owns_prepare_mutex \subseteq Txn
    /\ LOCK_log \in Session \union {None}
    /\ prepared_xids \in 0 .. Cardinality(Txn)
    /\ redo \in Seq(Record)
    /\ flushed \in 0 .. Len(redo)
    /\ binlog \in Seq(Seq(Txn))
    /\ Len(binlog) \in 1 .. MaxFiles + MaxCrashes + Cardinality(Flushers)
    /\ synced \in 0 .. Len(binlog[Len(binlog)])
    /\ in_use \in BOOLEAN
    /\ crashes \in 0 .. MaxCrashes

Init ==
    /\ server = "up"
    /\ pc = [s \in Session |-> "idle"]
    /\ outcome = [t \in Txn |-> "none"]
    /\ failed = {}
    /\ prepare_commit_mutex = None /\ owns_prepare_mutex = {}
    /\ LOCK_log = None /\ prepared_xids = 0
    /\ redo = <<>> /\ flushed = 0
    /\ binlog = <<<<>>>> /\ synced = 0 /\ in_use = TRUE
    /\ crashes = 0

-----------------------------------------------------------------------------
(* Operators *)

Elems(seq) == {seq[i] : i \in 1 .. Len(seq)}

\* The state of a transaction according to records of the InnoDB log.
EngineState(t, records) ==
    LET of(kind) == [trx |-> t, kind |-> kind] \in Elems(records)
    IN  CASE of("commit") -> "committed"
          [] of("rollback") /\ ~of("commit") -> "rolledback"
          [] of("prepare") /\ ~of("commit") /\ ~of("rollback") -> "prepared"
          [] OTHER -> "active"

Last == Len(binlog)

Goto(s, where) == pc' = [pc EXCEPT ![s] = where]

At(s, where) == server = "up" /\ pc[s] = where

Logs(t, kind) == redo' = Append(redo, [trx |-> t, kind |-> kind])

-----------------------------------------------------------------------------
(* ha_commit_trans *)

\* ht->prepare: innobase_xa_prepare writes and flushes the prepare record, or
\* fails; binlog_prepare does nothing.
innobase_xa_prepare(t) ==
    /\ At(t, "idle")
    /\ Goto(t, "prepared")
    /\ \/ /\ Logs(t, "prepare") /\ flushed' = Len(redo) + 1
          /\ UNCHANGED failed
       \/ /\ "prepare" \in Failures
          /\ failed' = failed \union {t}
          /\ UNCHANGED engine
    /\ UNCHANGED <<server, outcome, prepare_commit_mutex, owns_prepare_mutex,
                   LOCK_log, prepared_xids, files, crashes>>

\* Faulty variant of TakePrepareCommitMutex: the next transaction may log its
\* xid before this one has committed.
NoPrepareCommitMutex(t) ==
    /\ At(t, "prepared")
    /\ Goto(t, IF t \in failed THEN "rollback" ELSE "log_xid")
    /\ UNCHANGED <<server, outcome, failed, prepare_commit_mutex,
                   owns_prepare_mutex, LOCK_log, prepared_xids, engine, files,
                   crashes>>

\* The end of innobase_xa_prepare: the mutex is taken whatever the result was.
\* log_xid begins with the statement cache, which a transaction that changed
\* only InnoDB tables has left empty.
TakePrepareCommitMutex(t) ==
    /\ At(t, "prepared") /\ prepare_commit_mutex = None
    /\ prepare_commit_mutex' = t
    /\ owns_prepare_mutex' = owns_prepare_mutex \union {t}
    /\ \E cache \in {"stmt", "log_xid"} :
          Goto(t, IF t \in failed THEN "rollback" ELSE cache)
    /\ UNCHANGED <<server, outcome, failed, LOCK_log, prepared_xids, engine,
                   files, crashes>>

\* binlog_commit_flush_stmt_cache: MYSQL_BIN_LOG::write with a COMMIT event,
\* which counts no xid.  The file may be too long now, and is then rotated
\* under LOCK_log and, here, under prepare_commit_mutex.  An error ends log_xid.
FlushStmtCache(t) ==
    /\ At(t, "stmt") /\ LOCK_log = None
    /\ \/ /\ synced' = Len(binlog[Last])
          /\ Goto(t, "log_xid")
          /\ UNCHANGED LOCK_log
       \/ /\ Last < MaxFiles
          /\ synced' = Len(binlog[Last])
          /\ LOCK_log' = t
          /\ Goto(t, "new_file")
       \/ /\ Failures \cap {"write", "sync"} # {}
          /\ synced' \in {synced, Len(binlog[Last])}
          /\ Goto(t, "rollback")
          /\ UNCHANGED LOCK_log
    /\ UNCHANGED <<server, outcome, failed, prepare_commit_mutex,
                   owns_prepare_mutex, prepared_xids, engine, binlog, in_use,
                   crashes>>

\* TC_LOG_BINLOG::log_xid: binlog_flush_cache skips an empty cache and reports
\* success; otherwise MYSQL_BIN_LOG::write takes LOCK_log.
log_xid(t) ==
    /\ At(t, "log_xid")
    /\ \/ /\ t \in Empty
          /\ Goto(t, "commit")
          /\ UNCHANGED LOCK_log
       \/ /\ t \notin Empty /\ LOCK_log = None
          /\ LOCK_log' = t
          /\ Goto(t, "write")
    /\ UNCHANGED <<server, outcome, failed, prepare_commit_mutex,
                   owns_prepare_mutex, prepared_xids, engine, files, crashes>>

\* MYSQL_BIN_LOG::write: the cache and the Xid_log_event are written, or not.
WriteXid(t) ==
    /\ At(t, "write")
    /\ \/ /\ binlog' = [binlog EXCEPT ![Last] = Append(@, t)]
          /\ Goto(t, "sync")
          /\ UNCHANGED LOCK_log
       \/ /\ "write" \in Failures
          /\ LOCK_log' = None
          /\ Goto(t, "rollback")
          /\ UNCHANGED binlog
    /\ UNCHANGED <<server, outcome, failed, prepare_commit_mutex,
                   owns_prepare_mutex, prepared_xids, engine, synced, in_use,
                   crashes>>

\* The rest of MYSQL_BIN_LOG::write: flush_and_sync and the after_flush hook,
\* each of which may fail, the latter with the file synced; the xid is counted
\* and LOCK_log released.
SyncXid(t) ==
    /\ At(t, "sync")
    /\ LOCK_log' = None
    /\ \/ /\ synced' = Len(binlog[Last])
          /\ prepared_xids' = prepared_xids + 1
          /\ Goto(t, "commit")
       \/ /\ "sync" \in Failures
          /\ synced' \in {synced, Len(binlog[Last])}
          /\ Goto(t, "rollback")
          /\ UNCHANGED prepared_xids
    /\ UNCHANGED <<server, outcome, failed, prepare_commit_mutex,
                   owns_prepare_mutex, engine, binlog, in_use, crashes>>

\* ha_rollback_trans: innobase_rollback rolls back without a flush, and
\* trx_deregister_from_2pc forgets the ownership of the mutex.
innobase_rollback(t) ==
    /\ At(t, "rollback")
    /\ Logs(t, "rollback")
    /\ owns_prepare_mutex' = owns_prepare_mutex \ {t}
    /\ outcome' = [outcome EXCEPT ![t] = "abort"]
    /\ Goto(t, "done")
    /\ UNCHANGED <<server, failed, prepare_commit_mutex, LOCK_log,
                   prepared_xids, flushed, files, crashes>>

\* ha_commit_one_phase: innobase_commit commits in memory and lets the next
\* transaction pass.
innobase_commit(t) ==
    /\ At(t, "commit")
    /\ Logs(t, "commit")
    /\ prepare_commit_mutex' =
          IF t \in owns_prepare_mutex THEN None ELSE prepare_commit_mutex
    /\ owns_prepare_mutex' = owns_prepare_mutex \ {t}
    /\ Goto(t, "flush")
    /\ UNCHANGED <<server, outcome, failed, LOCK_log, prepared_xids, flushed,
                   files, crashes>>

\* trx_commit_complete_for_mysql flushes the log, with all that is in it.
trx_commit_complete(t) ==
    /\ At(t, "flush")
    /\ flushed' = Len(redo)
    /\ Goto(t, "unlog")
    /\ UNCHANGED <<server, outcome, failed, prepare_commit_mutex,
                   owns_prepare_mutex, LOCK_log, prepared_xids, redo, files,
                   crashes>>

\* Faulty variant of Signalled: nobody is told that the counter is 0.
NotSignalled(count) == pc

\* The signal of COND_prep_xids when the counter is 0.
Signalled(count) ==
    [s \in Session |-> IF pc[s] = "wait" /\ count = 0 THEN "new_file"
                                                      ELSE pc[s]]

\* TC_LOG_BINLOG::unlog up to the call of rotate_and_purge.
unlog(t) ==
    LET count == IF prepared_xids > 0 THEN prepared_xids - 1 ELSE 0
    IN  /\ At(t, "unlog")
        /\ prepared_xids' = count
        /\ pc' = [Signalled(count) EXCEPT ![t] = "rotate"]
        /\ UNCHANGED <<server, outcome, failed, prepare_commit_mutex,
                       owns_prepare_mutex, LOCK_log, engine, files, crashes>>

-----------------------------------------------------------------------------
(* Rotation *)

\* The caller has finished: ha_commit_trans returns 0 to the client.
Finished(s) ==
    /\ outcome' = [t \in Txn |-> IF t = s THEN "commit" ELSE outcome[t]]
    /\ Goto(s, "done")

\* The rotation returns to its caller.  A transaction that still owns
\* prepare_commit_mutex called it from log_xid, and goes on there.
Return(s) == IF s \in owns_prepare_mutex
             THEN Goto(s, "log_xid") /\ UNCHANGED outcome
             ELSE Finished(s)

\* FLUSH LOGS.
FlushLogs(s) ==
    /\ s \in Flushers /\ At(s, "idle")
    /\ Goto(s, "rotate")
    /\ UNCHANGED <<server, outcome, failed, prepare_commit_mutex,
                   owns_prepare_mutex, LOCK_log, prepared_xids, engine, files,
                   crashes>>

\* rotate_and_purge: under LOCK_log, a transaction finds the file too long or
\* not, FLUSH LOGS does not ask.
rotate_and_purge(s) ==
    /\ At(s, "rotate") /\ LOCK_log = None
    /\ \/ /\ s \in Txn
          /\ Finished(s)
          /\ UNCHANGED LOCK_log
       \/ /\ s \in Txn => Last < MaxFiles
          /\ LOCK_log' = s
          /\ Goto(s, "new_file")
          /\ UNCHANGED outcome
    /\ UNCHANGED <<server, failed, prepare_commit_mutex, owns_prepare_mutex,
                   prepared_xids, engine, files, crashes>>

\* Faulty variant of new_file_impl: the rotation does not wait.
NewFileAtOnce(s) ==
    /\ At(s, "new_file")
    /\ Goto(s, "close")
    /\ UNCHANGED <<server, outcome, failed, prepare_commit_mutex,
                   owns_prepare_mutex, LOCK_log, prepared_xids, engine, files,
                   crashes>>

\* new_file_impl: wait until all xids of this file are unlogged.
new_file_impl(s) ==
    /\ At(s, "new_file")
    /\ Goto(s, IF prepared_xids = 0 THEN "close" ELSE "wait")
    /\ UNCHANGED <<server, outcome, failed, prepare_commit_mutex,
                   owns_prepare_mutex, LOCK_log, prepared_xids, engine, files,
                   crashes>>

\* MYSQL_BIN_LOG::close clears the flag of the old file and syncs it.
CloseOldFile(s) ==
    /\ At(s, "close")
    /\ in_use' = FALSE
    /\ synced' = Len(binlog[Last])
    /\ Goto(s, "open")
    /\ UNCHANGED <<server, outcome, failed, prepare_commit_mutex,
                   owns_prepare_mutex, LOCK_log, prepared_xids, engine, binlog,
                   crashes>>

\* MYSQL_BIN_LOG::open creates the new file and adds it to the index.
OpenNewFile(s) ==
    /\ At(s, "open")
    /\ binlog' = Append(binlog, <<>>)
    /\ synced' = 0
    /\ in_use' = TRUE
    /\ LOCK_log' = None
    /\ Return(s)
    /\ UNCHANGED <<server, failed, prepare_commit_mutex, owns_prepare_mutex,
                   prepared_xids, engine, crashes>>

-----------------------------------------------------------------------------
(* Crash and recovery *)

\* The server dies and is started again; it may die again in the recovery.
Crash ==
    /\ crashes < MaxCrashes
    /\ crashes' = crashes + 1
    /\ server' = "recover"
    /\ \E n \in flushed .. Len(redo) :
          redo' = SubSeq(redo, 1, n) /\ flushed' = n
    /\ \E n \in synced .. Len(binlog[Last]) :
          binlog' = [binlog EXCEPT ![Last] = SubSeq(@, 1, n)] /\ synced' = n
    /\ pc' = [s \in Session |-> IF pc[s] \in {"idle", "done"} THEN pc[s]
                                                              ELSE "dead"]
    /\ prepare_commit_mutex' = None /\ owns_prepare_mutex' = {}
    /\ LOCK_log' = None /\ prepared_xids' = 0 /\ failed' = {}
    /\ UNCHANGED <<outcome, in_use>>

\* Faulty variant of CommitList: the flag is not trusted, and not needed.
NoCommitList == {}

\* TC_LOG_BINLOG::open and recover: the xids in the last file, if it was not
\* closed.  Without a list, ha_recover(0) rolls everything back.
CommitList == IF in_use THEN Elems(binlog[Last]) ELSE {}

\* xarecover_handlerton: one prepared transaction of the engine.
xarecover(t) ==
    /\ server = "recover" /\ EngineState(t, redo) = "prepared"
    /\ Logs(t, IF t \in CommitList THEN "commit" ELSE "rollback")
    /\ flushed' = Len(redo) + 1
    /\ UNCHANGED <<server, pc, outcome, failed, prepare_commit_mutex,
                   owns_prepare_mutex, LOCK_log, prepared_xids, files, crashes>>

\* The end of the recovery: mysqld opens a new file of the binary log.
OpenAfterRecovery ==
    /\ server = "recover"
    /\ \A t \in Txn : EngineState(t, redo) # "prepared"
    /\ server' = "up"
    /\ binlog' = Append(binlog, <<>>)
    /\ synced' = 0
    /\ in_use' = TRUE
    /\ UNCHANGED <<pc, outcome, failed, prepare_commit_mutex,
                   owns_prepare_mutex, LOCK_log, prepared_xids, engine, crashes>>

-----------------------------------------------------------------------------
Rotation(s) == \/ rotate_and_purge(s) \/ new_file_impl(s)
               \/ CloseOldFile(s) \/ OpenNewFile(s)

Commit(t) == \/ TakePrepareCommitMutex(t) \/ FlushStmtCache(t) \/ log_xid(t)
             \/ WriteXid(t) \/ SyncXid(t) \/ innobase_rollback(t)
             \/ innobase_commit(t) \/ trx_commit_complete(t) \/ unlog(t)

Recovery == OpenAfterRecovery \/ \E t \in Txn : xarecover(t)

Next == \/ \E t \in Txn : innobase_xa_prepare(t) \/ Commit(t)
        \/ \E s \in Session : FlushLogs(s) \/ Rotation(s)
        \/ Crash \/ Recovery

Spec == Init /\ [][Next]_vars

\* The operating system schedules every session that can run; a mutex that is
\* free again and again is obtained in the end.
Fairness ==
    /\ \A t \in Txn : SF_vars(Commit(t))
    /\ \A s \in Session : SF_vars(Rotation(s))
    /\ WF_vars(Recovery)

FairSpec == Spec /\ Fairness

-----------------------------------------------------------------------------
(* Properties *)

\* The entries of the binary log that survive a crash.
Durable(t) ==
    \E f \in 1 .. Last : \E i \in 1 .. Len(binlog[f]) :
        binlog[f][i] = t /\ (f = Last => i <= synced)

DurableState(t) == EngineState(t, SubSeq(redo, 1, flushed))

\* The log decides: a transaction is committed when it is in the binary log,
\* or, if it has nothing to write there, when the engine has committed it.
Decision(t) ==
    CASE Durable(t) \/ (t \in Empty /\ DurableState(t) = "committed") -> "commit"
      [] ~Durable(t) /\ (outcome[t] = "abort" \/ pc[t] = "dead") -> "abort"
      [] OTHER -> "none"

Applied(t) == CASE DurableState(t) = "committed" -> "commit"
                [] DurableState(t) = "rolledback" -> "abort"
                [] OTHER -> "none"

AC == INSTANCE AtomicCommit WITH decision <- [t \in Txn |-> Decision(t)],
                                 reply <- outcome,
                                 applied <- [t \in Txn |-> Applied(t)]

\* The refinement: what ha_commit_trans answers, what the binary log holds and
\* what InnoDB has durably done agree for every transaction and stay so,
\* whatever crashes, rotations and failing writes come between the steps of
\* ha_commit_trans, TC_LOG_BINLOG and ha_recover.
AtomicCommitSpec == AC!Spec

\* What the rotation waits for in new_file_impl: a transaction that is in the
\* binary log and still only prepared in the durable log of InnoDB is in the
\* last file, and that file is marked as in use, for recover to find it.
PreparedInLastFile ==
    \A t \in Txn : (\E f \in 1 .. Last : t \in Elems(binlog[f]))
                   /\ DurableState(t) = "prepared"
                   => in_use /\ t \in Elems(binlog[Last])

\* What recovery relies on when it reads the last binary log only: no prepared
\* transaction has its xid in an older file, and the count of prepared xids,
\* the flushed part of the redo log and the synced part of the file are sane.
LogsConsistent == TypeOK /\ PreparedInLastFile

\* What prepare_commit_mutex is for: InnoDB has committed a prefix of the
\* binary log, so that a backup of its log matches a position in the binary
\* log (innobase_xa_prepare to innobase_commit).
PrefixCommitted ==
    LET committed(f, i) == EngineState(binlog[f][i], redo) = "committed"
    IN  server = "up" =>
          \A f, g \in 1 .. Last :
             \A i \in 1 .. Len(binlog[f]), j \in 1 .. Len(binlog[g]) :
                (f < g \/ (f = g /\ i < j)) /\ committed(g, j) => committed(f, i)

\* A transaction that is over does not hold prepare_commit_mutex: the mutex
\* taken in prepare is released on every way out of ha_commit_trans.
MutexGivenBack ==
    prepare_commit_mutex # None => pc[prepare_commit_mutex] # "done"

\* Every COMMIT that has begun, and every FLUSH LOGS, comes to its end although
\* the rotation holds LOCK_log while it waits for the prepared transactions,
\* which themselves need LOCK_log after they have decremented the counter.  The
\* exception is a prepare_commit_mutex that an earlier, failed commit has kept.
CommitReturns ==
    \A s \in Session :
        pc[s] # "idle" ~> pc[s] \in {"done", "dead"} \/ ~MutexGivenBack
=============================================================================
