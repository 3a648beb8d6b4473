------------------------------ MODULE SemiSync ------------------------------
(***************************************************************************)
(* The master side of semisynchronous replication                          *)
(* (plugin/semisync/semisync_master.cc): ReplSemiSyncMaster with its       *)
(* ActiveTranx list, called by the sessions that commit, by the binlog     *)
(* dump threads that serve the slaves and by SET GLOBAL and RESET MASTER.  *)
(*                                                                         *)
(* Every method runs in one critical section of LOCK_binlog_, so it is one *)
(* action, except where the code leaves the mutex: commitTrx sleeps on     *)
(* COND_binlog_send_, and reportReplyBinlog broadcasts after its unlock.   *)
(* A binary log position is a number, the end of the transaction that was  *)
(* written as the n-th one; 0 is the start of the log.  The slaves and the *)
(* log itself are outside the plugin and are kept as far as it sees them.  *)
(***************************************************************************)
EXTENDS Integers, Sequences, FiniteSets

CONSTANTS Sessions,     \* client sessions that commit
          Slaves,       \* semisync slaves, each served by a dump thread
          MaxPos,       \* bound: transactions written to one log
          Wrap,         \* the first position in a log file whose number has
                        \* one digit more than those before it
          WaitNoSlave,  \* the values that SET GLOBAL may give to
                        \* rpl_semi_sync_master_wait_no_slave
          Timeouts,     \* whether rpl_semi_sync_master_timeout may pass
          MaxToggles,   \* bound: SET GLOBAL rpl_semi_sync_master_enabled
          MaxDrops,     \* bound: connections to slaves that break
          MaxResets,    \* bound: RESET MASTER statements
          Ulong,        \* one more than the largest unsigned long
          NULL          \* active_tranxs_ while the plugin is disabled

ASSUME SemiSyncAssumption ==
    /\ IsFiniteSet(Sessions) /\ IsFiniteSet(Slaves)
    /\ MaxPos \in Nat /\ Wrap \in Nat
    /\ MaxToggles \in Nat /\ MaxDrops \in Nat /\ MaxResets \in Nat
    /\ Ulong \in Nat /\ Ulong > 1 /\ Cardinality(Sessions) < Ulong
    /\ WaitNoSlave \in SUBSET BOOLEAN /\ WaitNoSlave # {}
    /\ Timeouts \in BOOLEAN
    /\ NULL \notin Seq(Nat)

VARIABLES master_enabled, state, active_tranxs,
          reply_file, wait_file, commit_file,   \* [inited, pos]
          wait_sessions, clients,
          aborted,      \* the assertion that stopped the server, or "no"
          pc, pos, outcome,     \* sessions: where, position waited for, result
          dump, sent, rpos, recv,   \* dump threads: where, last event sent,
                                    \* reply being reported, slave's progress
                                    \* (sent is 0 while the thread is down,
                                    \* rpos while it reports nothing)
          logEnd, resetting,    \* end of the log; RESET MASTER between the
                                \* reset of the log and the plugin's hook
          toggles, drops, resets

plugin   == <<master_enabled, state, active_tranxs, reply_file, wait_file,
              commit_file, wait_sessions, clients, aborted>>
sessions == <<pc, pos, outcome>>
slaves   == <<dump, sent, rpos, recv>>
log      == <<logEnd, resetting>>
bounds   == <<toggles, drops, resets>>
vars     == <<plugin, sessions, slaves, log, bounds>>

Position == 0 .. MaxPos
File     == [inited : BOOLEAN, pos : Position]
NoPos    == [inited |-> FALSE, pos |-> 0]

TypeOK ==
    /\ master_enabled \in BOOLEAN /\ state \in BOOLEAN
    /\ \/ active_tranxs = NULL
       \/ active_tranxs \in Seq(Position) /\ Len(active_tranxs) <= MaxPos
    /\ reply_file \in File /\ wait_file \in File /\ commit_file \in File
    /\ wait_sessions \in 0 .. Ulong - 1
    /\ clients \in 0 .. Cardinality(Slaves)
    /\ aborted \in {"no", "commitTrx", "switch_off"}
    /\ pc \in [Sessions ->
                {"idle", "written", "enter", "sleeping", "woken", "timedout"}]
    /\ pos \in [Sessions -> Position]
    /\ outcome \in [Sessions -> {"none", "skipped", "yes", "no"}]
    /\ dump \in [Slaves -> {"down", "idle", "await", "report", "broadcast",
                            "broken"}]
    /\ sent \in [Slaves -> Position] /\ rpos \in [Slaves -> Position]
    /\ recv \in [Slaves -> Position]
    /\ logEnd \in Position /\ resetting \in BOOLEAN
    /\ toggles \in 0 .. MaxToggles /\ drops \in 0 .. MaxDrops
    /\ resets \in 0 .. MaxResets

Init ==
    /\ master_enabled = TRUE /\ state = TRUE /\ active_tranxs = <<>>
    /\ reply_file = NoPos /\ wait_file = NoPos /\ commit_file = NoPos
    /\ wait_sessions = 0 /\ clients = 0 /\ aborted = "no"
    /\ pc = [s \in Sessions |-> "idle"]
    /\ pos = [s \in Sessions |-> 0]
    /\ outcome = [s \in Sessions |-> "none"]
    /\ dump = [d \in Slaves |-> "down"]
    /\ sent = [d \in Slaves |-> 0] /\ rpos = [d \in Slaves |-> 0]
    /\ recv = [d \in Slaves |-> 0]
    /\ logEnd = 0 /\ resetting = FALSE
    /\ toggles = 0 /\ drops = 0 /\ resets = 0

-----------------------------------------------------------------------------
(* ActiveTranx *)

\* compare(a, b) >= 0.  File names are compared with strcmp, so the name that
\* is one digit longer, and starts with 1, comes before those that start with 9.
AtLeast(a, b) == IF (a < Wrap) = (b < Wrap) THEN a >= b ELSE a < Wrap

\* insert_tranx_node succeeds on an empty list and behind the rear of the list.
CanInsert(p) ==
    \A rear \in {Len(active_tranxs)} \ {0} : ~AtLeast(active_tranxs[rear], p)

\* clear_active_tranx_nodes frees the nodes in front of the first one that is
\* behind p.
ClearUpTo(list, p) ==
    LET kept == {i \in 1 .. Len(list) : ~AtLeast(p, list[i])}
    IN  IF kept = {} THEN <<>>
        ELSE SubSeq(list, CHOOSE i \in kept : \A j \in kept : i <= j, Len(list))

is_tranx_end_pos(p) ==
    \E i \in 1 .. Len(active_tranxs) : active_tranxs[i] = p

-----------------------------------------------------------------------------
(* ReplSemiSyncMaster *)

Running == aborted = "no"

Uninit(f) == [f EXCEPT !.inited = FALSE]

\* cond_broadcast: whoever sleeps on COND_binlog_send_ returns from the wait
\* once it gets the mutex back.
AllWoken == [s \in Sessions |-> IF pc[s] = "sleeping" THEN "woken" ELSE pc[s]]

\* switch_off, whose assertion fails when there is no list.
switch_off ==
    IF active_tranxs = NULL
    THEN /\ aborted' = "switch_off"
         /\ UNCHANGED <<state, active_tranxs, wait_file, reply_file>>
    ELSE /\ state' = FALSE
         /\ active_tranxs' = <<>>
         /\ wait_file' = Uninit(wait_file)
         /\ reply_file' = Uninit(reply_file)
         /\ UNCHANGED aborted

enableMaster ==
    /\ Running /\ ~master_enabled /\ toggles < MaxToggles
    /\ toggles' = toggles + 1
    /\ active_tranxs' = <<>>
    /\ commit_file' = Uninit(commit_file)
    /\ reply_file' = Uninit(reply_file)
    /\ wait_file' = Uninit(wait_file)
    /\ master_enabled' = TRUE
    /\ state' = TRUE
    /\ UNCHANGED <<wait_sessions, clients, aborted, sessions, slaves, log,
                   drops, resets>>

disableMaster ==
    /\ Running /\ master_enabled /\ toggles < MaxToggles
    /\ toggles' = toggles + 1
    /\ state' = FALSE
    /\ active_tranxs' = NULL
    /\ reply_file' = Uninit(reply_file)
    /\ wait_file' = Uninit(wait_file)
    /\ commit_file' = Uninit(commit_file)
    /\ master_enabled' = FALSE
    /\ pc' = AllWoken
    /\ UNCHANGED <<wait_sessions, clients, aborted, pos, outcome, slaves, log,
                   drops, resets>>

\* RESET MASTER truncates the log and then runs the plugin's hook.  The slaves
\* are expected to be stopped and start again from the beginning.
reset_logs ==
    /\ Running /\ resets < MaxResets /\ ~resetting
    /\ \A d \in Slaves : dump[d] = "down"
    /\ resets' = resets + 1
    /\ resetting' = TRUE
    /\ logEnd' = 0
    /\ recv' = [d \in Slaves |-> 0]
    /\ UNCHANGED <<plugin, sessions, dump, sent, rpos, toggles, drops>>

\* Faulty variant of resetMaster: the last reply is not forgotten.
resetMasterKeepsReply ==
    /\ Running /\ resetting
    /\ resetting' = FALSE
    /\ state' = master_enabled
    /\ wait_file' = Uninit(wait_file)
    /\ commit_file' = Uninit(commit_file)
    /\ wait_sessions' = 0
    /\ UNCHANGED <<master_enabled, active_tranxs, reply_file, clients, aborted,
                   sessions, slaves, logEnd, bounds>>

resetMaster ==
    /\ Running /\ resetting
    /\ resetting' = FALSE
    /\ state' = master_enabled
    /\ wait_file' = Uninit(wait_file)
    /\ reply_file' = Uninit(reply_file)
    /\ commit_file' = Uninit(commit_file)
    /\ wait_sessions' = 0
    /\ UNCHANGED <<master_enabled, active_tranxs, clients, aborted, sessions,
                   slaves, logEnd, bounds>>

-----------------------------------------------------------------------------
(* Sessions: the transaction is written to the binary log, with the hook    *)
(* after_flush under LOCK_log; it commits in the engines; after_commit      *)
(* calls commitTrx with the position that after_flush remembered.           *)

writeTranxInBinlog(s) ==
    LET p == logEnd + 1
    IN  /\ Running /\ pc[s] = "idle" /\ logEnd < MaxPos
        /\ logEnd' = p
        /\ pc' = IF master_enabled /\ state /\ ~CanInsert(p)
                 THEN [AllWoken EXCEPT ![s] = "written"]
                 ELSE [pc EXCEPT ![s] = "written"]
        /\ pos' = [pos EXCEPT ![s] = p]
        /\ outcome' = [outcome EXCEPT ![s] = "none"]
        /\ commit_file' =
              IF master_enabled
                 /\ (~commit_file.inited \/ ~AtLeast(commit_file.pos, p))
              THEN [inited |-> TRUE, pos |-> p]
              ELSE commit_file
        /\ \/ /\ ~(master_enabled /\ state)
              /\ UNCHANGED <<state, active_tranxs, wait_file, reply_file,
                             aborted>>
           \/ /\ master_enabled /\ state /\ CanInsert(p)
              /\ active_tranxs' = Append(active_tranxs, p)
              /\ UNCHANGED <<state, wait_file, reply_file, aborted>>
           \/ /\ master_enabled /\ state /\ ~CanInsert(p)
              /\ switch_off
        /\ UNCHANGED <<master_enabled, wait_sessions, clients, slaves,
                       resetting, bounds>>

\* commitTrx: the test of the flag before the mutex is taken.
commitTrxEnter(s) ==
    /\ Running /\ pc[s] = "written"
    /\ IF master_enabled
       THEN pc' = [pc EXCEPT ![s] = "enter"] /\ UNCHANGED outcome
       ELSE /\ pc' = [pc EXCEPT ![s] = "idle"]
            /\ outcome' = [outcome EXCEPT ![s] = "skipped"]
    /\ UNCHANGED <<plugin, pos, slaves, log, bounds>>

\* Faulty variant of Replied: the minimum of all waiters is compared.
MinimumReplied(s) ==
    reply_file.inited /\ AtLeast(reply_file.pos, wait_file.pos)

Replied(s) == reply_file.inited /\ AtLeast(reply_file.pos, pos[s])

\* l_end of commitTrx: the assertion on the active list, which is read through
\* a pointer that is NULL once the plugin is disabled, and the counters.
LEnd(s) ==
    /\ aborted' = IF active_tranxs = NULL THEN "commitTrx"
                  ELSE IF is_tranx_end_pos(pos[s]) THEN "commitTrx" ELSE "no"
    /\ outcome' = [outcome EXCEPT ![s] = IF state THEN "yes" ELSE "no"]

\* Faulty variant of Round: the wait position follows the last waiter.
RoundLast(s, count) ==
    IF ~state \/ Replied(s)
    THEN /\ LEnd(s)
         /\ pc' = [pc EXCEPT ![s] = "idle"]
         /\ wait_sessions' = count
         /\ UNCHANGED wait_file
    ELSE /\ wait_file' = [inited |-> TRUE, pos |-> pos[s]]
         /\ wait_sessions' = (count + 1) % Ulong
         /\ pc' = [pc EXCEPT ![s] = "sleeping"]
         /\ UNCHANGED <<outcome, aborted>>

\* One round of the loop of commitTrx, with count sessions waiting before it.
Round(s, count) ==
    IF ~state \/ Replied(s)
    THEN /\ LEnd(s)
         /\ pc' = [pc EXCEPT ![s] = "idle"]
         /\ wait_sessions' = count
         /\ UNCHANGED wait_file
    ELSE /\ wait_file' =
               IF wait_file.inited /\ ~AtLeast(wait_file.pos, pos[s])
               THEN wait_file
               ELSE [inited |-> TRUE, pos |-> pos[s]]
         /\ wait_sessions' = (count + 1) % Ulong
         /\ pc' = [pc EXCEPT ![s] = "sleeping"]
         /\ UNCHANGED <<outcome, aborted>>

LessOne == (wait_sessions - 1 + Ulong) % Ulong

commitTrxLock(s) ==
    /\ Running /\ pc[s] = "enter"
    /\ Round(s, wait_sessions)
    /\ UNCHANGED <<master_enabled, state, active_tranxs, reply_file,
                   commit_file, clients, pos, slaves, log, bounds>>

\* The wait returns 0: after a broadcast, or because KILL signalled the session.
commitTrxWoken(s) ==
    /\ Running /\ pc[s] \in {"woken", "sleeping"}
    /\ Round(s, LessOne)
    /\ UNCHANGED <<master_enabled, state, active_tranxs, reply_file,
                   commit_file, clients, pos, slaves, log, bounds>>

\* The time of the wait is over, but the mutex is still to be had.
TimerExpires(s) ==
    /\ Running /\ Timeouts /\ pc[s] = "sleeping"
    /\ pc' = [pc EXCEPT ![s] = "timedout"]
    /\ UNCHANGED <<plugin, pos, outcome, slaves, log, bounds>>

\* The wait returns ETIMEDOUT: switch_off empties the active list, so that
\* the loop ends and the assertion at l_end holds.
commitTrxTimedOut(s) ==
    /\ Running /\ pc[s] = "timedout"
    /\ wait_sessions' = LessOne
    /\ switch_off
    /\ pc' = [AllWoken EXCEPT ![s] = "idle"]
    /\ outcome' = [outcome EXCEPT ![s] = "no"]
    /\ UNCHANGED <<master_enabled, commit_file, clients, pos, slaves, log,
                   bounds>>

-----------------------------------------------------------------------------
(* Dump threads *)

\* repl_semi_binlog_dump_start: add_slave, and then the position that the
\* slave asks for is reported as a reply.
add_slave(d) ==
    /\ Running /\ dump[d] = "down" /\ ~resetting
    /\ clients' = clients + 1
    /\ dump' = [dump EXCEPT ![d] = "report"]
    /\ rpos' = [rpos EXCEPT ![d] = recv[d]]
    /\ sent' = [sent EXCEPT ![d] = recv[d]]
    /\ UNCHANGED <<master_enabled, state, active_tranxs, reply_file, wait_file,
                   commit_file, wait_sessions, aborted, sessions, recv, log,
                   bounds>>

\* try_switch_on, as the new value of state_.
try_switch_on(p) == ~commit_file.inited \/ AtLeast(p, commit_file.pos)

\* reportReplyBinlog up to its unlock.
reportReplyBinlog(d) ==
    LET p        == rpos[d]
        copy     == ~reply_file.inited \/ AtLeast(p, reply_file.pos)
        replied  == IF copy THEN p ELSE reply_file.pos
        release  == wait_sessions > 0 /\ AtLeast(replied, wait_file.pos)
    IN  /\ Running /\ dump[d] = "report"
        /\ IF master_enabled
           THEN /\ state' = (state \/ try_switch_on(p))
                /\ reply_file' = IF copy THEN [inited |-> TRUE, pos |-> p]
                                         ELSE reply_file
                /\ active_tranxs' = IF copy THEN ClearUpTo(active_tranxs, p)
                                            ELSE active_tranxs
                /\ wait_file' = IF release THEN Uninit(wait_file) ELSE wait_file
                /\ dump' = [dump EXCEPT ![d] =
                                IF release THEN "broadcast" ELSE "idle"]
           ELSE /\ dump' = [dump EXCEPT ![d] = "idle"]
                /\ UNCHANGED <<state, reply_file, active_tranxs, wait_file>>
        /\ rpos' = [rpos EXCEPT ![d] = 0]
        /\ UNCHANGED <<master_enabled, commit_file, wait_sessions, clients,
                       aborted, sessions, sent, recv, log, bounds>>

\* The cond_broadcast of reportReplyBinlog, behind its unlock.
reportReplyBroadcast(d) ==
    /\ Running /\ dump[d] = "broadcast"
    /\ dump' = [dump EXCEPT ![d] = "idle"]
    /\ pc' = AllWoken
    /\ UNCHANGED <<plugin, pos, outcome, sent, rpos, recv, log, bounds>>

\* Faulty variant of SyncFlag: an event at the wait position is not enough.
SyncFlagStrict(p) ==
    /\ master_enabled
    /\ IF state
       THEN /\ ~(reply_file.inited /\ AtLeast(reply_file.pos, p))
            /\ ~wait_file.inited \/ ~AtLeast(wait_file.pos, p)
            /\ is_tranx_end_pos(p)
       ELSE ~commit_file.inited \/ AtLeast(p, commit_file.pos)

\* Faulty variant of SyncFlag: nothing is asked while semisync is off.
SyncFlagOnly(p) ==
    /\ master_enabled /\ state
    /\ ~(reply_file.inited /\ AtLeast(reply_file.pos, p))
    /\ ~wait_file.inited \/ AtLeast(p, wait_file.pos)
    /\ is_tranx_end_pos(p)

\* updateSyncHeader: whether the slave is asked to reply to the event that
\* ends at p.
SyncFlag(p) ==
    /\ master_enabled
    /\ IF state
       THEN /\ ~(reply_file.inited /\ AtLeast(reply_file.pos, p))
            /\ ~wait_file.inited \/ AtLeast(p, wait_file.pos)
            /\ is_tranx_end_pos(p)
       ELSE ~commit_file.inited \/ AtLeast(p, commit_file.pos)

\* The dump thread sends the next event of the log, and waits in
\* readSlaveReply when it asked for a reply.
updateSyncHeader(d) ==
    LET p == sent[d] + 1
    IN  /\ Running /\ dump[d] = "idle" /\ sent[d] < logEnd
        /\ sent' = [sent EXCEPT ![d] = p]
        /\ dump' = [dump EXCEPT ![d] = IF SyncFlag(p) THEN "await" ELSE "idle"]
        /\ UNCHANGED <<plugin, sessions, rpos, recv, log, bounds>>

\* The slave has queued the next event that was sent to it.
SlaveReceives(d) ==
    /\ Running /\ dump[d] # "down" /\ recv[d] < sent[d]
    /\ recv' = [recv EXCEPT ![d] = @ + 1]
    /\ UNCHANGED <<plugin, sessions, dump, sent, rpos, log, bounds>>

\* The reply to the last event arrives: readSlaveReply reports it.
readSlaveReply(d) ==
    /\ Running /\ dump[d] = "await" /\ recv[d] = sent[d]
    /\ dump' = [dump EXCEPT ![d] = "report"]
    /\ rpos' = [rpos EXCEPT ![d] = sent[d]]
    /\ UNCHANGED <<plugin, sessions, sent, recv, log, bounds>>

\* my_net_read fails, because the connection is lost or net_read_timeout is
\* over: the error is ignored, and the dump thread stays and is counted until
\* it sends again.  What was sent may still arrive, the reply is lost.
readSlaveReplyFails(d) ==
    /\ Running /\ dump[d] = "await" /\ drops < MaxDrops
    /\ drops' = drops + 1
    /\ dump' = [dump EXCEPT ![d] = "broken"]
    /\ UNCHANGED <<plugin, sessions, sent, rpos, recv, log, toggles, resets>>

\* Sending an event fails, and with the connection the events on their way are
\* lost: repl_semi_binlog_dump_end calls remove_slave.  On a connection that
\* could not be read any more every sending fails.
remove_slave(d) ==
    /\ Running
    /\ \/ dump[d] = "idle" /\ drops < MaxDrops /\ drops' = drops + 1
       \/ dump[d] = "broken" /\ UNCHANGED drops
    /\ dump' = [dump EXCEPT ![d] = "down"]
    /\ sent' = [sent EXCEPT ![d] = 0]
    /\ clients' = clients - 1
    /\ \E wait_no_slave \in WaitNoSlave :
          IF ~wait_no_slave /\ clients = 1
          THEN switch_off /\ pc' = AllWoken
          ELSE UNCHANGED <<state, active_tranxs, wait_file, reply_file,
                           aborted, pc>>
    /\ UNCHANGED <<master_enabled, commit_file, wait_sessions, pos, outcome,
                   rpos, recv, log, toggles, resets>>

-----------------------------------------------------------------------------
CommitStep(s) == \/ commitTrxEnter(s) \/ commitTrxLock(s)
                 \/ commitTrxWoken(s) \/ commitTrxTimedOut(s)

DumpStep(d) == \/ add_slave(d) \/ reportReplyBinlog(d)
               \/ reportReplyBroadcast(d) \/ updateSyncHeader(d)
               \/ SlaveReceives(d) \/ readSlaveReply(d)

Next == \/ \E s \in Sessions : \/ writeTranxInBinlog(s) \/ TimerExpires(s)
                               \/ CommitStep(s)
        \/ \E d \in Slaves : \/ DumpStep(d) \/ readSlaveReplyFails(d)
                             \/ remove_slave(d)
        \/ enableMaster \/ disableMaster \/ reset_logs \/ resetMaster

Spec == Init /\ [][Next]_vars

\* A session that was woken runs, and so do the dump threads; a slave that was
\* disconnected connects again, which ends the dump thread that still serves
\* its broken connection, and receives what is sent to it.  Nothing says that
\* somebody commits, that a timer expires or that a session is killed.
Fairness ==
    /\ \A s \in Sessions : /\ WF_vars(commitTrxEnter(s))
                           /\ WF_vars(commitTrxLock(s))
                           /\ WF_vars(pc[s] = "woken" /\ commitTrxWoken(s))
                           /\ WF_vars(commitTrxTimedOut(s))
    /\ \A d \in Slaves : /\ WF_vars(DumpStep(d))
                         /\ WF_vars(dump[d] = "broken" /\ remove_slave(d))
    /\ WF_vars(resetMaster)

FairSpec == Spec /\ Fairness

-----------------------------------------------------------------------------
(* Properties *)

\* A transaction that commitTrx counts as semisynchronous (yes_transactions)
\* has been received by a slave.  reply_file is the maximum over the slaves
\* and outlives reconnects, and the waiters share one wait position.  RESET
\* MASTER breaks this: a transaction written to the new log before the hook
\* has run is compared with a reply for the old one (SemiSyncResetCommit.cfg).
YesMeansReceived ==
    resets = 0 =>
        \A s \in Sessions :
            outcome[s] = "yes" => \E d \in Slaves : recv[d] >= pos[s]

\* Nobody sleeps in commitTrx who could go on: as long as a session sleeps and
\* no dump thread is about to broadcast, semisync is on, no reply covers its
\* position, and the next reply that does will find wait_sessions and
\* wait_file_pos_ such that it broadcasts.  (Not after RESET MASTER, which
\* forgets the position that a sleeping session waits for.)
NoLostWakeup ==
    resets = 0 =>
        \A s \in Sessions :
            pc[s] = "sleeping" /\ (\A d \in Slaves : dump[d] # "broadcast") =>
                /\ state /\ ~Replied(s)
                /\ wait_sessions > 0 /\ AtLeast(pos[s], wait_file.pos)

\* wait_file_pos_ is "the smallest position in that file that a trx is waiting
\* for" (semisync_master.h), whenever wait_file_name_inited_ says it is known
\* and no broadcast is on its way.
WaitIsSmallest ==
    \A s \in Sessions :
        /\ pc[s] = "sleeping" /\ wait_file.inited
        /\ \A d \in Slaves : dump[d] # "broadcast"
        => AtLeast(pos[s], wait_file.pos)

\* The list of active transactions is in binlog order, which the search for the
\* nodes to free relies on, and empty while semisync is off; also when RESET
\* MASTER starts the log again under transactions of the old one.
ActiveTranxsSorted ==
    active_tranxs # NULL =>
        /\ \A i, j \in 1 .. Len(active_tranxs) :
              i < j => ~AtLeast(active_tranxs[i], active_tranxs[j])
        /\ ~state => active_tranxs = <<>>

\* No transaction stays in the list that a reply covers: the dump threads would
\* ask for replies that nobody needs, and commitTrx asserts the opposite.  The
\* one exception is the window of RESET MASTER: from the truncation of the log
\* until the hook runs, a transaction of the new log enters the list although
\* the last reply for the old log, which the plugin keeps as long as nobody
\* switches semisync off for want of slaves, covers its position.  The
\* transactions of the old log are pending even then.
ActiveTranxsPending ==
    active_tranxs # NULL /\ reply_file.inited =>
        \A i \in 1 .. Len(active_tranxs) :
            \/ ~AtLeast(reply_file.pos, active_tranxs[i])
            \/ resetting /\ active_tranxs[i] <= logEnd

\* The list of active transactions is sorted, empty while replication is
\* asynchronous, and holds nothing that a slave has acknowledged, up to the new
\* log's transactions while RESET MASTER is between the log and the plugin;
\* the counters of waiting sessions and of slaves stay in range.
ActiveTranxsConsistent == TypeOK /\ ActiveTranxsSorted /\ ActiveTranxsPending

\* The assertion at l_end of commitTrx: "the binlog file and position of this
\* transaction must have been removed from ActiveTranx".
CommitAssertion == aborted # "commitTrx"

\* The assertion of switch_off: active_tranxs_ is not NULL.
SwitchOffAssertion == aborted # "switch_off"

\* insert_tranx_node: a position that is not behind the tail "is an error
\* because the transaction should hold the mysql_bin_log.LOCK_log", which every
\* caller does, so that writeTranxInBinlog never switches semisync off.
WritesInOrder ==
    [][\A s \in Sessions : writeTranxInBinlog(s) => state' = state]_vars

\* Every commit returns even if no timer ever expires: each transaction that
\* waits is covered by an event for which a reply is requested, the reply
\* finds the sleepers, and a lost reply is made up for when the slave
\* connects again.
CommitReturns ==
    \A s \in Sessions : pc[s] = "sleeping" ~> pc[s] = "idle"

\* A slave that is still behind when semisync is switched off brings it back
\* on once it has caught up.
SwitchesBackOn ==
    \A d \in Slaves :
        (~state /\ dump[d] # "down" /\ sent[d] < logEnd) ~> state
=============================================================================
