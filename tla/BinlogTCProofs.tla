--------------------------- MODULE BinlogTCProofs ---------------------------
(***************************************************************************)
(* Atomic commit through the binary log, for any number of transactions,   *)
(* sessions that rotate the log, files and crashes.                        *)
(*                                                                         *)
(* Two things the code does take the guarantee away (see the README) and   *)
(* are excluded by CodeHypothesis: a transaction with an empty cache is    *)
(* unlogged although it was never counted, and a transaction whose xid was *)
(* written but not synced is rolled back.                                  *)
(*                                                                         *)
(* The logs enter the argument only through the sets of transactions that  *)
(* have a record of some kind in them; one lemma for each way in which a   *)
(* log can change says what becomes of the sets.                           *)
(***************************************************************************)
EXTENDS BinlogTC, SequenceTheorems, FiniteSetTheorems, TLAPS

CodeHypothesis == Empty = {} /\ "sync" \notin Failures

-----------------------------------------------------------------------------
(* The logs as sets *)

\* Transactions with a record of this kind among the first n of the redo log.
With(kind, n) ==
  {t \in Txn : \E i \in 1 .. n : redo[i] = [trx |-> t, kind |-> kind]}

Committed  == With("commit", Len(redo))
RolledBack == With("rollback", Len(redo))
Prepared   == With("prepare", Len(redo))

DiskCommitted  == With("commit", flushed)
DiskRolledBack == With("rollback", flushed)
DiskPrepared   == With("prepare", flushed)

\* Transactions in the binary log, in a file before the last, at any place but
\* the very last, and in the part of the last file that may be lost.
Logged   == {t \in Txn : \E f \in 1 .. Last : t \in Elems(binlog[f])}
Older    == {t \in Txn : \E f \in 1 .. Last - 1 : t \in Elems(binlog[f])}
Buried   == {t \in Txn : \E f \in 1 .. Last : \E i \in 1 .. Len(binlog[f]) :
                /\ binlog[f][i] = t
                /\ f < Last \/ i < Len(binlog[f])}
Unsynced == {t \in Txn : \E i \in 1 .. Len(binlog[Last]) :
                binlog[Last][i] = t /\ synced < i}

-----------------------------------------------------------------------------
(* The inductive invariant *)

\* The session replaces the file: called from unlog, or from log_xid when the
\* transaction still owns prepare_commit_mutex.
Rotating == {"new_file", "wait", "close", "open"}

\* What the logs hold of a transaction at each step of ha_commit_trans.
Phase(t) ==
  /\ pc[t] = "idle" => t \notin Prepared \union Committed \union RolledBack
  /\ pc[t] \in {"idle", "prepared", "stmt", "log_xid", "write", "rollback"} =>
       t \notin Logged
  /\ (pc[t] = "prepared" /\ t \notin failed) => t \in DiskPrepared
  /\ pc[t] \in {"stmt", "log_xid", "write"} => t \in DiskPrepared
  /\ pc[t] = "stmt" => t \in owns_prepare_mutex
  /\ pc[t] \in {"sync", "commit"} => t \in Logged
  /\ pc[t] = "sync" => t \notin Committed
  /\ pc[t] = "flush" => t \in Committed
  /\ pc[t] \in {"flush", "unlog", "rotate"} => t \notin owns_prepare_mutex
  /\ pc[t] \in {"unlog", "rotate"} => t \in DiskCommitted
  /\ pc[t] \in Rotating =>
       IF t \in owns_prepare_mutex THEN t \in DiskPrepared /\ t \notin Logged
                                   ELSE t \in DiskCommitted
  /\ outcome[t] = "abort" => pc[t] = "done" /\ t \notin Logged
  /\ outcome[t] = "commit" => pc[t] = "done" /\ t \in DiskCommitted
  /\ pc[t] = "done" => outcome[t] # "none"

Phases == \A t \in Txn : Phase(t)

\* The two logs agree: the binary log decides.
Agree ==
  /\ Committed \subseteq Logged
  /\ Logged \subseteq DiskPrepared
  /\ \A t \in RolledBack : /\ t \notin Logged
                           /\ pc[t] = "dead" \/ outcome[t] = "abort"

\* prepare_commit_mutex is held from prepare to commit, LOCK_log while the
\* binary log is written or replaced.
Held ==
  /\ \A t \in Txn : pc[t] \in {"stmt", "log_xid", "write", "sync", "commit",
                               "rollback"} => prepare_commit_mutex = t
  /\ \A t \in Txn : pc[t] \in Rotating /\ t \in owns_prepare_mutex
                    => prepare_commit_mutex = t
  /\ \A s \in Session : pc[s] \in Rotating \union {"write", "sync"}
                        => LOCK_log = s

\* prepared_xids counts what it should, and is 0 while the file is replaced.
InDoubt == {t \in Txn : pc[t] \in {"commit", "flush", "unlog"}}

Counting ==
  /\ prepared_xids = Cardinality(InDoubt)
  /\ \A s \in Session : pc[s] \in {"close", "open"} => prepared_xids = 0

\* Recovery reads logs that are on disk, and no session runs meanwhile.
Recovering ==
  server = "recover" =>
    /\ flushed = Len(redo)
    /\ \A s \in Session : pc[s] \in {"idle", "done", "dead"}

\* While the server is up, what is not yet committed or not yet flushed is in
\* the hands of a session.
Pending ==
  server = "up" =>
    /\ \A t \in Logged \ Committed : pc[t] \in {"sync", "commit"}
    /\ \A t \in Committed \ DiskCommitted : pc[t] = "flush"
    /\ Buried \subseteq Committed
    /\ in_use \/ \E s \in Session : pc[s] = "open"

\* What is not durably committed is in the last file, and that is marked.
InLastFile == /\ Older \subseteq DiskCommitted
              /\ in_use \/ Logged \subseteq DiskCommitted

\* What a crash may take out of the binary log is not yet promised.
NotPromised == \A t \in Unsynced : pc[t] = "sync"

\* Every crash and every FLUSH LOGS adds one file at most.
Flushed == {s \in Flushers : pc[s] = "done"}

FileCount ==
  /\ \A t \in Txn : pc[t] \in Rotating => Last < MaxFiles
  /\ Last + (IF server = "recover" THEN 1 ELSE 0)
       <= MaxFiles + crashes + Cardinality(Flushed)

IInv == /\ TypeOK /\ Phases /\ Agree /\ Held /\ Counting /\ Recovering
        /\ Pending /\ InLastFile /\ NotPromised /\ FileCount
-----------------------------------------------------------------------------
(* How the sets change with the logs *)

Kinds == {"prepare", "commit", "rollback"}

EngineSets == <<Committed, RolledBack, Prepared,
                DiskCommitted, DiskRolledBack, DiskPrepared>>
BinlogSets == <<Logged, Older, Buried, Unsynced>>

\* Without a new record the sets of the engine's log stay.
LEMMA EngineSame ==
  ASSUME UNCHANGED engine
  PROVE  UNCHANGED EngineSets
BY DEF engine, EngineSets, Committed, RolledBack, Prepared, DiskCommitted,
       DiskRolledBack, DiskPrepared, With

\* Without a new event the sets of the binary log stay.
LEMMA FilesSame ==
  ASSUME UNCHANGED <<binlog, synced>>
  PROVE  UNCHANGED BinlogSets /\ UNCHANGED Last
BY DEF BinlogSets, Logged, Older, Buried, Unsynced, Last, Elems

\* What is on the disk is in the log.
LEMMA EngineOrder ==
  ASSUME TypeOK
  PROVE  /\ DiskCommitted \subseteq Committed
         /\ DiskRolledBack \subseteq RolledBack
         /\ DiskPrepared \subseteq Prepared
         /\ Committed \subseteq Txn /\ RolledBack \subseteq Txn
         /\ Prepared \subseteq Txn
<1>1. Len(redo) \in Nat /\ flushed \in Nat /\ flushed <= Len(redo)
  BY DEF TypeOK
<1>2. 1 .. flushed \subseteq 1 .. Len(redo)
  BY <1>1
<1> QED
  BY <1>2 DEF Committed, RolledBack, Prepared, DiskCommitted, DiskRolledBack,
              DiskPrepared, With

\* A record is added to the redo log, which is flushed or not.
LEMMA EngineAppend ==
  ASSUME TypeOK, NEW u \in Txn, NEW k \in Kinds, Logs(u, k)
  PROVE  /\ redo' \in Seq(Record) /\ Len(redo') = Len(redo) + 1
         /\ Committed' = IF k = "commit" THEN Committed \union {u} ELSE Committed
         /\ RolledBack' = IF k = "rollback" THEN RolledBack \union {u}
                                            ELSE RolledBack
         /\ Prepared' = IF k = "prepare" THEN Prepared \union {u} ELSE Prepared
         /\ flushed' = flushed =>
              /\ flushed' \in 0 .. Len(redo')
              /\ UNCHANGED <<DiskCommitted, DiskRolledBack, DiskPrepared>>
         /\ flushed' = Len(redo) + 1 =>
              /\ flushed' \in 0 .. Len(redo')
              /\ DiskCommitted' = Committed' /\ DiskRolledBack' = RolledBack'
              /\ DiskPrepared' = Prepared'
<1> DEFINE r == [trx |-> u, kind |-> k]
<1>1. /\ redo \in Seq(Record) /\ r \in Record /\ redo' = Append(redo, r)
      /\ Len(redo) \in Nat /\ flushed \in 0 .. Len(redo)
  BY DEF TypeOK, Record, Kinds, Logs
<1>2. /\ redo' \in Seq(Record) /\ Len(redo') = Len(redo) + 1
      /\ \A i \in 1 .. Len(redo) : redo'[i] = redo[i]
      /\ redo'[Len(redo) + 1] = r
  BY <1>1, AppendProperties
<1>3. ASSUME NEW kind
      PROVE  {t \in Txn : \E i \in 1 .. Len(redo') :
                  redo'[i] = [trx |-> t, kind |-> kind]}
             = IF k = kind THEN With(kind, Len(redo)) \union {u}
                           ELSE With(kind, Len(redo))
  <2> DEFINE L == {t \in Txn : \E i \in 1 .. Len(redo') :
                     redo'[i] = [trx |-> t, kind |-> kind]}
  <2>1. ASSUME NEW t \in Txn
        PROVE  t \in L <=> t \in With(kind, Len(redo)) \/ (t = u /\ k = kind)
    <3>1. 1 .. Len(redo') = (1 .. Len(redo)) \union {Len(redo) + 1}
      BY <1>1, <1>2
    <3>2. t \in L <=> \/ \E i \in 1 .. Len(redo) :
                           redo[i] = [trx |-> t, kind |-> kind]
                      \/ r = [trx |-> t, kind |-> kind]
      BY <3>1, <1>2
    <3>3. r = [trx |-> t, kind |-> kind] <=> t = u /\ k = kind
      <4>1. r.trx = u /\ r.kind = k
        OBVIOUS
      <4> QED
        BY <4>1
    <3> QED
      BY <3>2, <3>3 DEF With
  <2> QED
    BY <2>1 DEF With
<1>4. ASSUME NEW kind, flushed' = flushed
      PROVE  {t \in Txn : \E i \in 1 .. flushed' :
                  redo'[i] = [trx |-> t, kind |-> kind]} = With(kind, flushed)
  BY <1>1, <1>2, <1>4 DEF With
<1>5. /\ Committed' = IF k = "commit" THEN Committed \union {u} ELSE Committed
      /\ RolledBack' = IF k = "rollback" THEN RolledBack \union {u}
                                         ELSE RolledBack
      /\ Prepared' = IF k = "prepare" THEN Prepared \union {u} ELSE Prepared
  BY <1>3 DEF Committed, RolledBack, Prepared, With
<1>6. flushed' = flushed =>
        UNCHANGED <<DiskCommitted, DiskRolledBack, DiskPrepared>>
  BY <1>4 DEF DiskCommitted, DiskRolledBack, DiskPrepared, With
<1>7. flushed' = Len(redo) + 1 =>
        /\ DiskCommitted' = Committed' /\ DiskRolledBack' = RolledBack'
        /\ DiskPrepared' = Prepared'
  BY <1>2 DEF DiskCommitted, DiskRolledBack, DiskPrepared, Committed,
              RolledBack, Prepared, With
<1> QED
  BY <1>1, <1>2, <1>5, <1>6, <1>7

\* The redo log is flushed.
LEMMA EngineFlush ==
  ASSUME TypeOK, redo' = redo, flushed' = Len(redo)
  PROVE  /\ UNCHANGED <<Committed, RolledBack, Prepared>>
         /\ DiskCommitted' = Committed /\ DiskRolledBack' = RolledBack
         /\ DiskPrepared' = Prepared
         /\ redo' \in Seq(Record) /\ flushed' \in 0 .. Len(redo')
BY DEF TypeOK, Committed, RolledBack, Prepared, DiskCommitted, DiskRolledBack,
       DiskPrepared, With

\* A crash keeps what was on disk, and perhaps more.
LEMMA EngineCrash ==
  ASSUME TypeOK, NEW n \in flushed .. Len(redo),
         redo' = SubSeq(redo, 1, n), flushed' = n
  PROVE  /\ DiskCommitted \subseteq Committed' /\ Committed' \subseteq Committed
         /\ DiskRolledBack \subseteq RolledBack'
         /\ RolledBack' \subseteq RolledBack
         /\ DiskPrepared \subseteq Prepared' /\ Prepared' \subseteq Prepared
         /\ DiskCommitted' = Committed' /\ DiskRolledBack' = RolledBack'
         /\ DiskPrepared' = Prepared'
         /\ redo' \in Seq(Record) /\ flushed' = Len(redo')
         /\ flushed' \in 0 .. Len(redo')
<1>1. /\ redo \in Seq(Record) /\ Len(redo) \in Nat /\ flushed \in 0 .. Len(redo)
      /\ n \in Nat /\ n <= Len(redo) /\ flushed <= n
  BY DEF TypeOK
<1>2. /\ redo' \in Seq(Record) /\ Len(redo') = n
      /\ \A i \in 1 .. n : redo'[i] = redo[i]
  BY <1>1, SubSeqProperties
<1>3. 1 .. flushed \subseteq 1 .. n /\ 1 .. n \subseteq 1 .. Len(redo)
  BY <1>1
<1>4. /\ Committed' = With("commit", n) /\ RolledBack' = With("rollback", n)
      /\ Prepared' = With("prepare", n)
  BY <1>2 DEF Committed, RolledBack, Prepared, With
<1>5. /\ DiskCommitted' = Committed' /\ DiskRolledBack' = RolledBack'
      /\ DiskPrepared' = Prepared'
  BY <1>2 DEF Committed, RolledBack, Prepared, With, DiskCommitted,
              DiskRolledBack, DiskPrepared
<1>6. ASSUME NEW kind
      PROVE  /\ With(kind, flushed) \subseteq With(kind, n)
             /\ With(kind, n) \subseteq With(kind, Len(redo))
  BY <1>3 DEF With
<1> QED
  BY <1>1, <1>2, <1>4, <1>5, <1>6 DEF Committed, RolledBack, Prepared,
     DiskCommitted, DiskRolledBack, DiskPrepared

\* Logged, Older and their next values, spelled out.
LEMMA LoggedIs ==
  ASSUME NEW t \in Txn
  PROVE  t \in Logged <=> \E f \in 1 .. Last : \E i \in 1 .. Len(binlog[f]) :
                              binlog[f][i] = t
BY DEF Logged, Elems

\* The same for the next state.
LEMMA LoggedIsPrime ==
  ASSUME NEW t \in Txn
  PROVE  t \in Logged' <=> \E f \in 1 .. Last' : \E i \in 1 .. Len(binlog'[f]) :
                              binlog'[f][i] = t
BY DEF Logged, Elems

\* The events in the files before the last one.
LEMMA OlderIs ==
  ASSUME NEW t \in Txn
  PROVE  t \in Older <=> \E f \in 1 .. Last - 1 :
                            \E i \in 1 .. Len(binlog[f]) : binlog[f][i] = t
BY DEF Older, Elems

\* The same for the next state.
LEMMA OlderIsPrime ==
  ASSUME NEW t \in Txn
  PROVE  t \in Older' <=> \E f \in 1 .. Last' - 1 :
                            \E i \in 1 .. Len(binlog'[f]) : binlog'[f][i] = t
BY DEF Older, Elems

\* There is a last file, and the sets of events are included in Logged.
LEMMA FilesOrder ==
  ASSUME TypeOK
  PROVE  /\ Last \in Nat /\ Last >= 1 /\ binlog[Last] \in Seq(Txn)
         /\ Len(binlog[Last]) \in Nat /\ Last \in 1 .. Len(binlog)
         /\ Older \subseteq Logged /\ Unsynced \subseteq Logged
         /\ Buried \subseteq Logged /\ Logged \subseteq Txn
<1>1. /\ binlog \in Seq(Seq(Txn)) /\ Last \in Nat /\ Last >= 1
      /\ Last \in 1 .. Len(binlog)
  BY DEF TypeOK, Last
<1>2. binlog[Last] \in Seq(Txn)
  BY <1>1, ElementOfSeq
<1>3. Len(binlog[Last]) \in Nat
  BY <1>2
<1>4. 1 .. Last - 1 \subseteq 1 .. Last /\ Last \in 1 .. Last
  BY <1>1
<1> QED
  BY <1>1, <1>2, <1>3, <1>4 DEF Older, Logged, Unsynced, Buried, Elems

\* An xid is written at the end of the last file.
LEMMA FilesWrite ==
  ASSUME TypeOK, NEW u \in Txn, synced' = synced,
         binlog' = [binlog EXCEPT ![Last] = Append(@, u)]
  PROVE  /\ Logged' = Logged \union {u} /\ Buried' = Logged
         /\ Older' = Older /\ Unsynced' \subseteq Unsynced \union {u}
         /\ Last' = Last
         /\ binlog' \in Seq(Seq(Txn)) /\ synced' \in 0 .. Len(binlog'[Last'])
<1> DEFINE n == Len(binlog[Last])
<1>1. /\ binlog \in Seq(Seq(Txn)) /\ Last \in Nat /\ Last >= 1 /\ n \in Nat
      /\ binlog[Last] \in Seq(Txn) /\ synced \in 0 .. n
      /\ Last \in 1 .. Len(binlog) /\ Last = Len(binlog)
  BY FilesOrder DEF TypeOK, Last
<1>2. /\ Append(binlog[Last], u) \in Seq(Txn)
      /\ Len(Append(binlog[Last], u)) = n + 1
      /\ \A i \in 1 .. n : Append(binlog[Last], u)[i] = binlog[Last][i]
      /\ Append(binlog[Last], u)[n + 1] = u
  BY <1>1, AppendProperties
<1>3. /\ binlog' \in Seq(Seq(Txn)) /\ Len(binlog') = Len(binlog)
      /\ \A f \in 1 .. Len(binlog) : f # Last => binlog'[f] = binlog[f]
      /\ binlog'[Last] = Append(binlog[Last], u)
  BY <1>1, <1>2, ExceptSeq
<1>4. Last' = Last
  BY <1>3 DEF Last
<1>5. /\ Len(binlog'[Last]) = n + 1 /\ binlog'[Last][n + 1] = u
      /\ \A i \in 1 .. n : binlog'[Last][i] = binlog[Last][i]
  BY <1>2, <1>3
<1>6. 1 .. n + 1 = (1 .. n) \union {n + 1}
  BY <1>1
<1>7. Older' = Older
  <2>1. \A f \in 1 .. Last - 1 : binlog'[f] = binlog[f]
    BY <1>1, <1>3
  <2> QED
    BY <2>1, <1>4 DEF Older, Elems
<1>8. Elems(binlog[Last])' = Elems(binlog[Last]) \union {u}
  BY <1>4, <1>5, <1>6 DEF Elems
<1>9. 1 .. Last = (1 .. Last - 1) \union {Last}
  BY <1>1
<1>10. Logged = Older \union Elems(binlog[Last])
  <2>1. \A i \in 1 .. n : binlog[Last][i] \in Txn
    BY <1>1, ElementOfSeq
  <2> QED
    BY <1>9, <2>1 DEF Logged, Older, Elems
<1>11. Logged' = Older' \union Elems(binlog[Last])'
  <2>1. \A i \in 1 .. n + 1 : binlog'[Last][i] \in Txn
    BY <1>2, <1>3, <1>1, ElementOfSeq
  <2>2. Elems(binlog[Last])' = {binlog'[Last][i] : i \in 1 .. n + 1}
    BY <1>4, <1>5 DEF Elems
  <2>3. ASSUME NEW t \in Txn
        PROVE  t \in Logged' <=> \/ t \in Older'
                                 \/ \E i \in 1 .. n + 1 : binlog'[Last][i] = t
    <3>1. t \in Logged' <=> \E f \in 1 .. Last : \E i \in 1 .. Len(binlog'[f]) :
                              binlog'[f][i] = t
      BY <1>4, LoggedIsPrime
    <3>2. t \in Older' <=> \E f \in 1 .. Last - 1 :
                            \E i \in 1 .. Len(binlog'[f]) : binlog'[f][i] = t
      BY <1>4, OlderIsPrime
    <3> QED
      BY <3>1, <3>2, <1>5, <1>9
  <2>4. Logged' \subseteq Txn /\ Older' \subseteq Txn
    BY DEF Logged, Older
  <2> QED
    BY <2>1, <2>2, <2>3, <2>4
<1>12. Unsynced' \subseteq Unsynced \union {u}
  BY <1>1, <1>4, <1>5, <1>6 DEF Unsynced
<1>13. Buried' = Logged
  <2>1. ASSUME NEW t \in Txn
        PROVE  t \in Buried' <=> t \in Logged
    <3>0. t \in Buried' <=> \E f \in 1 .. Last :
              \E i \in 1 .. Len(binlog'[f]) :
                 binlog'[f][i] = t /\ (f < Last \/ i < Len(binlog'[f]))
      BY <1>4 DEF Buried
    <3>1. t \in Buried' <=> \/ t \in Older'
                            \/ \E i \in 1 .. n + 1 : /\ binlog'[Last][i] = t
                                                     /\ i < n + 1
      <4>1. \A f \in 1 .. Last - 1 : f < Last
        BY <1>1
      <4>2. ~(Last < Last)
        BY <1>1
      <4>3. t \in Older' <=> \E f \in 1 .. Last - 1 :
                            \E i \in 1 .. Len(binlog'[f]) : binlog'[f][i] = t
        BY <1>4, OlderIsPrime
      <4> HIDE DEF n
      <4> QED
        BY <3>0, <4>1, <4>2, <4>3, <1>5, <1>9
    <3>2. (\E i \in 1 .. n + 1 : binlog'[Last][i] = t /\ i < n + 1)
            <=> \E i \in 1 .. n : binlog[Last][i] = t
      <4>1. \A i \in 1 .. n : i < n + 1
        BY <1>1
      <4>2. ~(n + 1 < n + 1)
        BY <1>1
      <4> QED
        BY <1>5, <1>6, <4>1, <4>2
    <3>3. t \in Logged <=> \/ t \in Older
                           \/ \E i \in 1 .. n : binlog[Last][i] = t
      BY <1>9, LoggedIs, OlderIs
    <3> QED
      BY <3>1, <3>2, <3>3, <1>7
  <2> QED
    BY <2>1 DEF Buried, Logged
<1> QED
  BY <1>1, <1>3, <1>4, <1>5, <1>7, <1>8, <1>10, <1>11, <1>12, <1>13

\* The last file is synced.
LEMMA FilesSync ==
  ASSUME TypeOK, binlog' = binlog, synced' = Len(binlog[Last])
  PROVE  /\ UNCHANGED <<Logged, Older, Buried, Last>> /\ Unsynced' = {}
         /\ binlog' \in Seq(Seq(Txn)) /\ synced' \in 0 .. Len(binlog'[Last'])
<1>1. Len(binlog[Last]) \in Nat /\ binlog \in Seq(Seq(Txn))
  BY FilesOrder DEF TypeOK
<1>2. Last' = Last
  BY DEF Last
<1> QED
  BY <1>1, <1>2 DEF Logged, Older, Buried, Unsynced, Elems

\* A new file is opened.
LEMMA FilesGrown ==
  ASSUME Last \in Nat, Last' = Last + 1,
         \A f \in 1 .. Last : binlog'[f] = binlog[f],
         Len(binlog'[Last + 1]) = 0
  PROVE  Logged' = Logged /\ Older' = Logged /\ Buried' = Logged /\ Unsynced' = {}
<1>1. /\ 1 .. Last + 1 = (1 .. Last) \union {Last + 1} /\ (Last + 1) - 1 = Last
      /\ 1 .. Len(binlog'[Last + 1]) = {} /\ \A f \in 1 .. Last : f < Last + 1
  OBVIOUS
<1>2. Unsynced' = {}
  BY <1>1 DEF Unsynced
<1>3. ASSUME NEW t \in Txn
      PROVE  /\ t \in Older' <=> t \in Logged
             /\ t \in Logged' <=> t \in Logged
             /\ t \in Buried' <=> t \in Logged
  <2>1. t \in Logged <=> \E f \in 1 .. Last : \E i \in 1 .. Len(binlog'[f]) :
                           binlog'[f][i] = t
    BY LoggedIs
  <2>2. t \in Older' <=> \E f \in 1 .. Last : \E i \in 1 .. Len(binlog'[f]) :
                           binlog'[f][i] = t
    BY OlderIsPrime, <1>1
  <2>3. t \in Logged' <=> \E f \in 1 .. Last + 1 :
              \E i \in 1 .. Len(binlog'[f]) : binlog'[f][i] = t
    BY LoggedIsPrime
  <2>4. t \in Buried' <=> \E f \in 1 .. Last + 1 :
              \E i \in 1 .. Len(binlog'[f]) :
                 binlog'[f][i] = t /\ (f < Last + 1 \/ i < Len(binlog'[f]))
    BY DEF Buried
  <2> QED
    BY <2>1, <2>2, <2>3, <2>4, <1>1
<1>4. /\ Logged' \subseteq Txn /\ Older' \subseteq Txn /\ Buried' \subseteq Txn
      /\ Logged \subseteq Txn
  BY DEF Logged, Older, Buried
<1> QED
  BY <1>2, <1>3, <1>4

\* A rotation: everything is in older files, which are on the disk.
LEMMA FilesAppend ==
  ASSUME TypeOK, binlog' = Append(binlog, <<>>), synced' = 0
  PROVE  /\ Logged' = Logged /\ Older' = Logged /\ Buried' = Logged
         /\ Unsynced' = {} /\ Last' = Last + 1
         /\ binlog' \in Seq(Seq(Txn)) /\ synced' \in 0 .. Len(binlog'[Last'])
<1>1. /\ binlog \in Seq(Seq(Txn)) /\ Last \in Nat /\ Last >= 1
      /\ Last = Len(binlog) /\ <<>> \in Seq(Txn) /\ Len(<<>>) = 0
  BY FilesOrder, EmptySeq DEF Last, TypeOK
<1>2. /\ binlog' \in Seq(Seq(Txn)) /\ Len(binlog') = Last + 1
      /\ \A f \in 1 .. Last : binlog'[f] = binlog[f]
      /\ binlog'[Last + 1] = <<>>
  BY <1>1, AppendProperties
<1>3. Last' = Last + 1
  BY <1>2 DEF Last
<1>4. Len(binlog'[Last + 1]) = 0
  BY <1>1, <1>2
<1>5. Logged' = Logged /\ Older' = Logged /\ Buried' = Logged /\ Unsynced' = {}
  BY <1>1, <1>2, <1>3, <1>4, FilesGrown
<1> QED
  BY <1>2, <1>3, <1>4, <1>5

\* A crash keeps what was synced, and perhaps more.
LEMMA FilesCrash ==
  ASSUME TypeOK, NEW n \in synced .. Len(binlog[Last]), synced' = n,
         binlog' = [binlog EXCEPT ![Last] = SubSeq(@, 1, n)]
  PROVE  /\ Logged' \subseteq Logged /\ Logged \subseteq Logged' \union Unsynced
         /\ Older' = Older /\ Unsynced' = {} /\ Last' = Last
         /\ binlog' \in Seq(Seq(Txn)) /\ synced' \in 0 .. Len(binlog'[Last'])
         /\ n \in Nat /\ Len(binlog'[Last]) = n
         /\ \A f \in 1 .. Last : f # Last => binlog'[f] = binlog[f]
         /\ \A i \in 1 .. n : binlog'[Last][i] = binlog[Last][i]
<1>1. /\ binlog \in Seq(Seq(Txn)) /\ Last \in Nat /\ Last >= 1
      /\ binlog[Last] \in Seq(Txn) /\ Len(binlog[Last]) \in Nat
      /\ synced \in 0 .. Len(binlog[Last]) /\ n \in Nat
      /\ n <= Len(binlog[Last])
      /\ Last \in 1 .. Len(binlog) /\ Last = Len(binlog)
  BY FilesOrder DEF TypeOK, Last
<1>2. /\ SubSeq(binlog[Last], 1, n) \in Seq(Txn)
      /\ Len(SubSeq(binlog[Last], 1, n)) = n
      /\ \A i \in 1 .. n : SubSeq(binlog[Last], 1, n)[i] = binlog[Last][i]
  BY <1>1, SubSeqProperties
<1>3. /\ binlog' \in Seq(Seq(Txn)) /\ Len(binlog') = Len(binlog)
      /\ \A f \in 1 .. Len(binlog) : f # Last => binlog'[f] = binlog[f]
      /\ binlog'[Last] = SubSeq(binlog[Last], 1, n)
  BY <1>1, <1>2, ExceptSeq
<1>4. Last' = Last
  BY <1>3 DEF Last
<1>5. /\ Len(binlog'[Last]) = n
      /\ \A i \in 1 .. n : binlog'[Last][i] = binlog[Last][i]
  BY <1>2, <1>3
<1>6. Older' = Older
  <2>1. \A f \in 1 .. Last - 1 : binlog'[f] = binlog[f]
    BY <1>1, <1>3
  <2> QED
    BY <2>1, <1>4 DEF Older, Elems
<1>7. Unsynced' = {}
  BY <1>1, <1>4, <1>5 DEF Unsynced
<1>8. ASSUME NEW t \in Txn
      PROVE  /\ t \in Logged <=> \/ t \in Older
                                 \/ \E i \in 1 .. Len(binlog[Last]) :
                                      binlog[Last][i] = t
             /\ t \in Logged' <=> \/ t \in Older
                                  \/ \E i \in 1 .. n : binlog[Last][i] = t
  <2>1. 1 .. Last = (1 .. Last - 1) \union {Last}
    BY <1>1
  <2>2. t \in Logged <=> \/ t \in Older
                         \/ \E i \in 1 .. Len(binlog[Last]) : binlog[Last][i] = t
    BY <2>1 DEF Logged, Older, Elems
  <2>3. t \in Logged' <=> \/ t \in Older'
                          \/ \E i \in 1 .. n : binlog'[Last][i] = t
    BY <2>1, <1>4, <1>5 DEF Logged, Older, Elems
  <2> QED
    BY <2>2, <2>3, <1>5, <1>6
<1>9. Logged' \subseteq Logged
  BY <1>1, <1>8 DEF Logged
<1>10. Logged \subseteq Logged' \union Unsynced
  <2>1. ASSUME NEW i \in 1 .. Len(binlog[Last])
        PROVE  i \in 1 .. n \/ synced < i
    BY <1>1
  <2> QED
    BY <2>1, <1>8 DEF Unsynced, Logged
<1> QED
  BY <1>1, <1>3, <1>4, <1>5, <1>6, <1>7, <1>9, <1>10

-----------------------------------------------------------------------------
(* How the sets of sessions change with pc *)

\* Only s goes on.
LEMMA GotoFacts ==
  ASSUME TypeOK, NEW s \in Session, NEW w \in Place, Goto(s, w)
  PROVE  /\ pc' \in [Session -> Place] /\ pc'[s] = w
         /\ \A u \in Session \ {s} : pc'[u] = pc[u]
BY DEF TypeOK, Goto

\* Nobody has come between log_xid and unlog, or gone.
LEMMA CountSame ==
  ASSUME \A u \in Txn : pc'[u] \in {"commit", "flush", "unlog"}
                         <=> pc[u] \in {"commit", "flush", "unlog"}
  PROVE  InDoubt' = InDoubt
BY DEF InDoubt

\* Nobody has finished FLUSH LOGS.
LEMMA FlushedSame ==
  ASSUME \A u \in Flushers : pc'[u] = "done" <=> pc[u] = "done"
  PROVE  Flushed' = Flushed
BY DEF Flushed

\* The sets that are counted are finite.
LEMMA Finite ==
  /\ IsFiniteSet(InDoubt) /\ Cardinality(InDoubt) \in Nat
  /\ Cardinality(InDoubt) <= Cardinality(Txn)
  /\ IsFiniteSet(Flushed) /\ Cardinality(Flushed) \in Nat
  /\ Cardinality(Flushed) <= Cardinality(Flushers)
  /\ Cardinality(Txn) \in Nat /\ Cardinality(Flushers) \in Nat
<1>1. InDoubt \subseteq Txn /\ Flushed \subseteq Flushers
  BY DEF InDoubt, Flushed
<1>2. IsFiniteSet(Txn) /\ IsFiniteSet(Flushers)
  BY BinlogTCAssumption
<1> QED
  BY <1>1, <1>2, FS_Subset, FS_CardinalityType

-----------------------------------------------------------------------------
(* One lemma for each action *)

\* Prepare writes a record and leaves the binary log alone.
LEMMA PrepareInv ==
  ASSUME IInv, NEW t \in Txn, innobase_xa_prepare(t)
  PROVE  IInv'
<1>1. /\ TypeOK /\ t \in Session /\ server = "up" /\ pc[t] = "idle"
      /\ UNCHANGED <<server, outcome, prepare_commit_mutex, owns_prepare_mutex,
                     LOCK_log, prepared_xids, binlog, synced, in_use, crashes>>
  BY DEF IInv, innobase_xa_prepare, At, Session, files
<1>2. /\ pc' \in [Session -> Place] /\ pc'[t] = "prepared"
      /\ \A u \in Session \ {t} : pc'[u] = pc[u]
  BY <1>1, GotoFacts DEF innobase_xa_prepare, Place
<1>3. UNCHANGED <<Logged, Older, Buried, Unsynced, Last>>
  BY <1>1, FilesSame DEF BinlogSets
<1>4. /\ UNCHANGED <<Committed, RolledBack>>
      /\ DiskCommitted \subseteq DiskCommitted'
      /\ Prepared' \subseteq Prepared \union {t}
      /\ DiskPrepared \subseteq DiskPrepared'
      /\ t \in DiskPrepared' \/ t \in failed'
      /\ failed \subseteq failed' /\ failed' \subseteq failed \union {t}
      /\ redo' \in Seq(Record) /\ flushed' \in 0 .. Len(redo')
  <2>1. CASE Logs(t, "prepare") /\ flushed' = Len(redo) + 1 /\ UNCHANGED failed
    BY <1>1, <2>1, EngineAppend, EngineOrder DEF Kinds
  <2>2. CASE failed' = failed \union {t} /\ UNCHANGED engine
    BY <1>1, <2>2, EngineSame DEF EngineSets, engine, TypeOK
  <2> QED
    BY <2>1, <2>2 DEF innobase_xa_prepare
<1>5. TypeOK'
  BY <1>1, <1>2, <1>4 DEF TypeOK
<1>6. Phases'
  BY <1>1, <1>2, <1>3, <1>4 DEF IInv, Phases, Phase, Rotating, Session
<1>7. Agree'
  BY <1>1, <1>2, <1>3, <1>4, EngineOrder DEF IInv, Agree, Session
<1>8. Held'
  BY <1>1, <1>2 DEF IInv, Held, Rotating, Session
<1>9. InDoubt' = InDoubt /\ Flushed' = Flushed
  BY <1>1, <1>2, CountSame, FlushedSame DEF Session
<1>10. Counting'
  BY <1>1, <1>2, <1>9 DEF IInv, Counting
<1>11. Recovering'
  BY <1>1 DEF Recovering
<1>12. Pending'
  BY <1>1, <1>2, <1>3, <1>4, FilesOrder, EngineOrder DEF IInv, Pending, Session
<1>13. InLastFile'
  BY <1>1, <1>3, <1>4 DEF IInv, InLastFile
<1>14. NotPromised'
  BY <1>1, <1>2, <1>3, FilesOrder DEF IInv, NotPromised, Session
<1>15. FileCount'
  BY <1>1, <1>2, <1>3, <1>9 DEF IInv, FileCount, Rotating, Session
<1> QED
  BY <1>5, <1>6, <1>7, <1>8, <1>10, <1>11, <1>12, <1>13, <1>14, <1>15 DEF IInv

\* prepare_commit_mutex is taken by one transaction at a time.
LEMMA TakeMutexInv ==
  ASSUME IInv, NEW t \in Txn, TakePrepareCommitMutex(t)
  PROVE  IInv'
<1>1. /\ TypeOK
      /\ t \in Session
      /\ server = "up"
      /\ pc[t] = "prepared"
      /\ prepare_commit_mutex = None
      /\ prepare_commit_mutex' = t
      /\ owns_prepare_mutex' = owns_prepare_mutex \union {t}
      /\ UNCHANGED <<server, outcome, failed, LOCK_log, prepared_xids, redo,
                     flushed, binlog, synced, in_use, crashes>>
  BY DEF IInv, TakePrepareCommitMutex, At, Session, files, engine
<1>2. /\ pc' \in [Session -> Place]
      /\ IF t \in failed THEN pc'[t] = "rollback"
                          ELSE pc'[t] \in {"stmt", "log_xid"}
      /\ \A u \in Session \ {t} : pc'[u] = pc[u]
  <2>1. PICK cache \in {"stmt", "log_xid"} :
          Goto(t, IF t \in failed THEN "rollback" ELSE cache)
    BY DEF TakePrepareCommitMutex
  <2>2. PICK w \in Place : w = IF t \in failed THEN "rollback" ELSE cache
    BY DEF Place
  <2> QED
    BY <1>1, <2>1, <2>2, GotoFacts
<1>3. /\ UNCHANGED <<Logged, Older, Buried, Unsynced, Last>>
      /\ UNCHANGED <<Committed, RolledBack, Prepared, DiskCommitted,
                     DiskPrepared>>
      /\ redo' = redo /\ flushed' = flushed
      /\ binlog' = binlog /\ synced' = synced
  BY <1>1, FilesSame, EngineSame DEF BinlogSets, EngineSets, engine
<1>4. InDoubt' = InDoubt /\ Flushed' = Flushed
  BY <1>1, <1>2, BinlogTCAssumption, CountSame, FlushedSame DEF Session
<1>5. TypeOK'
  BY <1>1, <1>2, <1>3, <1>4 DEF TypeOK
<1>6. Phases'
  BY <1>1, <1>2, <1>3, <1>4 DEF IInv, Phases, Phase, Rotating, Session
<1>7. Agree'
  BY <1>1, <1>2, <1>3, <1>4, EngineOrder DEF IInv, Agree, Session
<1>8. Held'
  BY <1>1, <1>2, <1>3, <1>4, BinlogTCAssumption DEF IInv, Held, Rotating,
     Session
<1>9. Counting'
  BY <1>1, <1>2, <1>3, <1>4 DEF IInv, Counting
<1>10. Recovering'
  BY <1>1 DEF Recovering
<1>11. Pending'
  BY <1>1, <1>2, <1>3, <1>4, FilesOrder, EngineOrder DEF IInv, Pending, Session
<1>12. InLastFile'
  BY <1>1, <1>2, <1>3, <1>4 DEF IInv, InLastFile
<1>13. NotPromised'
  BY <1>1, <1>2, <1>3, <1>4, FilesOrder DEF IInv, NotPromised, Session
<1>14. FileCount'
  BY <1>1, <1>2, <1>3, <1>4 DEF IInv, FileCount, Rotating, Session
<1> QED
  BY <1>5, <1>6, <1>7, <1>8, <1>9, <1>10, <1>11, <1>12, <1>13, <1>14 DEF IInv


\* The statement cache is flushed; the transaction keeps prepare_commit_mutex,
\* also while it rotates the log.
LEMMA StmtCacheInv ==
  ASSUME IInv, NEW t \in Txn, FlushStmtCache(t)
  PROVE  IInv'
<1>1. /\ TypeOK
      /\ t \in Session
      /\ server = "up"
      /\ pc[t] = "stmt"
      /\ t \in owns_prepare_mutex
      /\ LOCK_log = None
      /\ UNCHANGED <<server, outcome, failed, prepare_commit_mutex,
                     owns_prepare_mutex, prepared_xids, redo, flushed, binlog,
                     in_use, crashes>>
  BY DEF IInv, Phases, Phase, FlushStmtCache, At, Session, engine
<1>2. /\ pc' \in [Session -> Place]
      /\ \/ pc'[t] \in {"log_xid", "rollback"} /\ LOCK_log' = LOCK_log
         \/ pc'[t] = "new_file" /\ LOCK_log' = t /\ Last < MaxFiles
      /\ \A u \in Session \ {t} : pc'[u] = pc[u]
      /\ synced' = synced \/ synced' = Len(binlog[Last])
  BY <1>1, GotoFacts DEF FlushStmtCache, Place
<1>3. /\ UNCHANGED <<Committed, RolledBack, Prepared, DiskCommitted,
                     DiskPrepared>>
      /\ UNCHANGED <<Logged, Older, Buried, Last>>
      /\ Unsynced' \subseteq Unsynced
      /\ binlog' \in Seq(Seq(Txn)) /\ synced' \in 0 .. Len(binlog'[Last'])
  <2>1. UNCHANGED <<Committed, RolledBack, Prepared, DiskCommitted,
                    DiskPrepared>>
    BY <1>1, EngineSame DEF EngineSets, engine
  <2>2. CASE synced' = synced
    BY <1>1, <2>1, <2>2, FilesSame DEF BinlogSets, TypeOK, Last
  <2>3. CASE synced' = Len(binlog[Last])
    BY <1>1, <2>1, <2>3, FilesSync
  <2> QED
    BY <1>2, <2>2, <2>3
<1>4. InDoubt' = InDoubt /\ Flushed' = Flushed
  BY <1>1, <1>2, BinlogTCAssumption, CountSame, FlushedSame DEF Session
<1>5. TypeOK'
  <2>1. /\ Len(binlog') = Len(binlog)
        /\ synced' \in 0 .. Len(binlog'[Len(binlog')])
    BY <1>3 DEF Last
  <2> QED
    BY <1>1, <1>2, <1>3, <2>1 DEF TypeOK
<1>6. Phases'
  BY <1>1, <1>2, <1>3 DEF IInv, Phases, Phase, Rotating, Session
<1>7. Agree'
  BY <1>1, <1>2, <1>3, <1>4, EngineOrder DEF IInv, Agree, Session
<1>8. Held'
  BY <1>1, <1>2, BinlogTCAssumption DEF IInv, Held, Rotating, Session
<1>9. Counting'
  BY <1>1, <1>2, <1>3, <1>4 DEF IInv, Counting
<1>10. Recovering'
  BY <1>1 DEF Recovering
<1>11. Pending'
  BY <1>1, <1>2, <1>3, <1>4, FilesOrder, EngineOrder DEF IInv, Pending, Session
<1>12. InLastFile'
  BY <1>1, <1>2, <1>3, <1>4 DEF IInv, InLastFile
<1>13. NotPromised'
  BY <1>1, <1>2, <1>3, <1>4, FilesOrder DEF IInv, NotPromised, Session
<1>14. FileCount'
  BY <1>1, <1>2, <1>3, <1>4 DEF IInv, FileCount, Rotating, Session
<1> QED
  BY <1>5, <1>6, <1>7, <1>8, <1>9, <1>10, <1>11, <1>12, <1>13, <1>14 DEF IInv

\* log_xid takes LOCK_log.
LEMMA LogXidInv ==
  ASSUME IInv, CodeHypothesis, NEW t \in Txn, log_xid(t)
  PROVE  IInv'
<1>1. /\ TypeOK
      /\ t \in Session
      /\ server = "up"
      /\ pc[t] = "log_xid"
      /\ LOCK_log = None
      /\ LOCK_log' = t
      /\ UNCHANGED <<server, outcome, failed, prepare_commit_mutex,
                     owns_prepare_mutex, prepared_xids, redo, flushed, binlog,
                     synced, in_use, crashes>>
  BY DEF IInv, CodeHypothesis, log_xid, At, Session, files, engine
<1>2. /\ pc' \in [Session -> Place]
      /\ pc'[t] = "write"
      /\ \A u \in Session \ {t} : pc'[u] = pc[u]
  <2>1. Goto(t, "write")
    BY DEF CodeHypothesis, log_xid
  <2> QED
    BY <1>1, <2>1, GotoFacts DEF Place
<1>3. /\ UNCHANGED <<Logged, Older, Buried, Unsynced, Last>>
      /\ UNCHANGED <<Committed, RolledBack, Prepared, DiskCommitted,
                     DiskPrepared>>
      /\ redo' = redo /\ flushed' = flushed
      /\ binlog' = binlog /\ synced' = synced
  BY <1>1, FilesSame, EngineSame DEF BinlogSets, EngineSets, engine
<1>4. InDoubt' = InDoubt /\ Flushed' = Flushed
  BY <1>1, <1>2, BinlogTCAssumption, CountSame, FlushedSame DEF Session
<1>5. TypeOK'
  BY <1>1, <1>2, <1>3, <1>4 DEF TypeOK
<1>6. Phases'
  BY <1>1, <1>2, <1>3, <1>4 DEF IInv, Phases, Phase, Rotating, Session
<1>7. Agree'
  BY <1>1, <1>2, <1>3, <1>4, EngineOrder DEF IInv, Agree, Session
<1>8. Held'
  BY <1>1, <1>2, <1>3, <1>4, BinlogTCAssumption DEF IInv, Held, Rotating,
     Session
<1>9. Counting'
  BY <1>1, <1>2, <1>3, <1>4 DEF IInv, Counting
<1>10. Recovering'
  BY <1>1 DEF Recovering
<1>11. Pending'
  BY <1>1, <1>2, <1>3, <1>4, FilesOrder, EngineOrder DEF IInv, Pending, Session
<1>12. InLastFile'
  BY <1>1, <1>2, <1>3, <1>4 DEF IInv, InLastFile
<1>13. NotPromised'
  BY <1>1, <1>2, <1>3, <1>4, FilesOrder DEF IInv, NotPromised, Session
<1>14. FileCount'
  BY <1>1, <1>2, <1>3, <1>4 DEF IInv, FileCount, Rotating, Session
<1> QED
  BY <1>5, <1>6, <1>7, <1>8, <1>9, <1>10, <1>11, <1>12, <1>13, <1>14 DEF IInv


\* The event is written by the owner of both mutexes, after its prepare
\* record has reached the disk.
LEMMA WriteInv ==
  ASSUME IInv, NEW t \in Txn, WriteXid(t)
  PROVE  IInv'
<1>1. /\ TypeOK
      /\ t \in Session
      /\ server = "up"
      /\ pc[t] = "write"
      /\ LOCK_log = t
      /\ prepare_commit_mutex = t
      /\ t \notin RolledBack
      /\ t \notin Committed
      /\ t \in DiskPrepared
      /\ UNCHANGED <<server, outcome, failed, prepare_commit_mutex,
                     owns_prepare_mutex, prepared_xids, redo, flushed, synced,
                     in_use, crashes>>
  BY DEF IInv, Held, Agree, Phases, Phase, WriteXid, At, Session, engine
<1>2. /\ pc' \in [Session -> Place]
      /\ pc'[t] \in {"sync", "rollback"}
      /\ \A u \in Session \ {t} : pc'[u] = pc[u]
  BY <1>1, GotoFacts DEF WriteXid, Place
<1>3. /\ UNCHANGED <<Committed, RolledBack, Prepared, DiskCommitted,
                     DiskPrepared>>
      /\ Older' = Older /\ Last' = Last
      /\ Unsynced' \subseteq Unsynced \union {t}
      /\ \/ /\ pc'[t] = "sync" /\ LOCK_log' = LOCK_log
            /\ Logged' = Logged \union {t} /\ Buried' = Logged
         \/ /\ pc'[t] = "rollback" /\ LOCK_log' = None
            /\ UNCHANGED <<Logged, Buried, Unsynced>>
      /\ binlog' \in Seq(Seq(Txn)) /\ synced' \in 0 .. Len(binlog'[Last'])
  <2>1. UNCHANGED <<Committed, RolledBack, Prepared, DiskCommitted,
                    DiskPrepared>>
    BY <1>1, EngineSame DEF EngineSets, engine
  <2>2. CASE /\ binlog' = [binlog EXCEPT ![Last] = Append(@, t)]
             /\ Goto(t, "sync") /\ UNCHANGED LOCK_log
    BY <1>1, <2>1, <2>2, FilesWrite, GotoFacts DEF Place
  <2>3. CASE Goto(t, "rollback") /\ LOCK_log' = None /\ UNCHANGED binlog
    <3>1. UNCHANGED <<Logged, Older, Buried, Unsynced, Last>>
      BY <1>1, <2>3, FilesSame DEF BinlogSets
    <3>2. binlog' \in Seq(Seq(Txn)) /\ synced' \in 0 .. Len(binlog'[Last'])
      BY <1>1, <2>3 DEF TypeOK, Last
    <3>3. pc'[t] = "rollback"
      BY <1>1, <2>3, GotoFacts DEF Place
    <3> QED
      BY <2>1, <2>3, <3>1, <3>2, <3>3
  <2> QED
    BY <2>2, <2>3 DEF WriteXid
<1>4. InDoubt' = InDoubt /\ Flushed' = Flushed
  BY <1>1, <1>2, BinlogTCAssumption, CountSame, FlushedSame DEF Session
<1>5. /\ Logged \subseteq Committed
      /\ in_use
  <2>1. \A u \in Logged \ Committed : u \in Txn /\ pc[u] \in {"sync", "commit"}
    BY <1>1, FilesOrder DEF IInv, Pending
  <2>2. Logged \subseteq Committed
    BY <1>1, <2>1 DEF IInv, Held
  <2>3. in_use
    BY <1>1 DEF IInv, Pending, Held, Rotating
  <2> QED
    BY <2>2, <2>3
<1>6. TypeOK'
  <2>1. /\ Len(binlog') = Len(binlog)
        /\ synced' \in 0 .. Len(binlog'[Len(binlog')])
    BY <1>3 DEF Last
  <2> QED
    BY <1>1, <1>2, <1>3, <2>1 DEF TypeOK
<1>7. Phases'
  BY <1>1, <1>2, <1>3, <1>4, <1>5 DEF IInv, Phases, Phase, Rotating, Session
<1>8. Agree'
  BY <1>1, <1>2, <1>3, <1>4, <1>5, EngineOrder DEF IInv, Agree, Session
<1>9. Held'
  BY <1>1, <1>2, <1>3, <1>4, <1>5 DEF IInv, Held, Rotating, Session
<1>10. Counting'
  BY <1>1, <1>2, <1>4 DEF IInv, Counting
<1>11. Recovering'
  BY <1>1 DEF Recovering
<1>12. Pending'
  BY <1>1, <1>2, <1>3, <1>4, <1>5, FilesOrder, EngineOrder DEF IInv, Pending,
     Session
<1>13. InLastFile'
  BY <1>1, <1>2, <1>3, <1>4, <1>5 DEF IInv, InLastFile
<1>14. NotPromised'
  BY <1>1, <1>2, <1>3, <1>4, <1>5, FilesOrder DEF IInv, NotPromised, Session
<1>15. FileCount'
  BY <1>1, <1>2, <1>3, <1>4 DEF IInv, FileCount, Rotating, Session
<1> QED
  BY <1>6, <1>7, <1>8, <1>9, <1>10, <1>11, <1>12, <1>13, <1>14, <1>15 DEF IInv

\* The event is on the disk and the transaction is counted as in doubt.
LEMMA SyncInv ==
  ASSUME IInv, CodeHypothesis, NEW t \in Txn, SyncXid(t)
  PROVE  IInv'
<1>1. /\ TypeOK
      /\ t \in Session
      /\ server = "up"
      /\ pc[t] = "sync"
      /\ LOCK_log = t
      /\ t \in Logged
      /\ LOCK_log' = None
      /\ prepared_xids' = prepared_xids + 1
      /\ synced' = Len(binlog[Last])
      /\ UNCHANGED <<server, outcome, failed, prepare_commit_mutex,
                     owns_prepare_mutex, redo, flushed, binlog, in_use,
                     crashes>>
  BY DEF IInv, Held, Phases, Phase, CodeHypothesis, SyncXid, At, Session,
     engine
<1>2. /\ pc' \in [Session -> Place]
      /\ pc'[t] = "commit"
      /\ \A u \in Session \ {t} : pc'[u] = pc[u]
  <2>1. Goto(t, "commit")
    BY DEF CodeHypothesis, SyncXid
  <2> QED
    BY <1>1, <2>1, GotoFacts DEF Place
<1>3. /\ UNCHANGED <<Committed, RolledBack, Prepared, DiskCommitted,
                     DiskPrepared>>
      /\ UNCHANGED <<Logged, Older, Buried, Last>>
      /\ Unsynced' = {}
      /\ binlog' \in Seq(Seq(Txn)) /\ synced' \in 0 .. Len(binlog'[Last'])
  BY <1>1, EngineSame, FilesSync DEF EngineSets, engine
<1>4. /\ Flushed' = Flushed
      /\ prepared_xids' = Cardinality(InDoubt')
      /\ prepared_xids' \in 0 .. Cardinality(Txn)
  <2>1. Flushed' = Flushed
    BY <1>1, <1>2, BinlogTCAssumption, FlushedSame DEF Session
  <2>2. InDoubt' = InDoubt \union {t} /\ t \notin InDoubt /\ InDoubt'
     \subseteq Txn
    BY <1>1, <1>2 DEF InDoubt, Session
  <2>3. Cardinality(InDoubt') = Cardinality(InDoubt) + 1
    BY <2>2, Finite, FS_AddElement
  <2>4. /\ Cardinality(InDoubt') <= Cardinality(Txn)
        /\ Cardinality(InDoubt') \in Nat /\ Cardinality(Txn) \in Nat
    BY <2>2, BinlogTCAssumption, FS_Subset, FS_CardinalityType
  <2>5. prepared_xids = Cardinality(InDoubt)
    BY DEF IInv, Counting
  <2> QED
    BY <1>1, <2>1, <2>3, <2>4, <2>5
<1>5. TypeOK'
  <2>1. /\ Len(binlog') = Len(binlog)
        /\ synced' \in 0 .. Len(binlog'[Len(binlog')])
    BY <1>3 DEF Last
  <2>2. prepared_xids' \in 0 .. Cardinality(Txn)
    BY <1>4
  <2> QED
    BY <1>1, <1>2, <1>3, <2>1, <2>2 DEF TypeOK
<1>6. Phases'
  BY <1>1, <1>2, <1>3, <1>4 DEF IInv, Phases, Phase, Rotating, Session
<1>7. Agree'
  BY <1>1, <1>2, <1>3, <1>4, EngineOrder DEF IInv, Agree, Session
<1>8. Held'
  BY <1>1, <1>2, <1>3, <1>4 DEF IInv, Held, Rotating, Session
<1>9. Counting'
  BY <1>1, <1>2, <1>4 DEF IInv, Counting, Held, Rotating, Session
<1>10. Recovering'
  BY <1>1 DEF Recovering
<1>11. Pending'
  BY <1>1, <1>2, <1>3, <1>4, FilesOrder, EngineOrder DEF IInv, Pending, Session
<1>12. InLastFile'
  BY <1>1, <1>2, <1>3, <1>4 DEF IInv, InLastFile
<1>13. NotPromised'
  BY <1>3 DEF NotPromised
<1>14. FileCount'
  BY <1>1, <1>2, <1>3, <1>4 DEF IInv, FileCount, Rotating, Session
<1> QED
  BY <1>5, <1>6, <1>7, <1>8, <1>9, <1>10, <1>11, <1>12, <1>13, <1>14 DEF IInv


\* A rollback: the transaction is not in the binary log.
LEMMA RollbackInv ==
  ASSUME IInv, NEW t \in Txn, innobase_rollback(t)
  PROVE  IInv'
<1>1. /\ TypeOK
      /\ t \in Session
      /\ server = "up"
      /\ pc[t] = "rollback"
      /\ t \notin Logged
      /\ Logs(t, "rollback")
      /\ owns_prepare_mutex' = owns_prepare_mutex \ {t}
      /\ outcome' = [outcome EXCEPT ![t] = "abort"]
      /\ UNCHANGED <<server, failed, prepare_commit_mutex, LOCK_log,
                     prepared_xids, flushed, binlog, synced, in_use, crashes>>
  BY DEF IInv, Phases, Phase, innobase_rollback, At, Session, files
<1>2. /\ pc' \in [Session -> Place]
      /\ pc'[t] = "done"
      /\ \A u \in Session \ {t} : pc'[u] = pc[u]
      /\ outcome'[t] = "abort" /\ \A u \in Txn \ {t} : outcome'[u] = outcome[u]
      /\ outcome' \in [Txn -> {"none", "commit", "abort"}]
  <2>1. /\ outcome'[t] = "abort"
        /\ \A u \in Txn \ {t} : outcome'[u] = outcome[u]
        /\ outcome' \in [Txn -> {"none", "commit", "abort"}]
    BY <1>1 DEF TypeOK
  <2> QED
    BY <1>1, <2>1, GotoFacts DEF innobase_rollback, Place
<1>3. /\ UNCHANGED <<Logged, Older, Buried, Unsynced, Last>>
      /\ UNCHANGED <<Committed, Prepared, DiskCommitted, DiskPrepared>>
      /\ RolledBack' = RolledBack \union {t}
      /\ redo' \in Seq(Record) /\ flushed' \in 0 .. Len(redo')
  BY <1>1, FilesSame, EngineAppend DEF BinlogSets, Kinds
<1>4. InDoubt' = InDoubt /\ Flushed' = Flushed
  BY <1>1, <1>2, BinlogTCAssumption, CountSame, FlushedSame DEF Session
<1>5. TypeOK'
  BY <1>1, <1>2, <1>3, <1>4 DEF TypeOK
<1>6. Phases'
  BY <1>1, <1>2, <1>3, <1>4 DEF IInv, Phases, Phase, Rotating, Session
<1>7. Agree'
  BY <1>1, <1>2, <1>3, <1>4, EngineOrder DEF IInv, Agree, Session
<1>8. Held'
  BY <1>1, <1>2, <1>3, <1>4 DEF IInv, Held, Rotating, Session
<1>9. Counting'
  BY <1>1, <1>2, <1>3, <1>4 DEF IInv, Counting
<1>10. Recovering'
  BY <1>1 DEF Recovering
<1>11. Pending'
  BY <1>1, <1>2, <1>3, <1>4, FilesOrder, EngineOrder DEF IInv, Pending, Session
<1>12. InLastFile'
  BY <1>1, <1>2, <1>3, <1>4 DEF IInv, InLastFile
<1>13. NotPromised'
  BY <1>1, <1>2, <1>3, <1>4, FilesOrder DEF IInv, NotPromised, Session
<1>14. FileCount'
  BY <1>1, <1>2, <1>3, <1>4 DEF IInv, FileCount, Rotating, Session
<1> QED
  BY <1>5, <1>6, <1>7, <1>8, <1>9, <1>10, <1>11, <1>12, <1>13, <1>14 DEF IInv


\* The commit record is written in the order of the events.
LEMMA CommitInv ==
  ASSUME IInv, NEW t \in Txn, innobase_commit(t)
  PROVE  IInv'
<1>1. /\ TypeOK
      /\ t \in Session
      /\ server = "up"
      /\ pc[t] = "commit"
      /\ prepare_commit_mutex = t
      /\ t \in Logged
      /\ Logs(t, "commit")
      /\ owns_prepare_mutex' = owns_prepare_mutex \ {t}
      /\ prepare_commit_mutex' \in {t, None}
      /\ UNCHANGED <<server, outcome, failed, LOCK_log, prepared_xids,
                     flushed, binlog, synced, in_use, crashes>>
  BY DEF IInv, Phases, Phase, Held, innobase_commit, At, Session, files
<1>2. /\ pc' \in [Session -> Place]
      /\ pc'[t] = "flush"
      /\ \A u \in Session \ {t} : pc'[u] = pc[u]
  BY <1>1, GotoFacts DEF innobase_commit, Place
<1>3. /\ UNCHANGED <<Logged, Older, Buried, Unsynced, Last>>
      /\ UNCHANGED <<RolledBack, Prepared, DiskCommitted, DiskPrepared>>
      /\ Committed' = Committed \union {t}
      /\ redo' \in Seq(Record) /\ flushed' \in 0 .. Len(redo')
  BY <1>1, FilesSame, EngineAppend DEF BinlogSets, Kinds
<1>4. InDoubt' = InDoubt /\ Flushed' = Flushed
  BY <1>1, <1>2, BinlogTCAssumption, CountSame, FlushedSame DEF Session
<1>5. TypeOK'
  BY <1>1, <1>2, <1>3, <1>4 DEF TypeOK
<1>6. Phases'
  BY <1>1, <1>2, <1>3, <1>4 DEF IInv, Phases, Phase, Rotating, Session
<1>7. Agree'
  BY <1>1, <1>2, <1>3, <1>4, EngineOrder DEF IInv, Agree, Session
<1>8. Held'
  BY <1>1, <1>2, <1>3, <1>4 DEF IInv, Held, Rotating, Session
<1>9. Counting'
  BY <1>1, <1>2, <1>3, <1>4 DEF IInv, Counting
<1>10. Recovering'
  BY <1>1 DEF Recovering
<1>11. Pending'
  BY <1>1, <1>2, <1>3, <1>4, FilesOrder, EngineOrder DEF IInv, Pending, Session
<1>12. InLastFile'
  BY <1>1, <1>2, <1>3, <1>4 DEF IInv, InLastFile
<1>13. NotPromised'
  BY <1>1, <1>2, <1>3, <1>4, FilesOrder DEF IInv, NotPromised, Session
<1>14. FileCount'
  BY <1>1, <1>2, <1>3, <1>4 DEF IInv, FileCount, Rotating, Session
<1> QED
  BY <1>5, <1>6, <1>7, <1>8, <1>9, <1>10, <1>11, <1>12, <1>13, <1>14 DEF IInv


\* The commit record is flushed, with all the records before it.
LEMMA CompleteInv ==
  ASSUME IInv, NEW t \in Txn, trx_commit_complete(t)
  PROVE  IInv'
<1>1. /\ TypeOK
      /\ t \in Session
      /\ server = "up"
      /\ pc[t] = "flush"
      /\ t \in Committed
      /\ flushed' = Len(redo)
      /\ UNCHANGED <<server, outcome, failed, prepare_commit_mutex,
                     owns_prepare_mutex, LOCK_log, prepared_xids, redo,
                     binlog, synced, in_use, crashes>>
  BY DEF IInv, Phases, Phase, trx_commit_complete, At, Session, files
<1>2. /\ pc' \in [Session -> Place]
      /\ pc'[t] = "unlog"
      /\ \A u \in Session \ {t} : pc'[u] = pc[u]
  BY <1>1, GotoFacts DEF trx_commit_complete, Place
<1>3. /\ UNCHANGED <<Logged, Older, Buried, Unsynced, Last>>
      /\ UNCHANGED <<Committed, RolledBack, Prepared>>
      /\ DiskCommitted' = Committed /\ DiskPrepared' = Prepared
      /\ redo' \in Seq(Record) /\ flushed' \in 0 .. Len(redo')
      /\ DiskCommitted \subseteq Committed /\ DiskPrepared \subseteq Prepared
  BY <1>1, FilesSame, EngineFlush, EngineOrder DEF BinlogSets
<1>4. InDoubt' = InDoubt /\ Flushed' = Flushed
  BY <1>1, <1>2, BinlogTCAssumption, CountSame, FlushedSame DEF Session
<1>5. TypeOK'
  BY <1>1, <1>2, <1>3, <1>4 DEF TypeOK
<1>6. Phases'
  BY <1>1, <1>2, <1>3, <1>4 DEF IInv, Phases, Phase, Rotating, Session
<1>7. Agree'
  BY <1>1, <1>2, <1>3, <1>4, EngineOrder DEF IInv, Agree, Session
<1>8. Held'
  BY <1>1, <1>2, <1>3, <1>4 DEF IInv, Held, Rotating, Session
<1>9. Counting'
  BY <1>1, <1>2, <1>3, <1>4 DEF IInv, Counting
<1>10. Recovering'
  BY <1>1 DEF Recovering
<1>11. Pending'
  BY <1>1, <1>2, <1>3, <1>4, FilesOrder, EngineOrder DEF IInv, Pending, Session
<1>12. InLastFile'
  BY <1>1, <1>2, <1>3, <1>4 DEF IInv, InLastFile
<1>13. NotPromised'
  BY <1>1, <1>2, <1>3, <1>4, FilesOrder DEF IInv, NotPromised, Session
<1>14. FileCount'
  BY <1>1, <1>2, <1>3, <1>4 DEF IInv, FileCount, Rotating, Session
<1> QED
  BY <1>5, <1>6, <1>7, <1>8, <1>9, <1>10, <1>11, <1>12, <1>13, <1>14 DEF IInv

\* unlog takes the transaction off the counter when it is durable.
LEMMA UnlogInv ==
  ASSUME IInv, NEW t \in Txn, unlog(t)
  PROVE  IInv'
<1>1. /\ TypeOK
      /\ t \in Session
      /\ server = "up"
      /\ pc[t] = "unlog"
      /\ t \in DiskCommitted
      /\ prepared_xids' = IF prepared_xids > 0 THEN prepared_xids - 1 ELSE 0
      /\ pc' = [Signalled(prepared_xids') EXCEPT ![t] = "rotate"]
      /\ UNCHANGED <<server, outcome, failed, prepare_commit_mutex,
                     owns_prepare_mutex, LOCK_log, redo, flushed, binlog,
                     synced, in_use, crashes>>
  BY DEF IInv, Phases, Phase, unlog, At, Session, files, engine
<1>2. /\ pc' \in [Session -> Place]
      /\ pc'[t] = "rotate"
      /\ \A u \in Session \ {t} :
           pc'[u] = pc[u] \/ (pc[u] = "wait" /\ pc'[u] = "new_file")
  <2> DEFINE f == Signalled(prepared_xids')
  <2>1. f \in [Session -> Place]
    BY <1>1 DEF Signalled, TypeOK, Place
  <2>2. \A u \in Session :
          f[u] = pc[u] \/ (pc[u] = "wait" /\ f[u] = "new_file")
    BY DEF Signalled
  <2>3. pc' = [f EXCEPT ![t] = "rotate"]
    BY <1>1
  <2> HIDE DEF f
  <2>4. /\ pc' \in [Session -> Place] /\ pc'[t] = "rotate"
        /\ \A u \in Session \ {t} : pc'[u] = f[u]
    BY <1>1, <2>1, <2>3 DEF Place
  <2> QED
    BY <2>2, <2>4
<1>3. /\ UNCHANGED <<Logged, Older, Buried, Unsynced, Last>>
      /\ UNCHANGED <<Committed, RolledBack, Prepared, DiskCommitted,
                     DiskPrepared>>
      /\ redo' = redo /\ flushed' = flushed
      /\ binlog' = binlog /\ synced' = synced
  BY <1>1, FilesSame, EngineSame DEF BinlogSets, EngineSets, engine
<1>4. /\ Flushed' = Flushed
      /\ prepared_xids' = Cardinality(InDoubt')
      /\ prepared_xids' \in 0 .. Cardinality(Txn)
      /\ prepared_xids > 0
  <2>1. Flushed' = Flushed
    BY <1>1, <1>2, BinlogTCAssumption, FlushedSame DEF Session
  <2>2. InDoubt' = InDoubt \ {t} /\ t \in InDoubt
    BY <1>1, <1>2 DEF InDoubt, Session
  <2>3. Cardinality(InDoubt') = Cardinality(InDoubt) - 1
    BY <2>2, Finite, FS_RemoveElement
  <2>4. Cardinality(InDoubt) > 0
    BY <2>2, Finite, FS_EmptySet
  <2>5. prepared_xids = Cardinality(InDoubt)
    BY DEF IInv, Counting
  <2> QED
    BY <1>1, <2>1, <2>3, <2>4, <2>5, Finite
<1>5. TypeOK'
  <2>1. prepared_xids' \in 0 .. Cardinality(Txn)
    BY <1>4
  <2> QED
    BY <1>1, <1>2, <1>3, <2>1 DEF TypeOK
<1>6. Phases'
  BY <1>1, <1>2, <1>3, <1>4 DEF IInv, Phases, Phase, Rotating, Session
<1>7. Agree'
  BY <1>1, <1>2, <1>3, <1>4, EngineOrder DEF IInv, Agree, Session
<1>8. Held'
  BY <1>1, <1>2, <1>3, <1>4 DEF IInv, Held, Rotating, Session
<1>9. Counting'
  BY <1>1, <1>2, <1>4 DEF IInv, Counting, Session
<1>10. Recovering'
  BY <1>1 DEF Recovering
<1>11. Pending'
  BY <1>1, <1>2, <1>3, <1>4, FilesOrder, EngineOrder DEF IInv, Pending, Session
<1>12. InLastFile'
  BY <1>1, <1>2, <1>3, <1>4 DEF IInv, InLastFile
<1>13. NotPromised'
  BY <1>1, <1>2, <1>3, <1>4, FilesOrder DEF IInv, NotPromised, Session
<1>14. FileCount'
  BY <1>1, <1>2, <1>3, <1>4 DEF IInv, FileCount, Rotating, Session
<1> QED
  BY <1>5, <1>6, <1>7, <1>8, <1>9, <1>10, <1>11, <1>12, <1>13, <1>14 DEF IInv


\* FLUSH LOGS goes to rotate the log.
LEMMA FlushLogsInv ==
  ASSUME IInv, NEW s \in Session, FlushLogs(s)
  PROVE  IInv'
<1>1. /\ TypeOK
      /\ s \in Flushers
      /\ s \notin Txn
      /\ server = "up"
      /\ pc[s] = "idle"
      /\ UNCHANGED <<server, outcome, failed, prepare_commit_mutex,
                     owns_prepare_mutex, LOCK_log, prepared_xids, redo,
                     flushed, binlog, synced, in_use, crashes>>
  BY BinlogTCAssumption DEF IInv, FlushLogs, At, files, engine
<1>2. /\ pc' \in [Session -> Place]
      /\ pc'[s] = "rotate"
      /\ \A u \in Session \ {s} : pc'[u] = pc[u]
  BY <1>1, GotoFacts DEF FlushLogs, Place
<1>3. /\ UNCHANGED <<Logged, Older, Buried, Unsynced, Last>>
      /\ UNCHANGED <<Committed, RolledBack, Prepared, DiskCommitted,
                     DiskPrepared>>
      /\ redo' = redo /\ flushed' = flushed
      /\ binlog' = binlog /\ synced' = synced
  BY <1>1, FilesSame, EngineSame DEF BinlogSets, EngineSets, engine
<1>4. InDoubt' = InDoubt /\ Flushed' = Flushed
  BY <1>1, <1>2, BinlogTCAssumption, CountSame, FlushedSame DEF Session
<1>5. TypeOK'
  BY <1>1, <1>2, <1>3, <1>4 DEF TypeOK
<1>6. Phases'
  BY <1>1, <1>2, <1>3, <1>4 DEF IInv, Phases, Phase, Rotating, Session
<1>7. Agree'
  BY <1>1, <1>2, <1>3, <1>4, EngineOrder DEF IInv, Agree, Session
<1>8. Held'
  BY <1>1, <1>2, <1>3, <1>4 DEF IInv, Held, Rotating, Session
<1>9. Counting'
  BY <1>1, <1>2, <1>3, <1>4 DEF IInv, Counting
<1>10. Recovering'
  BY <1>1 DEF Recovering
<1>11. Pending'
  BY <1>1, <1>2, <1>3, <1>4, FilesOrder, EngineOrder DEF IInv, Pending, Session
<1>12. InLastFile'
  BY <1>1, <1>2, <1>3, <1>4 DEF IInv, InLastFile
<1>13. NotPromised'
  BY <1>1, <1>2, <1>3, <1>4, FilesOrder DEF IInv, NotPromised, Session
<1>14. FileCount'
  BY <1>1, <1>2, <1>3, <1>4 DEF IInv, FileCount, Rotating, Session
<1> QED
  BY <1>5, <1>6, <1>7, <1>8, <1>9, <1>10, <1>11, <1>12, <1>13, <1>14 DEF IInv


\* The rotation begins.
LEMMA RotateInv ==
  ASSUME IInv, NEW s \in Session, rotate_and_purge(s)
  PROVE  IInv'
<1>1. /\ TypeOK
      /\ server = "up"
      /\ pc[s] = "rotate"
      /\ LOCK_log = None
      /\ s \in Txn => s \in DiskCommitted
      /\ s \notin owns_prepare_mutex
      /\ UNCHANGED <<server, failed, prepare_commit_mutex, owns_prepare_mutex,
                     prepared_xids, redo, flushed, binlog, synced, in_use,
                     crashes>>
  BY DEF IInv, TypeOK, Phases, Phase, rotate_and_purge, At, files, engine
<1>2. /\ pc' \in [Session -> Place]
      /\ pc'[s] \in {"done", "new_file"}
      /\ \A u \in Session \ {s} : pc'[u] = pc[u]
      /\ \/ /\ s \in Txn /\ pc'[s] = "done" /\ LOCK_log' = LOCK_log
            /\ outcome' = [t \in Txn |-> IF t = s THEN "commit" ELSE
               outcome[t]]
         \/ /\ s \in Txn => Last < MaxFiles
            /\ pc'[s] = "new_file" /\ LOCK_log' = s /\ outcome' = outcome
  BY <1>1, GotoFacts DEF rotate_and_purge, Finished, Place
<1>3. /\ UNCHANGED <<Logged, Older, Buried, Unsynced, Last>>
      /\ UNCHANGED <<Committed, RolledBack, Prepared, DiskCommitted,
                     DiskPrepared>>
      /\ redo' = redo /\ flushed' = flushed
      /\ binlog' = binlog /\ synced' = synced
  BY <1>1, FilesSame, EngineSame DEF BinlogSets, EngineSets, engine
<1>4. InDoubt' = InDoubt /\ Flushed' = Flushed
  BY <1>1, <1>2, BinlogTCAssumption, CountSame, FlushedSame DEF Session
<1>5. TypeOK'
  BY <1>1, <1>2, <1>3, <1>4 DEF TypeOK
<1>6. Phases'
  BY <1>1, <1>2, <1>3, <1>4 DEF IInv, Phases, Phase, Rotating, Session
<1>7. Agree'
  BY <1>1, <1>2, <1>3, <1>4, EngineOrder DEF IInv, Agree, Session
<1>8. Held'
  BY <1>1, <1>2, <1>3, <1>4, BinlogTCAssumption DEF IInv, Held, Rotating,
     Session
<1>9. Counting'
  BY <1>1, <1>2, <1>3, <1>4 DEF IInv, Counting
<1>10. Recovering'
  BY <1>1 DEF Recovering
<1>11. Pending'
  BY <1>1, <1>2, <1>3, <1>4, FilesOrder, EngineOrder DEF IInv, Pending, Session
<1>12. InLastFile'
  BY <1>1, <1>2, <1>3, <1>4 DEF IInv, InLastFile
<1>13. NotPromised'
  BY <1>1, <1>2, <1>3, <1>4, FilesOrder DEF IInv, NotPromised, Session
<1>14. FileCount'
  BY <1>1, <1>2, <1>3, <1>4 DEF IInv, FileCount, Rotating, Session
<1> QED
  BY <1>5, <1>6, <1>7, <1>8, <1>9, <1>10, <1>11, <1>12, <1>13, <1>14 DEF IInv


\* The rotation waits until nobody is in doubt.
LEMMA NewFileInv ==
  ASSUME IInv, NEW s \in Session, new_file_impl(s)
  PROVE  IInv'
<1>1. /\ TypeOK
      /\ server = "up"
      /\ pc[s] = "new_file"
      /\ LOCK_log = s
      /\ UNCHANGED <<server, outcome, failed, prepare_commit_mutex,
                     owns_prepare_mutex, LOCK_log, prepared_xids, redo,
                     flushed, binlog, synced, in_use, crashes>>
  BY DEF IInv, Held, Rotating, new_file_impl, At, files, engine
<1>2. /\ pc' \in [Session -> Place]
      /\ pc'[s] = IF prepared_xids = 0 THEN "close" ELSE "wait"
      /\ \A u \in Session \ {s} : pc'[u] = pc[u]
  BY <1>1, GotoFacts DEF new_file_impl, Place
<1>3. /\ UNCHANGED <<Logged, Older, Buried, Unsynced, Last>>
      /\ UNCHANGED <<Committed, RolledBack, Prepared, DiskCommitted,
                     DiskPrepared>>
      /\ redo' = redo /\ flushed' = flushed
      /\ binlog' = binlog /\ synced' = synced
  BY <1>1, FilesSame, EngineSame DEF BinlogSets, EngineSets, engine
<1>4. InDoubt' = InDoubt /\ Flushed' = Flushed
  BY <1>1, <1>2, BinlogTCAssumption, CountSame, FlushedSame DEF Session
<1>5. TypeOK'
  BY <1>1, <1>2, <1>3, <1>4 DEF TypeOK
<1>6. Phases'
  BY <1>1, <1>2, <1>3, <1>4 DEF IInv, Phases, Phase, Rotating, Session
<1>7. Agree'
  BY <1>1, <1>2, <1>3, <1>4, EngineOrder DEF IInv, Agree, Session
<1>8. Held'
  BY <1>1, <1>2, <1>3, <1>4 DEF IInv, Held, Rotating, Session
<1>9. Counting'
  BY <1>1, <1>2, <1>3, <1>4 DEF IInv, Counting
<1>10. Recovering'
  BY <1>1 DEF Recovering
<1>11. Pending'
  BY <1>1, <1>2, <1>3, <1>4, FilesOrder, EngineOrder DEF IInv, Pending, Session
<1>12. InLastFile'
  BY <1>1, <1>2, <1>3, <1>4 DEF IInv, InLastFile
<1>13. NotPromised'
  BY <1>1, <1>2, <1>3, <1>4, FilesOrder DEF IInv, NotPromised, Session
<1>14. FileCount'
  BY <1>1, <1>2, <1>3, <1>4 DEF IInv, FileCount, Rotating, Session
<1> QED
  BY <1>5, <1>6, <1>7, <1>8, <1>9, <1>10, <1>11, <1>12, <1>13, <1>14 DEF IInv


\* What new_file_impl waits for: while the file is replaced, every transaction
\* in the binary log is durably committed.
LEMMA Quiescent ==
  ASSUME IInv, server = "up", NEW s \in Session, pc[s] \in {"close", "open"}
  PROVE  Logged \subseteq DiskCommitted
<1> SUFFICES ASSUME NEW t \in Logged, t \notin DiskCommitted
             PROVE  FALSE
  OBVIOUS
<1>1. t \in Txn /\ pc[t] \in {"sync", "commit", "flush"}
  BY FilesOrder DEF IInv, Pending
<1>2. LOCK_log = s /\ prepared_xids = 0
  BY DEF IInv, Held, Rotating, Counting
<1>3. pc[t] # "sync"
  BY <1>1, <1>2 DEF IInv, Held, Rotating, Session
<1>4. t \in InDoubt
  BY <1>1, <1>3 DEF InDoubt
<1>5. Cardinality(InDoubt) = 0
  BY <1>2 DEF IInv, Counting
<1> QED
  BY <1>4, <1>5, Finite, FS_EmptySet

\* The old file is closed.
LEMMA CloseInv ==
  ASSUME IInv, NEW s \in Session, CloseOldFile(s)
  PROVE  IInv'
<1>1. /\ TypeOK
      /\ server = "up"
      /\ pc[s] = "close"
      /\ LOCK_log = s
      /\ Logged \subseteq DiskCommitted
      /\ in_use' = FALSE
      /\ synced' = Len(binlog[Last])
      /\ UNCHANGED <<server, outcome, failed, prepare_commit_mutex,
                     owns_prepare_mutex, LOCK_log, prepared_xids, redo,
                     flushed, binlog, crashes>>
  BY Quiescent DEF IInv, Held, Rotating, CloseOldFile, At, engine
<1>2. /\ pc' \in [Session -> Place]
      /\ pc'[s] = "open"
      /\ \A u \in Session \ {s} : pc'[u] = pc[u]
  BY <1>1, GotoFacts DEF CloseOldFile, Place
<1>3. /\ UNCHANGED <<Committed, RolledBack, Prepared, DiskCommitted,
                     DiskPrepared>>
      /\ UNCHANGED <<Logged, Older, Buried, Last>>
      /\ Unsynced' = {}
      /\ binlog' \in Seq(Seq(Txn)) /\ synced' \in 0 .. Len(binlog'[Last'])
  BY <1>1, EngineSame, FilesSync DEF EngineSets, engine
<1>4. InDoubt' = InDoubt /\ Flushed' = Flushed
  BY <1>1, <1>2, BinlogTCAssumption, CountSame, FlushedSame DEF Session
<1>5. TypeOK'
  <2>1. /\ Len(binlog') = Len(binlog)
        /\ synced' \in 0 .. Len(binlog'[Len(binlog')])
    BY <1>3 DEF Last
  <2> QED
    BY <1>1, <1>2, <1>3, <2>1 DEF TypeOK
<1>6. Phases'
  BY <1>1, <1>2, <1>3, <1>4 DEF IInv, Phases, Phase, Rotating, Session
<1>7. Agree'
  BY <1>1, <1>2, <1>3, <1>4, EngineOrder DEF IInv, Agree, Session
<1>8. Held'
  BY <1>1, <1>2, <1>3, <1>4 DEF IInv, Held, Rotating, Session
<1>9. Counting'
  BY <1>1, <1>2, <1>3, <1>4 DEF IInv, Counting
<1>10. Recovering'
  BY <1>1 DEF Recovering
<1>11. Pending'
  BY <1>1, <1>2, <1>3, <1>4, FilesOrder, EngineOrder DEF IInv, Pending, Session
<1>12. InLastFile'
  BY <1>1, <1>2, <1>3, <1>4 DEF IInv, InLastFile
<1>13. NotPromised'
  BY <1>3 DEF NotPromised
<1>14. FileCount'
  BY <1>1, <1>2, <1>3, <1>4 DEF IInv, FileCount, Rotating, Session
<1> QED
  BY <1>5, <1>6, <1>7, <1>8, <1>9, <1>10, <1>11, <1>12, <1>13, <1>14 DEF IInv

\* The new file starts when nobody is in doubt.
LEMMA OpenInv ==
  ASSUME IInv, NEW s \in Session, OpenNewFile(s)
  PROVE  IInv'
<1>1. /\ TypeOK
      /\ server = "up"
      /\ pc[s] = "open"
      /\ LOCK_log = s
      /\ s \in Txn => Last < MaxFiles
      /\ s \in Txn \ owns_prepare_mutex => s \in DiskCommitted
      /\ s \in owns_prepare_mutex => /\ s \in Txn /\ prepare_commit_mutex = s
                                     /\ s \in DiskPrepared /\ s \notin Logged
      /\ Logged \subseteq DiskCommitted
      /\ binlog' = Append(binlog, <<>>)
      /\ synced' = 0
      /\ in_use' = TRUE
      /\ LOCK_log' = None
      /\ UNCHANGED <<server, failed, prepare_commit_mutex, owns_prepare_mutex,
                     prepared_xids, redo, flushed, crashes>>
  BY Quiescent DEF IInv, TypeOK, Phases, Phase, Held, FileCount, Rotating,
     OpenNewFile, At, engine
<1>2. /\ pc' \in [Session -> Place]
      /\ \/ /\ s \in owns_prepare_mutex
            /\ pc'[s] = "log_xid" /\ outcome' = outcome
         \/ /\ s \notin owns_prepare_mutex /\ pc'[s] = "done"
            /\ outcome' = [t \in Txn |-> IF t = s THEN "commit" ELSE outcome[t]]
      /\ \A u \in Session \ {s} : pc'[u] = pc[u]
  BY <1>1, GotoFacts DEF OpenNewFile, Return, Finished, Place
<1>3. /\ UNCHANGED <<Committed, RolledBack, Prepared, DiskCommitted,
                     DiskPrepared>>
      /\ Logged' = Logged /\ Older' = Logged /\ Buried' = Logged
      /\ Unsynced' = {} /\ Last' = Last + 1
      /\ binlog' \in Seq(Seq(Txn)) /\ synced' \in 0 .. Len(binlog'[Last'])
  BY <1>1, EngineSame, FilesAppend DEF EngineSets, engine
<1>4. InDoubt' = InDoubt
  BY <1>1, <1>2, CountSame DEF Session
<1>5. /\ Last' <= MaxFiles + crashes + Cardinality(Flushed')
      /\ Last' \in 1 .. MaxFiles + MaxCrashes + Cardinality(Flushers)
  <2>1. /\ Last \in Nat /\ Last >= 1 /\ crashes \in 0 .. MaxCrashes
        /\ MaxFiles \in Nat /\ MaxCrashes \in Nat
    BY <1>1, FilesOrder, BinlogTCAssumption DEF TypeOK
  <2>2. Last <= MaxFiles + crashes + Cardinality(Flushed)
    BY <1>1, <2>1 DEF IInv, FileCount
  <2>3. Flushed' \subseteq Flushers
    BY DEF Flushed
  <2>4. /\ Cardinality(Flushed') <= Cardinality(Flushers)
        /\ Cardinality(Flushed') \in Nat /\ Cardinality(Flushers) \in Nat
    BY <2>3, BinlogTCAssumption, FS_Subset, FS_CardinalityType
  <2>5. CASE s \in Txn
    BY <1>1, <1>3, <2>1, <2>4, <2>5
  <2>6. CASE s \in Flushers
    <3>1. Flushed' = Flushed \union {s} /\ s \notin Flushed
      BY <1>1, <1>2, <2>6, BinlogTCAssumption DEF Flushed, Session
    <3>2. Cardinality(Flushed') = Cardinality(Flushed) + 1
      BY <3>1, Finite, FS_AddElement
    <3>3. Cardinality(Flushed) \in Nat /\ Last' = Last + 1
      BY <1>3, Finite
    <3> HIDE DEF Last
    <3> QED
      BY <2>1, <2>2, <2>4, <3>2, <3>3
  <2> QED
    BY <2>5, <2>6 DEF Session
<1>6. TypeOK'
  <2> HIDE DEF Last
  <2>1. /\ Len(binlog') = Len(binlog) + 1
        /\ synced' \in 0 .. Len(binlog'[Len(binlog')])
    BY <1>3 DEF Last
  <2>2. Len(binlog') \in 1 .. MaxFiles + MaxCrashes + Cardinality(Flushers)
    BY <1>5, <2>1 DEF Last
  <2>3. outcome' \in [Txn -> {"none", "commit", "abort"}]
    BY <1>1, <1>2 DEF TypeOK
  <2> QED
    BY <1>1, <1>2, <1>3, <2>1, <2>2, <2>3 DEF TypeOK
<1>7. Phases'
  BY <1>1, <1>2, <1>3 DEF IInv, Phases, Phase, Rotating, Session
<1>8. Agree'
  BY <1>1, <1>2, <1>3, <1>4, <1>5, EngineOrder DEF IInv, Agree, Session
<1>9. Held'
  BY <1>1, <1>2, <1>3, <1>4, <1>5 DEF IInv, Held, Rotating, Session
<1>10. Counting'
  BY <1>1, <1>2, <1>4 DEF IInv, Counting
<1>11. Recovering'
  BY <1>1 DEF Recovering
<1>12. Pending'
  BY <1>1, <1>2, <1>3, FilesOrder, EngineOrder DEF IInv, Pending, Session
<1>13. InLastFile'
  BY <1>1, <1>3 DEF IInv, InLastFile
<1>14. NotPromised'
  BY <1>3 DEF NotPromised
<1>15. FileCount'
  <2>1. \A t \in Txn : pc'[t] \notin Rotating
    BY <1>1, <1>2 DEF IInv, Held, Rotating, Session
  <2> QED
    BY <1>1, <1>5, <2>1 DEF FileCount
<1> QED
  BY <1>6, <1>7, <1>8, <1>9, <1>10, <1>11, <1>12, <1>13, <1>14, <1>15 DEF IInv


\* A crash keeps a prefix of each log, with what is on the disk.
LEMMA CrashInv ==
  ASSUME IInv, Crash
  PROVE  IInv'
<1>1. /\ TypeOK
      /\ crashes < MaxCrashes
      /\ crashes' = crashes + 1
      /\ server' = "recover"
      /\ prepare_commit_mutex' = None
      /\ owns_prepare_mutex' = {}
      /\ LOCK_log' = None
      /\ prepared_xids' = 0
      /\ failed' = {}
      /\ UNCHANGED <<outcome, in_use>>
  BY DEF IInv, Crash
<1>2. /\ pc' \in [Session -> Place]
      /\ \A u \in Session : pc'[u] = IF pc[u] \in {"idle", "done"} THEN pc[u]
         ELSE "dead"
  BY <1>1 DEF Crash, TypeOK, Place
<1>3. /\ DiskCommitted \subseteq Committed' /\ Committed' \subseteq Committed
      /\ RolledBack' \subseteq RolledBack /\ Prepared' \subseteq Prepared
      /\ DiskPrepared \subseteq Prepared'
      /\ DiskCommitted' = Committed' /\ DiskPrepared' = Prepared'
      /\ redo' \in Seq(Record) /\ flushed' = Len(redo')
      /\ flushed' \in 0 .. Len(redo')
      /\ Logged' \subseteq Logged /\ Logged \subseteq Logged' \union Unsynced
      /\ Older' = Older /\ Unsynced' = {} /\ Last' = Last
      /\ binlog' \in Seq(Seq(Txn)) /\ synced' \in 0 .. Len(binlog'[Last'])
  <2>1. PICK n \in flushed .. Len(redo) : redo' = SubSeq(redo, 1, n) /\
     flushed' = n
    BY DEF Crash
  <2>2. PICK m \in synced .. Len(binlog[Last]) :
           /\ binlog' = [binlog EXCEPT ![Last] = SubSeq(@, 1, m)]
           /\ synced' = m
    BY DEF Crash
  <2>3. /\ DiskCommitted \subseteq Committed' /\ Committed' \subseteq Committed
        /\ RolledBack' \subseteq RolledBack /\ Prepared' \subseteq Prepared
        /\ DiskPrepared \subseteq Prepared'
        /\ DiskCommitted' = Committed' /\ DiskPrepared' = Prepared'
        /\ redo' \in Seq(Record) /\ flushed' = Len(redo')
        /\ flushed' \in 0 .. Len(redo')
    BY <1>1, <2>1, EngineCrash
  <2>4. /\ Logged' \subseteq Logged /\ Logged \subseteq Logged' \union Unsynced
        /\ Older' = Older /\ Unsynced' = {} /\ Last' = Last
        /\ binlog' \in Seq(Seq(Txn)) /\ synced' \in 0 .. Len(binlog'[Last'])
    BY <1>1, <2>2, FilesCrash
  <2> QED
    BY <2>3, <2>4
<1>4. TypeOK'
  <2>1. /\ Len(binlog') = Len(binlog)
        /\ synced' \in 0 .. Len(binlog'[Len(binlog')])
    BY <1>3 DEF Last
  <2>2. prepared_xids' \in 0 .. Cardinality(Txn) /\ crashes' \in 0 ..
     MaxCrashes
    BY <1>1, Finite, BinlogTCAssumption DEF TypeOK
  <2> QED
    BY <1>1, <1>2, <1>3, <2>1, <2>2 DEF TypeOK
<1>5. Phases'
  <2> SUFFICES ASSUME NEW t \in Txn PROVE Phase(t)'
    BY DEF Phases
  <2>1. t \in Session /\ Phase(t)
    BY DEF Session, IInv, Phases
  <2> QED
    BY <1>1, <1>2, <1>3, <2>1 DEF Phase, Rotating
<1>6. Agree'
  <2>1. Committed' \subseteq Logged'
    <3> SUFFICES ASSUME NEW t \in Committed' PROVE t \in Logged'
      OBVIOUS
    <3>1. t \in Committed /\ t \in Txn
      BY <1>1, <1>3, EngineOrder
    <3>2. t \in Logged /\ pc[t] # "sync"
      BY <3>1 DEF IInv, Agree, Phases, Phase
    <3> QED
      BY <1>3, <3>1, <3>2 DEF IInv, NotPromised
  <2>2. Logged' \subseteq DiskPrepared'
    BY <1>3 DEF IInv, Agree
  <2>3. ASSUME NEW t \in RolledBack'
        PROVE  t \notin Logged' /\ (pc'[t] = "dead" \/ outcome'[t] = "abort")
    BY <1>1, <1>2, <1>3, EngineOrder DEF IInv, Agree, Session, Phases, Phase
  <2> QED
    BY <2>1, <2>2, <2>3 DEF Agree
<1>7. Held'
  BY <1>2 DEF Held, Rotating, Session
<1>8. Counting'
  <2>1. InDoubt' = {}
    BY <1>2 DEF InDoubt, Session
  <2> QED
    BY <1>1, <1>2, <2>1, FS_EmptySet DEF Counting
<1>9. Recovering'
  BY <1>2, <1>3 DEF Recovering
<1>10. Pending'
  BY <1>1 DEF Pending
<1>11. InLastFile'
  BY <1>1, <1>3 DEF IInv, InLastFile
<1>12. NotPromised'
  BY <1>3 DEF NotPromised
<1>13. FileCount'
  <2>1. Flushed' = Flushed
    BY <1>2, FlushedSame DEF Session
  <2>2. /\ Last \in Nat /\ crashes \in Nat /\ Cardinality(Flushed) \in Nat
        /\ MaxFiles \in Nat
    BY <1>1, FilesOrder, Finite, BinlogTCAssumption DEF TypeOK
  <2>3. Last <= MaxFiles + crashes + Cardinality(Flushed)
    BY <2>2 DEF IInv, FileCount
  <2>4. Last' + 1 <= MaxFiles + crashes' + Cardinality(Flushed')
    BY <1>1, <1>3, <2>1, <2>2, <2>3
  <2> QED
    BY <1>1, <1>2, <2>4 DEF FileCount, Rotating, Session
<1> QED
  BY <1>4, <1>5, <1>6, <1>7, <1>8, <1>9, <1>10, <1>11, <1>12, <1>13 DEF IInv

\* What EngineState reads off the redo log, and DurableState off its flushed
\* part.
LEMMA EngineStateIs ==
  ASSUME TypeOK, NEW t \in Txn
  PROVE  /\ EngineState(t, redo) = "committed" <=> t \in Committed
         /\ EngineState(t, redo) = "prepared" <=>
              t \in Prepared /\ t \notin Committed \union RolledBack
BY DEF EngineState, Elems, Committed, RolledBack, Prepared, With

\* The state in which recovery finds a transaction, as sets.
LEMMA DurableStateIs ==
  ASSUME TypeOK, NEW t \in Txn
  PROVE  /\ DurableState(t) = "committed" <=> t \in DiskCommitted
         /\ DurableState(t) = "rolledback" <=>
              t \in DiskRolledBack \ DiskCommitted
         /\ DurableState(t) = "prepared" <=>
              t \in DiskPrepared \ (DiskCommitted \union DiskRolledBack)
<1> DEFINE r == SubSeq(redo, 1, flushed)
<1>1. redo \in Seq(Record) /\ flushed \in 0 .. Len(redo) /\ Len(redo) \in Nat
  BY DEF TypeOK
<1>2. Len(r) = flushed /\ \A i \in 1 .. flushed : r[i] = redo[i]
  BY <1>1, SubSeqProperties
<1>3. ASSUME NEW k
      PROVE  [trx |-> t, kind |-> k] \in Elems(r) <=> t \in With(k, flushed)
  <2> HIDE DEF r
  <2> QED
    BY <1>2 DEF Elems, With
<1> QED
  BY <1>3 DEF DurableState, EngineState, DiskCommitted, DiskRolledBack,
              DiskPrepared

\* An event that is not in the last file is in an older one.
LEMMA InLast ==
  ASSUME TypeOK, NEW t \in Logged
  PROVE  t \in Older \/ t \in Elems(binlog[Last])
<1>1. 1 .. Last = (1 .. Last - 1) \union {Last}
  BY FilesOrder
<1> QED
  BY <1>1 DEF Logged, Older

\* Recovery decides a prepared transaction by the last file.
LEMMA XaRecoverInv ==
  ASSUME IInv, NEW t \in Txn, xarecover(t)
  PROVE  IInv'
<1>1. /\ TypeOK
      /\ t \in Session
      /\ server = "recover"
      /\ t \in Prepared
      /\ t \notin Committed \union RolledBack
      /\ pc[t] \in {"done", "dead"}
      /\ flushed' = Len(redo) + 1
      /\ UNCHANGED <<server, pc, outcome, failed, prepare_commit_mutex,
                     owns_prepare_mutex, LOCK_log, prepared_xids, binlog,
                     synced, in_use, crashes>>
  BY EngineStateIs DEF IInv, Recovering, Phases, Phase, xarecover, Session,
     files
<1>2. \/ Logs(t, "commit") /\ t \in Logged
      \/ /\ Logs(t, "rollback") /\ t \notin Logged
         /\ pc[t] = "dead" \/ outcome[t] = "abort"
  <2>1. CASE t \in CommitList
    <3>1. t \in Logged
      BY <2>1, FilesOrder, <1>1 DEF CommitList, Logged
    <3> QED
      BY <2>1, <3>1 DEF xarecover
  <2>2. CASE t \notin CommitList
    <3>1. t \notin Logged
      <4>1. t \notin DiskCommitted
        BY <1>1, EngineOrder
      <4> QED
        BY <1>1, <2>2, <4>1, InLast DEF IInv, InLastFile, CommitList
    <3>2. pc[t] = "dead" \/ outcome[t] = "abort"
      BY <1>1, EngineOrder DEF IInv, Phases, Phase, TypeOK
    <3> QED
      BY <2>2, <3>1, <3>2 DEF xarecover
  <2> QED
    BY <2>1, <2>2
<1>3. /\ UNCHANGED <<Logged, Older, Buried, Unsynced, Last>>
      /\ redo' \in Seq(Record) /\ flushed' = Len(redo')
      /\ flushed' \in 0 .. Len(redo')
      /\ Prepared' = Prepared /\ DiskPrepared' = Prepared /\ DiskCommitted' =
         Committed'
      /\ \/ /\ Committed' = Committed \union {t} /\ RolledBack' = RolledBack
            /\ t \in Logged
         \/ /\ Committed' = Committed /\ RolledBack' = RolledBack \union {t}
            /\ t \notin Logged /\ (pc[t] = "dead" \/ outcome[t] = "abort")
  BY <1>1, <1>2, FilesSame, EngineAppend DEF BinlogSets, Kinds
<1>4. TypeOK'
  BY <1>1, <1>3 DEF TypeOK
<1>5. Phases'
  <2> SUFFICES ASSUME NEW u \in Txn PROVE Phase(u)'
    BY DEF Phases
  <2>1. Phase(u) /\ u \in Session /\ pc[u] \in {"idle", "done", "dead"}
    BY <1>1 DEF IInv, Phases, Recovering, Session
  <2> QED
    BY <1>1, <1>3, <2>1, EngineOrder DEF Phase
<1>6. Agree'
  BY <1>1, <1>3, EngineOrder DEF IInv, Agree
<1>7. Held'
  BY <1>1 DEF IInv, Held
<1>8. Counting'
  <2>1. InDoubt' = InDoubt
    BY <1>1 DEF InDoubt
  <2> QED
    BY <1>1, <2>1 DEF IInv, Counting
<1>9. Recovering'
  BY <1>1, <1>3 DEF IInv, Recovering
<1>10. Pending'
  BY <1>1 DEF Pending
<1>11. InLastFile'
  BY <1>1, <1>3, EngineOrder DEF IInv, InLastFile
<1>12. NotPromised'
  BY <1>1, <1>3 DEF IInv, NotPromised
<1>13. FileCount'
  <2>1. Flushed' = Flushed
    BY <1>1 DEF Flushed
  <2> QED
    BY <1>1, <1>3, <2>1 DEF IInv, FileCount
<1> QED
  BY <1>4, <1>5, <1>6, <1>7, <1>8, <1>9, <1>10, <1>11, <1>12, <1>13 DEF IInv


\* The server opens when nothing is prepared any more.
LEMMA OpenAfterRecoveryInv ==
  ASSUME IInv, OpenAfterRecovery
  PROVE  IInv'
<1>1. /\ TypeOK
      /\ server = "recover"
      /\ server' = "up"
      /\ binlog' = Append(binlog, <<>>)
      /\ synced' = 0
      /\ in_use' = TRUE
      /\ \A t \in Txn : EngineState(t, redo) # "prepared"
      /\ UNCHANGED <<pc, outcome, failed, prepare_commit_mutex,
                     owns_prepare_mutex, LOCK_log, prepared_xids, redo,
                     flushed, crashes>>
  BY DEF IInv, OpenAfterRecovery, engine
<1>2. /\ DiskCommitted = Committed
      /\ Logged \subseteq Committed
  <2>1. DiskCommitted = Committed
    BY <1>1 DEF IInv, Recovering, DiskCommitted, Committed
  <2>2. ASSUME NEW t \in Logged
        PROVE  t \in Committed
    <3>1. t \in Txn /\ t \in Prepared /\ t \notin RolledBack
      BY <1>1, FilesOrder, EngineOrder DEF IInv, Agree
    <3> QED
      BY <1>1, <3>1, EngineStateIs
  <2> QED
    BY <2>1, <2>2
<1>3. /\ UNCHANGED <<Committed, RolledBack, Prepared, DiskCommitted,
                     DiskPrepared>>
      /\ Logged' = Logged /\ Older' = Logged /\ Buried' = Logged
      /\ Unsynced' = {} /\ Last' = Last + 1
      /\ binlog' \in Seq(Seq(Txn)) /\ synced' \in 0 .. Len(binlog'[Last'])
  BY <1>1, EngineSame, FilesAppend DEF EngineSets, engine
<1>4. /\ Last' <= MaxFiles + crashes + Cardinality(Flushed')
      /\ Last' \in 1 .. MaxFiles + MaxCrashes + Cardinality(Flushers)
  <2>1. /\ Last \in Nat /\ Last >= 1 /\ crashes \in 0 .. MaxCrashes
        /\ MaxFiles \in Nat /\ MaxCrashes \in Nat
    BY <1>1, FilesOrder, BinlogTCAssumption DEF TypeOK
  <2>2. Last + 1 <= MaxFiles + crashes + Cardinality(Flushed)
    BY <1>1, <2>1 DEF IInv, FileCount
  <2>3. Flushed' = Flushed
    BY <1>1 DEF Flushed
  <2> QED
    BY <1>3, <2>1, <2>2, <2>3, Finite
<1>5. TypeOK'
  <2>1. /\ Len(binlog') = Len(binlog) + 1
        /\ synced' \in 0 .. Len(binlog'[Len(binlog')])
    BY <1>3 DEF Last
  <2>2. Len(binlog') \in 1 .. MaxFiles + MaxCrashes + Cardinality(Flushers)
    BY <1>4, <2>1 DEF Last
  <2> QED
    BY <1>1, <1>3, <2>1, <2>2 DEF TypeOK
<1>6. Phases'
  BY <1>1, <1>3 DEF IInv, Phases, Phase
<1>7. Agree'
  BY <1>1, <1>3 DEF IInv, Agree
<1>8. Held'
  BY <1>1 DEF IInv, Held
<1>9. Counting'
  <2>1. InDoubt' = InDoubt
    BY <1>1 DEF InDoubt
  <2> QED
    BY <1>1, <2>1 DEF IInv, Counting
<1>10. Recovering'
  BY <1>1 DEF Recovering
<1>11. Pending'
  BY <1>1, <1>2, <1>3 DEF Pending
<1>12. InLastFile'
  BY <1>1, <1>2, <1>3 DEF InLastFile
<1>13. NotPromised'
  BY <1>3 DEF NotPromised
<1>14. FileCount'
  <2>1. \A t \in Txn : pc'[t] \notin Rotating
    BY <1>1 DEF IInv, Recovering, Rotating, Session
  <2> QED
    BY <1>1, <1>4, <2>1 DEF FileCount
<1> QED
  BY <1>5, <1>6, <1>7, <1>8, <1>9, <1>10, <1>11, <1>12, <1>13, <1>14 DEF IInv

-----------------------------------------------------------------------------
(* The theorems *)

\* An empty server.
LEMMA InitInv ==
  ASSUME Init
  PROVE  IInv
<1>1. /\ redo = <<>> /\ flushed = 0 /\ binlog = <<<<>>>> /\ synced = 0
      /\ server = "up" /\ in_use = TRUE /\ crashes = 0 /\ prepared_xids = 0
      /\ \A s \in Session : pc[s] = "idle"
      /\ \A t \in Txn : outcome[t] = "none"
  BY DEF Init
<1>2. Len(redo) = 0 /\ Len(binlog) = 1 /\ Last = 1 /\ binlog[1] = <<>>
  BY <1>1 DEF Last
<1>3. Len(binlog[1]) = 0 /\ Len(binlog[Last]) = 0
  BY <1>2
<1>4. /\ Committed = {} /\ RolledBack = {} /\ Prepared = {} /\ DiskCommitted = {}
  BY <1>1, <1>2 DEF Committed, RolledBack, Prepared, DiskCommitted, With
<1>5. Logged = {} /\ Older = {} /\ Buried = {} /\ Unsynced = {}
  BY <1>2, <1>3 DEF Logged, Older, Buried, Unsynced, Elems
<1>6. InDoubt = {} /\ Flushed = {}
  BY <1>1 DEF InDoubt, Flushed, Session
<1>7. Cardinality(InDoubt) = 0 /\ Cardinality(Flushed) = 0
  BY <1>6, FS_EmptySet
<1>8. TypeOK
  <2>1. redo \in Seq(Record) /\ flushed \in 0 .. Len(redo)
    BY <1>1, <1>2
  <2>2. binlog \in Seq(Seq(Txn)) /\ synced \in 0 .. Len(binlog[Len(binlog)])
    BY <1>1, <1>2, <1>3
  <2>3. Len(binlog) \in 1 .. MaxFiles + MaxCrashes + Cardinality(Flushers)
    BY <1>2, BinlogTCAssumption, Finite
  <2>4. prepared_xids \in 0 .. Cardinality(Txn) /\ crashes \in 0 .. MaxCrashes
    BY <1>1, BinlogTCAssumption, Finite
  <2> QED
    BY <2>1, <2>2, <2>3, <2>4 DEF TypeOK, Init, Place
<1>9. Phases /\ Agree /\ NotPromised /\ InLastFile
  BY <1>1, <1>4, <1>5 DEF Phases, Phase, Rotating, Agree, NotPromised,
                          InLastFile, Session
<1>10. Held /\ Recovering
  BY <1>1 DEF Held, Rotating, Recovering, Session
<1>11. Counting /\ Pending
  BY <1>1, <1>4, <1>5, <1>7 DEF Counting, Pending
<1>12. FileCount
  BY <1>1, <1>2, <1>7, BinlogTCAssumption DEF FileCount, Rotating, Session
<1> QED
  BY <1>8, <1>9, <1>10, <1>11, <1>12 DEF IInv

\* Every step keeps the invariant.
LEMMA StepInv ==
  ASSUME CodeHypothesis, IInv, [Next]_vars
  PROVE  IInv'
<1>1. ASSUME NEW t \in Txn, innobase_xa_prepare(t) \/ Commit(t)
      PROVE  IInv'
  BY <1>1, PrepareInv, TakeMutexInv, StmtCacheInv, LogXidInv, WriteInv, SyncInv,
     RollbackInv, CommitInv, CompleteInv, UnlogInv DEF Commit
<1>2. ASSUME NEW s \in Session, FlushLogs(s) \/ Rotation(s)
      PROVE  IInv'
  BY <1>2, FlushLogsInv, RotateInv, NewFileInv, CloseInv, OpenInv DEF Rotation
<1>3. CASE Crash
  BY <1>3, CrashInv
<1>4. CASE Recovery
  BY <1>4, XaRecoverInv, OpenAfterRecoveryInv DEF Recovery
<1>5. CASE UNCHANGED vars
  <2>1. /\ UNCHANGED <<server, pc, outcome, failed, prepare_commit_mutex,
                       owns_prepare_mutex, LOCK_log, prepared_xids, redo,
                       flushed, binlog, synced, in_use, crashes>>
        /\ UNCHANGED engine
    BY <1>5 DEF vars, engine, files
  <2>2. UNCHANGED EngineSets /\ UNCHANGED BinlogSets /\ UNCHANGED Last
    BY <2>1, EngineSame, FilesSame
  <2>3. InDoubt' = InDoubt /\ Flushed' = Flushed
    BY <2>1 DEF InDoubt, Flushed
  <2>4. TypeOK'
    BY <2>1 DEF IInv, TypeOK
  <2>5. Phases' /\ Agree' /\ Held' /\ NotPromised' /\ InLastFile'
    BY <2>1, <2>2 DEF IInv, Phases, Phase, Agree, Held, NotPromised, InLastFile,
                      EngineSets, BinlogSets
  <2>6. Counting' /\ Recovering' /\ Pending' /\ FileCount'
    BY <2>1, <2>2, <2>3 DEF IInv, Counting, Recovering, Pending, FileCount,
                            EngineSets, BinlogSets
  <2> QED
    BY <2>4, <2>5, <2>6 DEF IInv
<1> QED
  BY <1>1, <1>2, <1>3, <1>4, <1>5 DEF Next

\* The invariant holds in every reachable state: in the steps of ha_commit_trans,
\* in rotations, after a crash and in the recovery from it.
THEOREM Invariance == ASSUME CodeHypothesis PROVE Spec => []IInv
<1>1. Init => IInv
  BY InitInv
<1>2. IInv /\ [Next]_vars => IInv'
  BY StepInv
<1> QED
  BY <1>1, <1>2, PTL DEF Spec

\* What recovery relies on when it reads the last binary log only: a
\* transaction that is in the binary log and still only prepared in the durable
\* part of the log of InnoDB is in the last file, marked as in use.  The wait
\* in new_file_impl guarantees it through any number of crashes and rotations.
THEOREM LogsConsistentHolds ==
  ASSUME CodeHypothesis PROVE Spec => []LogsConsistent
<1>1. ASSUME IInv
      PROVE  LogsConsistent
  <2>1. TypeOK
    BY <1>1 DEF IInv
  <2>2. ASSUME NEW t \in Txn, \E f \in 1 .. Last : t \in Elems(binlog[f]),
               DurableState(t) = "prepared"
        PROVE  in_use /\ t \in Elems(binlog[Last])
    <3>1. t \in Logged /\ t \notin DiskCommitted
      BY <2>1, <2>2, DurableStateIs DEF Logged
    <3> QED
      BY <1>1, <2>1, <3>1, InLast DEF IInv, InLastFile
  <2> QED
    BY <2>1, <2>2 DEF LogsConsistent, PreparedInLastFile
<1> QED
  BY <1>1, Invariance, PTL

\* What prepare_commit_mutex is for: at any time InnoDB has committed a prefix
\* of the binary log; only its very last entry may not be committed yet.
THEOREM PrefixCommittedHolds ==
  ASSUME CodeHypothesis PROVE Spec => []PrefixCommitted
<1>1. ASSUME IInv
      PROVE  PrefixCommitted
  <2> SUFFICES ASSUME server = "up", NEW f \in 1 .. Last, NEW g \in 1 .. Last,
                      NEW i \in 1 .. Len(binlog[f]),
                      NEW j \in 1 .. Len(binlog[g]),
                      f < g \/ (f = g /\ i < j)
               PROVE  EngineState(binlog[f][i], redo) = "committed"
    BY DEF PrefixCommitted
  <2>1. TypeOK
    BY <1>1 DEF IInv
  <2>2. /\ binlog \in Seq(Seq(Txn)) /\ Last \in Nat /\ 1 .. Last = 1 .. Len(binlog)
    BY <2>1, FilesOrder DEF TypeOK, Last
  <2>3. binlog[f] \in Seq(Txn) /\ binlog[g] \in Seq(Txn)
    BY <2>2, ElementOfSeq
  <2>4. binlog[f][i] \in Txn /\ Len(binlog[f]) \in Nat /\ Len(binlog[g]) \in Nat
    BY <2>3, ElementOfSeq
  <2>5. f < Last \/ i < Len(binlog[f])
    BY <2>2, <2>4
  <2>6. binlog[f][i] \in Buried
    BY <2>4, <2>5 DEF Buried
  <2> QED
    BY <1>1, <2>1, <2>4, <2>6, EngineStateIs DEF IInv, Pending
<1> QED
  BY <1>1, Invariance, PTL

-----------------------------------------------------------------------------
(* The refinement *)

\* An entry of the binary log is durable unless a crash may still take it.
LEMMA DurableIs ==
  ASSUME TypeOK, NEW t \in Txn
  PROVE  /\ Durable(t) => t \in Logged
         /\ t \in Logged /\ t \notin Unsynced => Durable(t)
<1>1. Durable(t) <=> \E f \in 1 .. Last : \E i \in 1 .. Len(binlog[f]) :
                       binlog[f][i] = t /\ (f = Last => i <= synced)
  BY DEF Durable
<1>2. Durable(t) => t \in Logged
  BY <1>1, LoggedIs
<1>3. ASSUME t \in Logged, t \notin Unsynced
      PROVE  Durable(t)
  <2>1. PICK f \in 1 .. Last : \E i \in 1 .. Len(binlog[f]) : binlog[f][i] = t
    BY <1>3, LoggedIs
  <2>2. PICK i \in 1 .. Len(binlog[f]) : binlog[f][i] = t
    BY <2>1
  <2>3. f = Last => i <= synced
    <3>1. synced \in Nat /\ Len(binlog[Last]) \in Nat
      BY FilesOrder DEF TypeOK, Last
    <3> QED
      BY <1>3, <2>2, <3>1 DEF Unsynced
  <2> QED
    BY <1>1, <2>2, <2>3
<1> QED
  BY <1>2, <1>3

\* What is durable in the binary log stays so.
LEMMA DurableStable ==
  ASSUME TypeOK, TypeOK', NEW t \in Txn, Durable(t),
         \/ Last' = Last
         \/ Last' = Last + 1,
         synced' >= synced \/ Last' = Last + 1,
         \A f \in 1 .. Last : \A i \in 1 .. Len(binlog[f]) :
            f < Last \/ i <= synced =>
              i \in 1 .. Len(binlog'[f]) /\ binlog'[f][i] = binlog[f][i]
  PROVE  Durable(t)'
<1>1. PICK f \in 1 .. Last : \E i \in 1 .. Len(binlog[f]) :
         binlog[f][i] = t /\ (f = Last => i <= synced)
  BY DEF Durable
<1>2. PICK i \in 1 .. Len(binlog[f]) :
         binlog[f][i] = t /\ (f = Last => i <= synced)
  BY <1>1
<1>3. /\ Last \in Nat /\ synced \in Nat /\ synced' \in Nat
      /\ f \in Nat /\ f <= Last /\ f >= 1 /\ i \in Nat
  <2>1. Last \in Nat
    BY FilesOrder
  <2>2. i \in Nat
    BY <1>2
  <2> QED
    BY <2>1, <2>2 DEF TypeOK
<1>4. f < Last \/ i <= synced
  BY <1>2, <1>3
<1>5. i \in 1 .. Len(binlog'[f]) /\ binlog'[f][i] = t
  BY <1>2, <1>4
<1>6. f \in 1 .. Last'
  BY <1>3
<1>7. f = Last' => i <= synced'
  BY <1>2, <1>3
<1> QED
  BY <1>5, <1>6, <1>7 DEF Durable

\* The binary log does not change.
LEMMA DurableSame ==
  ASSUME UNCHANGED <<binlog, synced>>, NEW t \in Txn
  PROVE  Durable(t)' = Durable(t) /\ Logged' = Logged
BY FilesSame DEF Durable, Last, BinlogSets

\* What is on the disk in the log of InnoDB stays there.
LEMMA EngineForward ==
  ASSUME TypeOK, [Next]_vars
  PROVE  /\ DiskCommitted \subseteq DiskCommitted'
         /\ DiskRolledBack \subseteq DiskRolledBack'
<1>1. CASE UNCHANGED engine
  BY <1>1, EngineSame DEF EngineSets
<1>2. ASSUME NEW t \in Txn, NEW k \in Kinds, Logs(t, k),
             flushed' = flushed \/ flushed' = Len(redo) + 1
      PROVE  /\ DiskCommitted \subseteq DiskCommitted'
             /\ DiskRolledBack \subseteq DiskRolledBack'
  BY <1>2, EngineAppend, EngineOrder
<1>3. CASE redo' = redo /\ flushed' = Len(redo)
  BY <1>3, EngineFlush, EngineOrder
<1>4. CASE \E n \in flushed .. Len(redo) :
              redo' = SubSeq(redo, 1, n) /\ flushed' = n
  BY <1>4, EngineCrash
<1>5. ASSUME NEW t \in Txn, innobase_xa_prepare(t) \/ Commit(t) \/ xarecover(t)
      PROVE  \/ UNCHANGED engine
             \/ \E k \in Kinds : /\ Logs(t, k)
                                 /\ flushed' = flushed \/ flushed' = Len(redo) + 1
             \/ redo' = redo /\ flushed' = Len(redo)
  BY <1>5 DEF innobase_xa_prepare, Commit, TakePrepareCommitMutex,
              FlushStmtCache, log_xid,
              WriteXid, SyncXid, innobase_rollback, innobase_commit,
              trx_commit_complete, unlog, xarecover, Kinds
<1>6. ASSUME NEW t \in Txn, innobase_xa_prepare(t) \/ Commit(t) \/ xarecover(t)
       PROVE  /\ DiskCommitted \subseteq DiskCommitted'
              /\ DiskRolledBack \subseteq DiskRolledBack'
  BY <1>1, <1>2, <1>3, <1>5, <1>6
<1>7. ASSUME NEW s \in Session, FlushLogs(s) \/ Rotation(s)
      PROVE  UNCHANGED engine
  BY <1>7 DEF FlushLogs, Rotation, rotate_and_purge, new_file_impl,
              CloseOldFile, OpenNewFile
<1>8. CASE Crash
  BY <1>4, <1>8 DEF Crash
<1>9. CASE OpenAfterRecovery
  BY <1>1, <1>9 DEF OpenAfterRecovery
<1>10. CASE UNCHANGED vars
  BY <1>1, <1>10 DEF vars
<1> QED
  BY <1>6, <1>7, <1>1, <1>8, <1>9, <1>10 DEF Next, Recovery

\* What is durable in the binary log stays there, and only WriteXid adds to it.
LEMMA FilesForward ==
  ASSUME IInv, TypeOK', [Next]_vars, CodeHypothesis, NEW t \in Txn
  PROVE  /\ Durable(t) => Durable(t)'
         /\ t \notin Logged /\ pc[t] # "write" => t \notin Logged'
<1>1. /\ TypeOK /\ Last \in Nat /\ Last >= 1 /\ synced \in 0 .. Len(binlog[Last])
      /\ Len(binlog[Last]) \in Nat /\ binlog \in Seq(Seq(Txn))
      /\ Last = Len(binlog) /\ synced \in Nat
  <2>1. TypeOK
    BY DEF IInv
  <2>2. Last \in Nat /\ Last >= 1 /\ Len(binlog[Last]) \in Nat
    BY <2>1, FilesOrder
  <2>3. /\ synced \in 0 .. Len(binlog[Last]) /\ binlog \in Seq(Seq(Txn))
        /\ Last = Len(binlog)
    BY <2>1 DEF TypeOK, Last
  <2> QED
    BY <2>1, <2>2, <2>3
<1>2. CASE UNCHANGED <<binlog, synced>>
  BY <1>2, DurableSame
<1>3. CASE binlog' = binlog /\ synced' = Len(binlog[Last])
  <2>1. Logged' = Logged /\ Last' = Last
    BY <1>1, <1>3, FilesSync
  <2>2. synced' >= synced
    BY <1>1, <1>3
  <2> QED
    BY <1>1, <1>3, <2>1, <2>2, DurableStable
<1>4. CASE binlog' = Append(binlog, <<>>) /\ synced' = 0
  <2>1. Logged' = Logged /\ Last' = Last + 1
    BY <1>1, <1>4, FilesAppend
  <2>2. \A f \in 1 .. Last : binlog'[f] = binlog[f]
    BY <1>1, <1>4, AppendProperties
  <2> QED
    BY <1>1, <2>1, <2>2, DurableStable
<1>5. ASSUME NEW u \in Txn, WriteXid(u)
      PROVE  /\ Durable(t) => Durable(t)'
             /\ t \notin Logged /\ pc[t] # "write" => t \notin Logged'
  <2>1. pc[u] = "write" /\ synced' = synced
    BY <1>5 DEF WriteXid, At
  <2>2. CASE binlog' = [binlog EXCEPT ![Last] = Append(@, u)]
    <3>1. Logged' = Logged \union {u} /\ Last' = Last
      BY <1>1, <2>1, <2>2, FilesWrite
    <3>2. /\ Len(Append(binlog[Last], u)) = Len(binlog[Last]) + 1
          /\ \A i \in 1 .. Len(binlog[Last]) :
               Append(binlog[Last], u)[i] = binlog[Last][i]
      BY <1>1, FilesOrder, AppendProperties
    <3>3. /\ \A f \in 1 .. Last : f # Last => binlog'[f] = binlog[f]
          /\ binlog'[Last] = Append(binlog[Last], u)
      BY <1>1, <2>2, ExceptSeq
    <3>4. \A f \in 1 .. Last : \A i \in 1 .. Len(binlog[f]) :
            i \in 1 .. Len(binlog'[f]) /\ binlog'[f][i] = binlog[f][i]
      <4> SUFFICES ASSUME NEW f \in 1 .. Last, NEW i \in 1 .. Len(binlog[f])
                   PROVE  i \in 1 .. Len(binlog'[f]) /\ binlog'[f][i] = binlog[f][i]
        OBVIOUS
      <4>1. CASE f # Last
        BY <3>3, <4>1
      <4>2. CASE f = Last
        <5>1. i \in 1 .. Len(binlog[Last]) /\ i \in 1 .. Len(binlog[Last]) + 1
          BY <1>1, <4>2
        <5> QED
          BY <3>2, <3>3, <4>2, <5>1
      <4> QED
        BY <4>1, <4>2
    <3>5. synced' >= synced
      BY <1>1, <2>1
    <3>6. Durable(t) => Durable(t)'
      BY <1>1, <3>1, <3>4, <3>5, DurableStable
    <3> QED
      BY <2>1, <3>1, <3>6
  <2>3. CASE UNCHANGED binlog
    BY <1>2, <2>1, <2>3
  <2> QED
    BY <1>5, <2>2, <2>3 DEF WriteXid
<1>6. CASE Crash
  <2>1. PICK n \in synced .. Len(binlog[Last]) :
          binlog' = [binlog EXCEPT ![Last] = SubSeq(@, 1, n)] /\ synced' = n
    BY <1>6 DEF Crash
  <2>2. /\ Logged' \subseteq Logged /\ Last' = Last
        /\ n \in Nat /\ Len(binlog'[Last]) = n
        /\ \A f \in 1 .. Last : f # Last => binlog'[f] = binlog[f]
        /\ \A i \in 1 .. n : binlog'[Last][i] = binlog[Last][i]
    BY <1>1, <2>1, FilesCrash
  <2>3. synced' >= synced
    BY <1>1, <2>1
  <2>4. ASSUME NEW f \in 1 .. Last, NEW i \in 1 .. Len(binlog[f]),
               f < Last \/ i <= synced
        PROVE  i \in 1 .. Len(binlog'[f]) /\ binlog'[f][i] = binlog[f][i]
    <3>1. CASE f # Last
      BY <2>2, <3>1
    <3>2. CASE f = Last
      <4>1. i \in 1 .. n
        BY <1>1, <2>1, <2>4, <3>2
      <4> QED
        BY <2>2, <3>2, <4>1
    <3> QED
      BY <3>1, <3>2
  <2> QED
    BY <1>1, <2>2, <2>3, <2>4, DurableStable
<1>7. ASSUME NEW u \in Txn, innobase_xa_prepare(u) \/ Commit(u) \/ xarecover(u),
             ~WriteXid(u)
      PROVE  \/ UNCHANGED <<binlog, synced>>
             \/ binlog' = binlog /\ synced' = Len(binlog[Last])
  BY <1>7 DEF innobase_xa_prepare, Commit, TakePrepareCommitMutex,
              FlushStmtCache, log_xid,
              SyncXid, innobase_rollback, innobase_commit, trx_commit_complete,
              unlog, xarecover, files, CodeHypothesis
<1>8. ASSUME NEW u \in Session, FlushLogs(u) \/ Rotation(u)
      PROVE  \/ UNCHANGED <<binlog, synced>>
             \/ binlog' = binlog /\ synced' = Len(binlog[Last])
             \/ binlog' = Append(binlog, <<>>) /\ synced' = 0
  BY <1>8 DEF FlushLogs, Rotation, rotate_and_purge, new_file_impl,
              CloseOldFile, OpenNewFile, files
<1>9. CASE OpenAfterRecovery
  BY <1>4, <1>9 DEF OpenAfterRecovery
<1>10. CASE UNCHANGED vars
  BY <1>2, <1>10 DEF vars, files
<1>11. ASSUME NEW u \in Txn, innobase_xa_prepare(u) \/ Commit(u) \/ xarecover(u)
       PROVE  /\ Durable(t) => Durable(t)'
              /\ t \notin Logged /\ pc[t] # "write" => t \notin Logged'
  BY <1>2, <1>3, <1>5, <1>7, <1>11
<1>12. ASSUME NEW u \in Session, FlushLogs(u) \/ Rotation(u)
       PROVE  /\ Durable(t) => Durable(t)'
              /\ t \notin Logged /\ pc[t] # "write" => t \notin Logged'
  BY <1>2, <1>3, <1>4, <1>8, <1>12
<1> QED
  BY <1>6, <1>9, <1>10, <1>11, <1>12 DEF Next, Recovery

\* An answer is given once, and a session that died does not come back.
LEMMA SessionForward ==
  ASSUME IInv, [Next]_vars, NEW t \in Txn
  PROVE  /\ outcome[t] # "none" => outcome'[t] = outcome[t]
         /\ pc[t] = "dead" => pc'[t] = "dead"
<1>1. /\ TypeOK /\ t \in Session /\ (outcome[t] # "none" => pc[t] = "done")
      /\ outcome \in [Txn -> {"none", "commit", "abort"}]
      /\ pc \in [Session -> Place]
  BY DEF IInv, Phases, Phase, Rotating, Session, TypeOK
<1>2. ASSUME NEW u \in Txn, innobase_xa_prepare(u) \/ Commit(u)
      PROVE  /\ outcome[t] # "none" => outcome'[t] = outcome[t]
             /\ pc[t] = "dead" => pc'[t] = "dead"
  <2>1. u \in Session /\ pc[u] \notin {"dead", "done"}
    BY <1>2 DEF innobase_xa_prepare, Commit, TakePrepareCommitMutex,
              FlushStmtCache, log_xid,
              WriteXid, SyncXid, innobase_rollback, innobase_commit,
              trx_commit_complete, unlog, At, Session
  <2>2. outcome' = outcome \/ (t # u => outcome'[t] = outcome[t])
    BY <1>1, <1>2 DEF innobase_xa_prepare, Commit, TakePrepareCommitMutex,
              FlushStmtCache, log_xid, WriteXid, SyncXid, innobase_rollback,
              innobase_commit,
              trx_commit_complete, unlog
  <2>3. t # u => pc'[t] = pc[t] \/ (pc[t] = "wait" /\ pc'[t] = "new_file")
    <3>1. CASE unlog(u)
      BY <1>1, <3>1 DEF unlog, Signalled
    <3>2. CASE innobase_xa_prepare(u) \/ (Commit(u) /\ ~unlog(u))
      <4>1. \E w : pc' = [pc EXCEPT ![u] = w]
        BY <3>2 DEF innobase_xa_prepare, Commit, TakePrepareCommitMutex,
              FlushStmtCache, log_xid, WriteXid, SyncXid, innobase_rollback,
              innobase_commit,
              trx_commit_complete, Goto
      <4> QED
        BY <1>1, <4>1
    <3> QED
      BY <1>2, <3>1, <3>2
  <2> QED
    BY <1>1, <2>1, <2>2, <2>3
<1>3. ASSUME NEW s \in Session, FlushLogs(s) \/ Rotation(s)
      PROVE  /\ outcome[t] # "none" => outcome'[t] = outcome[t]
             /\ pc[t] = "dead" => pc'[t] = "dead"
  <2>1. pc[s] \notin {"dead", "done"}
    BY <1>3 DEF FlushLogs, Rotation, rotate_and_purge, new_file_impl,
                CloseOldFile, OpenNewFile, At
  <2>2. t # s => outcome'[t] = outcome[t]
    BY <1>1, <1>3 DEF FlushLogs, Rotation, rotate_and_purge, new_file_impl,
                CloseOldFile, OpenNewFile, Return, Finished
  <2>3. \E w : pc' = [pc EXCEPT ![s] = w]
    BY <1>3 DEF FlushLogs, Rotation, rotate_and_purge, new_file_impl,
                CloseOldFile, OpenNewFile, Return, Finished, Goto
  <2> QED
    BY <1>1, <2>1, <2>2, <2>3
<1>4. CASE Crash
  BY <1>1, <1>4 DEF Crash
<1>5. CASE Recovery
  BY <1>5 DEF Recovery, OpenAfterRecovery, xarecover
<1>6. CASE UNCHANGED vars
  BY <1>6 DEF vars
<1> QED
  BY <1>2, <1>3, <1>4, <1>5, <1>6 DEF Next

\* The values of the mapping, and that they agree.
AgreedOn(t) ==
  /\ Decision(t) \in {"none", "commit", "abort"}
  /\ Applied(t) \in {"none", "commit", "abort"}
  /\ outcome[t] # "none" => Decision(t) = outcome[t]
  /\ Applied(t) # "none" => Decision(t) = Applied(t)
  /\ Decision(t) = "commit" <=> Durable(t)
  /\ Decision(t) = "abort" <=> /\ ~Durable(t)
                               /\ outcome[t] = "abort" \/ pc[t] = "dead"
  /\ Applied(t) = "commit" <=> t \in DiskCommitted
  /\ Applied(t) = "abort" <=> t \in DiskRolledBack \ DiskCommitted

Agreement == \A t \in Txn : AgreedOn(t)

\* Client, binary log and engine agree.
LEMMA AgreementHolds ==
  ASSUME CodeHypothesis, IInv
  PROVE  Agreement
<1> SUFFICES ASSUME NEW t \in Txn
             PROVE  AgreedOn(t)
  BY DEF Agreement
<1>1. /\ Durable(t) => t \in Logged
      /\ t \in Logged /\ pc[t] # "sync" => Durable(t)
  BY DurableIs DEF IInv, NotPromised
<1>2. /\ Decision(t) = "commit" <=> Durable(t)
      /\ Decision(t) = "abort" <=> /\ ~Durable(t)
                                   /\ outcome[t] = "abort" \/ pc[t] = "dead"
      /\ Decision(t) \in {"none", "commit", "abort"}
  BY DEF Decision, CodeHypothesis
<1>3. /\ Applied(t) = "commit" <=> t \in DiskCommitted
      /\ Applied(t) = "abort" <=> t \in DiskRolledBack \ DiskCommitted
      /\ Applied(t) \in {"none", "commit", "abort"}
  BY DurableStateIs DEF Applied, IInv
<1>4. t \in DiskCommitted => Durable(t)
  BY <1>1, EngineOrder DEF IInv, Agree, Phases, Phase
<1>5. t \in DiskRolledBack => /\ ~Durable(t)
                              /\ outcome[t] = "abort" \/ pc[t] = "dead"
  BY <1>1, EngineOrder DEF IInv, Agree
<1>6. outcome[t] \in {"none", "commit", "abort"}
  BY DEF IInv, TypeOK
<1>7. /\ outcome[t] = "commit" => Durable(t)
      /\ outcome[t] = "abort" => ~Durable(t)
  BY <1>1, <1>4 DEF IInv, Phases, Phase
<1> QED
  BY <1>2, <1>3, <1>4, <1>5, <1>6, <1>7 DEF AgreedOn

\* Initially nothing is decided.
LEMMA InitRefines ==
  ASSUME CodeHypothesis, Init
  PROVE  AC!Init
<1>1. IInv /\ Agreement
  BY InitInv, AgreementHolds
<1>2. Logged = {} /\ DiskCommitted = {} /\ DiskRolledBack = {}
  <2>1. flushed = 0 /\ binlog = <<<<>>>>
    BY DEF Init
  <2>2. Last = 1 /\ Len(binlog[1]) = 0
    BY <2>1 DEF Last
  <2>3. Logged = {}
    BY <2>2 DEF Logged, Elems
  <2> QED
    BY <2>1, <2>3 DEF DiskCommitted, DiskRolledBack, With
<1>3. ASSUME NEW t \in Txn
      PROVE  Decision(t) = "none" /\ Applied(t) = "none"
  <2>1. ~Durable(t)
    BY <1>1, <1>2, DurableIs DEF IInv
  <2>2. outcome[t] = "none" /\ pc[t] = "idle"
    BY DEF Init, Session
  <2> QED
    BY <1>1, <1>2, <2>1, <2>2 DEF Agreement, AgreedOn
<1> QED
  BY <1>3 DEF AC!Init, Init

\* Every step decides transactions as AtomicCommit allows, or nothing.
LEMMA StepRefines ==
  ASSUME CodeHypothesis, IInv, IInv', Agreement, Agreement', [Next]_vars
  PROVE  AC!Next
<1>1. ASSUME NEW t \in Txn
      PROVE  /\ Decision(t) # "none" => Decision(t)' = Decision(t)
             /\ \/ outcome'[t] = outcome[t]
                \/ outcome[t] = "none" /\ outcome'[t] = Decision(t)'
             /\ \/ Applied(t)' = Applied(t)
                \/ Applied(t) = "none" /\ Applied(t)' = Decision(t)'
  <2>1. /\ Durable(t) => Durable(t)'
        /\ t \notin Logged /\ pc[t] # "write" => t \notin Logged'
    BY FilesForward DEF IInv
  <2>2. /\ outcome[t] # "none" => outcome'[t] = outcome[t]
        /\ pc[t] = "dead" => pc'[t] = "dead"
    BY SessionForward
  <2>3. /\ t \in DiskCommitted => t \in DiskCommitted'
        /\ t \in DiskRolledBack => t \in DiskRolledBack'
    BY EngineForward DEF IInv
  <2>4. AgreedOn(t) /\ AgreedOn(t)'
    BY DEF Agreement
  <2>5. Durable(t)' => t \in Logged'
    BY LoggedIsPrime DEF Durable
  <2>6. t \in Logged /\ pc[t] # "sync" => Durable(t)
    BY DurableIs DEF IInv, NotPromised
  <2>7. outcome[t] = "abort" => pc[t] = "done"
    BY DEF IInv, Phases, Phase
  <2>8. Decision(t) = "abort" => Decision(t)' = "abort"
    BY <2>1, <2>2, <2>4, <2>5, <2>6, <2>7 DEF AgreedOn
  <2>9. Decision(t) # "none" => Decision(t)' = Decision(t)
    BY <2>1, <2>4, <2>8 DEF AgreedOn
  <2>10. \/ outcome'[t] = outcome[t]
         \/ outcome[t] = "none" /\ outcome'[t] = Decision(t)'
    BY <2>2, <2>4 DEF AgreedOn
  <2>11. t \in DiskRolledBack \ DiskCommitted => t \notin DiskCommitted'
    BY <2>3, <2>4, <2>9 DEF AgreedOn
  <2>12. \/ Applied(t)' = Applied(t)
         \/ Applied(t) = "none" /\ Applied(t)' = Decision(t)'
    BY <2>3, <2>4, <2>9 DEF AgreedOn
  <2> QED
    BY <2>9, <2>10, <2>12
<1>2. AC!TypeOK'
  BY DEF AC!TypeOK, AC!Verdict, Agreement, AgreedOn, IInv, TypeOK
<1>3. \A t \in Txn : AC!Step(t)
  BY <1>1 DEF AC!Step
<1> QED
  BY <1>2, <1>3 DEF AC!Next

\* Two-phase commit refines atomic commit: for every transaction the client's
\* answer from ha_commit_trans, the decision in the binary log and what InnoDB
\* has durably done agree, and none of them is ever taken back, whatever
\* crashes, rotations and failed writes come between the steps of
\* ha_commit_trans, TC_LOG_BINLOG and ha_recover.
THEOREM Refinement == ASSUME CodeHypothesis PROVE Spec => AtomicCommitSpec
<1>1. Init => AC!Init
  BY InitRefines
<1>2. IInv => Agreement
  BY AgreementHolds
<1>3. IInv /\ IInv' /\ Agreement /\ Agreement' /\ [Next]_vars
        => [AC!Next]_AC!vars
  BY StepRefines
<1> QED
  BY <1>1, <1>2, <1>3, Invariance, PTL DEF Spec, AtomicCommitSpec, AC!Spec
=============================================================================
