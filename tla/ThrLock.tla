------------------------------- MODULE ThrLock ------------------------------
(***************************************************************************)
(* The table locks of mysys/thr_lock.c: for every table two lists of locks *)
(* in use and two of requests that wait, with ten types of locks, their    *)
(* priorities, timeouts and KILL, and INSERT DELAYED, whose handler thread *)
(* holds a lock that yields to others and upgrades it when there are rows  *)
(* to write.                                                               *)
(*                                                                         *)
(* One action is one critical section of THR_LOCK::mutex.  The list        *)
(* operations are operators on a record of all that the mutex protects.    *)
(***************************************************************************)
EXTENDS Naturals, FiniteSets, SequencesExt

CONSTANTS
  Thread,
  Table,                  \* a set of numbers: the addresses of the THR_LOCKs
  WithCheckStatus,        \* tables with a check_status callback (MyISAM)
  Requests,               \* what mysql_lock_tables is called with
  DelayedTypes,           \* Delayed_insert::delayed_lock: types of the upgrade
  upgraded_insert_lock,   \* thr_upgraded_concurrent_insert_lock
  max_write_lock_count,
  Aborts                  \* what may end a wait: "kill", "timeout", "ddl"

\* enum thr_lock_type
TL_UNLOCK == 0
TL_READ == 2
TL_READ_WITH_SHARED_LOCKS == 3
TL_READ_HIGH_PRIORITY == 4
TL_READ_NO_INSERT == 5
TL_WRITE_ALLOW_WRITE == 6
TL_WRITE_CONCURRENT_INSERT == 7
TL_WRITE_DELAYED == 8
TL_WRITE_LOW_PRIORITY == 10
TL_WRITE == 11

LockType == {TL_READ, TL_READ_WITH_SHARED_LOCKS, TL_READ_HIGH_PRIORITY,
             TL_READ_NO_INSERT, TL_WRITE_ALLOW_WRITE,
             TL_WRITE_CONCURRENT_INSERT, TL_WRITE_DELAYED,
             TL_WRITE_LOW_PRIORITY, TL_WRITE}

\* There is a longest request; none is empty (thr_multi_lock of no element does
\* nothing), and the handler of INSERT DELAYED locks its table only.
ASSUME ThrLockAssumption ==
  /\ IsFiniteSet(Thread)
  /\ Table \subseteq Nat
  /\ WithCheckStatus \subseteq Table
  /\ \E r \in Requests : \A q \in Requests : Len(q) <= Len(r)
  /\ \A r \in Requests :
       /\ r \in Seq([table : Table, type : LockType])
       /\ r # <<>>
       /\ \A i \in 1..Len(r) : r[i].type = TL_WRITE_DELAYED => Len(r) = 1
  /\ DelayedTypes \cup {upgraded_insert_lock}
       \subseteq {TL_WRITE, TL_WRITE_LOW_PRIORITY}
  /\ max_write_lock_count \in Nat
  /\ Aborts \subseteq {"kill", "timeout", "ddl"}

\* A THR_LOCK_DATA: the i-th one in the array of its thread.
MaxLocks == CHOOSE n \in {Len(r) : r \in Requests} :
              \A r \in Requests : Len(r) <= n
Data == Thread \X (1..MaxLocks)

VARIABLES
  lock,   \* the THR_LOCK of each table
  type,   \* THR_LOCK_DATA::type
  cond,   \* whether THR_LOCK_DATA::cond is set
  abort,  \* st_my_thread_var::abort
  locks,  \* MYSQL_LOCK::locks, the array a thread works on
  pos,    \* its position in it
  new_lock_type, \* the type an INSERT DELAYED thread upgrades to
  pc

vars == <<lock, type, cond, abort, locks, pos, new_lock_type, pc>>

(***************************************************************************)
(* idle     holds nothing                                                  *)
(* lock     in thr_multi_lock, before thr_lock of the next element         *)
(* wait     in wait_for_lock, in_wait_list = 0                             *)
(* held     thr_multi_lock has succeeded                                   *)
(* upgrade  in thr_reschedule_write_lock, before the upgrade               *)
(* upwait   in wait_for_lock, in_wait_list = 1                             *)
(* giveup   thr_multi_lock has failed, in thr_multi_unlock                 *)
(* unlock   in mysql_unlock_tables                                         *)
(***************************************************************************)
PC == {"idle", "lock", "wait", "held", "upgrade", "upwait", "giveup",
       "unlock"}

Init ==
  /\ lock = [l \in Table |->                            \* thr_lock_init
       [read |-> <<>>, read_wait |-> <<>>, write |-> <<>>, write_wait |-> <<>>,
        read_no_write_count |-> 0, write_lock_count |-> 0]]
  /\ type = [d \in Data |-> TL_UNLOCK]                  \* thr_lock_data_init
  /\ cond = [d \in Data |-> FALSE]
  /\ abort = [t \in Thread |-> FALSE]
  /\ locks = [t \in Thread |-> <<>>]
  /\ pos = [t \in Thread |-> 1]
  /\ new_lock_type = [t \in Thread |-> TL_UNLOCK]
  /\ pc = [t \in Thread |-> "idle"]

Goto(t, label) == pc' = [pc EXCEPT ![t] = label]

Owner(d) == d[1]
TableOf(d) == locks[d[1]][d[2]].table
-----------------------------------------------------------------------------
(* Orders and lists, without recursion: the proofs expand them. *)

\* The elements of I one after the other in the order R.
InOrder(I, R) ==
  CHOOSE h \in [1..Cardinality(I) -> I] :
    \A i, j \in 1..Cardinality(I) : i < j => <<h[i], h[j]>> \in R

\* The elements of the list that are in S, in the order of the list.
Filter(list, S) ==
  LET I == {i \in DOMAIN list : list[i] \in S}
      h == InOrder(I, {x \in I \X I : x[1] < x[2]})
  IN [k \in 1..Cardinality(I) |-> list[h[k]]]
-----------------------------------------------------------------------------
(* What a mutex protects, as a record: the THR_LOCK and the types and      *)
(* conditions of the lock data.                                            *)

State(l) == [lk |-> lock[l], ty |-> type, cd |-> cond]

Become(l, s) ==
  /\ lock' = [lock EXCEPT ![l] = s.lk]
  /\ type' = s.ty
  /\ cond' = s.cd

IsRead(ty) == ty <= TL_READ_NO_INSERT

\* has_old_lock
HasOldLock(list, t) == \E d \in ToSet(list) : Owner(d) = t

CountNoInsert(s, list) ==
  Cardinality({d \in ToSet(list) : s.ty[d] = TL_READ_NO_INSERT})

Clear(s, list) == [s EXCEPT !.cd = [d \in Data |-> s.cd[d] /\ d \notin ToSet(list)]]

\* free_all_read_locks: the read requests become active, except those that
\* do not tolerate the concurrent insert.
FreeAllReadLocks(s, using_concurrent_insert) ==
  LET Stays == {d \in Data : using_concurrent_insert
                              /\ s.ty[d] = TL_READ_NO_INSERT}
      stay == Filter(s.lk.read_wait, Stays)
      go == Filter(s.lk.read_wait, Data \ Stays)
  IN [Clear(s, go) EXCEPT
        !.lk.read = @ \o go,
        !.lk.read_wait = stay,
        !.lk.read_no_write_count = @ + CountNoInsert(s, go),
        !.lk.write_lock_count = IF stay = <<>> THEN 0 ELSE @]

FreeReadLocksIfAny(s, using_concurrent_insert) ==
  IF s.lk.read_wait = <<>> THEN s
                           ELSE FreeAllReadLocks(s, using_concurrent_insert)

\* The requests that start together at the head of write_wait: one, or all
\* that tolerate each other up to the first that does not.
WriteGroup(s) ==
  LET ww == s.lk.write_wait
      n == CHOOSE i \in 1..Len(ww) :
             /\ \A j \in 2..i : s.ty[ww[j]] = TL_WRITE_ALLOW_WRITE
             /\ i > 1 => s.ty[ww[1]] = TL_WRITE_ALLOW_WRITE
             /\ \/ i = Len(ww)
                \/ s.ty[ww[1]] # TL_WRITE_ALLOW_WRITE
                \/ s.ty[ww[i + 1]] # TL_WRITE_ALLOW_WRITE
  IN SubSeq(ww, 1, n)

StartWriteLocks(s) ==
  LET group == WriteGroup(s)
  IN [Clear(s, group) EXCEPT
        !.lk.write = @ \o group,
        !.lk.write_wait = SubSeq(@, Len(group) + 1, Len(@))]

\* A writer that inserts concurrently may turn out to be unable to: check_status
\* of the engine says so (external, any answer).
UpgradeInsert(s, cannot) ==
  LET d == Head(s.lk.write_wait)
  IN IF s.ty[d] = TL_WRITE_CONCURRENT_INSERT /\ cannot
     THEN [s EXCEPT !.ty[d] = TL_WRITE] ELSE s

InsertsConcurrently(ty) ==
  ty \in {TL_WRITE_CONCURRENT_INSERT, TL_WRITE_ALLOW_WRITE}

\* Faulty variant of StartsWithReaders: TL_READ_NO_INSERT is not respected.
StartsWithAnyReaders(s, ty) == ty <= TL_WRITE_DELAYED

\* Whether a write lock of this type can be active together with the readers.
StartsWithReaders(s, ty) ==
  /\ ty <= TL_WRITE_DELAYED
  /\ InsertsConcurrently(ty) => s.lk.read_no_write_count = 0

\* Writers come first unless the only ones are of low priority and a reader
\* of high priority waits.
WriterFirst(s) ==
  /\ s.lk.write_wait # <<>>
  /\ \/ s.ty[Head(s.lk.write_wait)] # TL_WRITE_LOW_PRIORITY
     \/ s.lk.read_wait = <<>>
     \/ s.ty[Head(s.lk.read_wait)] < TL_READ_HIGH_PRIORITY

\* Faulty variant of WakeUpAll: max_write_lock_count is ignored.
WakeUpUnlimited(s, cannot) ==
  LET s1 == StartWriteLocks(UpgradeInsert(s, cannot))
      ty == s1.ty[Head(s.lk.write_wait)]
  IN IF ~WriterFirst(s) THEN FreeReadLocksIfAny(s, FALSE)
     ELSE IF ty >= TL_WRITE_LOW_PRIORITY THEN s1
     ELSE FreeReadLocksIfAny(s1, InsertsConcurrently(ty))

\* wake_up_waiters when the table is neither read nor written.
WakeUpAll(s, cannot) ==
  LET tooMany == s.lk.write_lock_count > max_write_lock_count
      s1 == [s EXCEPT !.lk.write_lock_count = IF tooMany THEN 0 ELSE @ + 1]
      s2 == StartWriteLocks(UpgradeInsert(s1, cannot))
      ty == s2.ty[Head(s.lk.write_wait)]
  IN IF ~WriterFirst(s) THEN FreeReadLocksIfAny(s, FALSE)
     ELSE IF tooMany /\ s.lk.read_wait # <<>> THEN FreeAllReadLocks(s1, FALSE)
     ELSE IF ty >= TL_WRITE_LOW_PRIORITY THEN s2
     ELSE FreeReadLocksIfAny(s2, InsertsConcurrently(ty))

\* wake_up_waiters when the table is read but not written.
WakeUpWithReaders(s, cannot) ==
  LET ty == s.ty[Head(s.lk.write_wait)]
      s1 == UpgradeInsert(s, cannot)
  IN IF s.lk.write_wait = <<>> THEN FreeReadLocksIfAny(s, FALSE)
     ELSE IF ~StartsWithReaders(s, ty) THEN s
     ELSE IF s1 # s THEN FreeReadLocksIfAny(s1, FALSE)
     ELSE FreeReadLocksIfAny(StartWriteLocks(s), InsertsConcurrently(ty))

\* wake_up_waiters
WakeUpWaiters(s, cannot) ==
  IF s.lk.write # <<>> THEN s
  ELSE IF s.lk.read = <<>> THEN WakeUpAll(s, cannot)
  ELSE WakeUpWithReaders(s, cannot)
-----------------------------------------------------------------------------
(* thr_multi_lock *)

\* LOCK_CMP: by table, then the stronger type first.
LockCmp(a, b) == a.table * 16 - a.type < b.table * 16 - b.type

\* Faulty variant of SortLocks: the array is used as it comes.
KeepOrder(r) == r

\* sort_locks
SortLocks(r) ==
  LET Before == {x \in (DOMAIN r) \X (DOMAIN r) :
                   \/ LockCmp(r[x[1]], r[x[2]])
                   \/ ~LockCmp(r[x[2]], r[x[1]]) /\ x[1] < x[2]}
      h == InOrder(DOMAIN r, Before)
  IN [k \in DOMAIN r |-> r[h[k]]]

\* mysql_lock_tables starts thr_multi_lock.
MultiLock(t) ==
  /\ pc[t] = "idle"
  /\ \E r \in Requests :
       /\ locks' = [locks EXCEPT ![t] = SortLocks(r)]
       /\ \E n \in IF r[1].type = TL_WRITE_DELAYED THEN DelayedTypes
                                                   ELSE {TL_UNLOCK} :
            new_lock_type' = [new_lock_type EXCEPT ![t] = n]
  /\ pos' = [pos EXCEPT ![t] = 1]
  /\ abort' = [abort EXCEPT ![t] = FALSE]
  /\ Goto(t, "lock")
  /\ UNCHANGED <<lock, type, cond>>

\* Whether thr_lock gives a read lock at once.
CanRead(s, t, ty) ==
  IF s.lk.write # <<>>
  THEN LET w == Head(s.lk.write)
       IN \/ Owner(w) = t
          \/ /\ s.ty[w] <= TL_WRITE_DELAYED
             /\ \/ ty <= TL_READ_HIGH_PRIORITY
                \/ s.ty[w] # TL_WRITE_CONCURRENT_INSERT
  ELSE \/ s.lk.write_wait = <<>>
       \/ s.ty[Head(s.lk.write_wait)] <= TL_WRITE_LOW_PRIORITY
       \/ ty = TL_READ_HIGH_PRIORITY
       \/ HasOldLock(s.lk.read, t)

\* Whether thr_lock gives a write lock at once.
CanWrite(s, t, ty) ==
  IF s.lk.write # <<>>
  THEN \/ /\ ty = TL_WRITE_ALLOW_WRITE
          /\ s.lk.write_wait = <<>>
          /\ s.ty[Head(s.lk.write)] = TL_WRITE_ALLOW_WRITE
       \/ HasOldLock(s.lk.write, t)
  ELSE /\ s.lk.write_wait = <<>>
       /\ s.lk.read = <<>> \/ StartsWithReaders(s, ty)

\* The type under which a request of type ty is treated.  check_status is
\* consulted only if nobody writes or waits for it.
TypeInUse(s, l, ty, cannot) ==
  IF /\ ty = TL_WRITE_CONCURRENT_INSERT
     /\ \/ l \notin WithCheckStatus
        \/ s.lk.write = <<>> /\ s.lk.write_wait = <<>> /\ cannot
  THEN upgraded_insert_lock ELSE ty

Granted(s, d, ty) ==
  IF IsRead(ty)
  THEN [s EXCEPT !.lk.read = Append(@, d),
                 !.lk.read_no_write_count =
                    @ + (IF ty = TL_READ_NO_INSERT THEN 1 ELSE 0)]
  ELSE [s EXCEPT !.lk.write = Append(@, d)]

Queued(s, d, ty) ==
  LET s1 == [s EXCEPT !.cd[d] = TRUE]
  IN IF IsRead(ty) THEN [s1 EXCEPT !.lk.read_wait = Append(@, d)]
                   ELSE [s1 EXCEPT !.lk.write_wait = Append(@, d)]

\* thr_multi_lock goes on to the next element.
Advance(t) ==
  IF pos[t] = Len(locks[t])
  THEN Goto(t, "held") /\ UNCHANGED pos
  ELSE pos' = [pos EXCEPT ![t] = @ + 1] /\ Goto(t, "lock")

\* thr_lock.  A delayed write request does not wait for its turn.
Lock(t) ==
  /\ pc[t] = "lock"
  /\ \E cannot \in BOOLEAN :
       LET d == <<t, pos[t]>>
           l == TableOf(d)
           ty == TypeInUse(State(l), l, locks[t][pos[t]].type, cannot)
           s == [State(l) EXCEPT !.ty[d] = ty, !.cd[d] = FALSE]
           busy == s.lk.write # <<>> \/ s.lk.read # <<>>
       IN IF ty = TL_WRITE_DELAYED /\ busy
          THEN Become(l, Queued(s, d, ty)) /\ Advance(t)
          ELSE IF IF IsRead(ty) THEN CanRead(s, t, ty) ELSE CanWrite(s, t, ty)
          THEN Become(l, Granted(s, d, ty)) /\ Advance(t)
          ELSE Become(l, Queued(s, d, ty)) /\ Goto(t, "wait") /\ UNCHANGED pos
  /\ UNCHANGED <<abort, locks, new_lock_type>>
-----------------------------------------------------------------------------
(* wait_for_lock *)

Unlink(s, d) ==
  [s EXCEPT !.lk.read = Filter(@, Data \ {d}),
            !.lk.read_wait = Filter(@, Data \ {d}),
            !.lk.write = Filter(@, Data \ {d}),
            !.lk.write_wait = Filter(@, Data \ {d})]

\* Faulty variant of LeaveQueue: nobody is woken up.
LeaveQuietly(s, d, cannot) ==
  [Unlink(s, d) EXCEPT !.ty[d] = TL_UNLOCK, !.cd[d] = FALSE]

\* A request that was killed or timed out leaves the list, and those behind
\* it may be able to start.
LeaveQueue(s, d, cannot) ==
  WakeUpWaiters([Unlink(s, d) EXCEPT !.ty[d] = TL_UNLOCK, !.cd[d] = FALSE],
                cannot)

\* The wait ends because the request was granted or aborted by another thread.
Woken(t) ==
  /\ pc[t] \in {"wait", "upwait"}
  /\ LET d == <<t, pos[t]>>
     IN /\ ~cond[d]
        /\ \/ /\ type[d] # TL_UNLOCK
              /\ IF pc[t] = "wait" THEN Advance(t)
                                   ELSE Goto(t, "held") /\ UNCHANGED pos
           \/ /\ type[d] = TL_UNLOCK
              /\ Goto(t, IF pc[t] = "wait" THEN "giveup" ELSE "unlock")
              /\ UNCHANGED pos
  /\ UNCHANGED <<lock, type, cond, abort, locks, new_lock_type>>

\* The wait ends because of KILL, which an INSERT DELAYED thread ignores here,
\* or a timeout.
GiveUp(t) ==
  /\ pc[t] \in {"wait", "upwait"}
  /\ "timeout" \in Aborts \/ (pc[t] = "wait" /\ abort[t])
  /\ LET d == <<t, pos[t]>>
         l == TableOf(d)
     IN /\ cond[d]
        /\ \E cannot \in BOOLEAN : Become(l, LeaveQueue(State(l), d, cannot))
  /\ Goto(t, IF pc[t] = "wait" THEN "giveup" ELSE "unlock")
  /\ UNCHANGED <<abort, locks, pos, new_lock_type>>

\* KILL of a thread that waits.
Kill(t) ==
  /\ "kill" \in Aborts
  /\ pc[t] \in {"wait", "upwait"}
  /\ ~abort[t]
  /\ abort' = [abort EXCEPT ![t] = TRUE]
  /\ UNCHANGED <<lock, type, cond, locks, pos, new_lock_type, pc>>

\* thr_abort_locks_for_thread, called by a DDL statement that waits for a
\* metadata lock which thread t holds, for each table t has open, whether t
\* waits for a lock on it or not.
AbortLocksForThread(t, l) ==
  /\ "ddl" \in Aborts
  /\ \E i \in DOMAIN locks[t] : locks[t][i].table = l
  /\ \E cannot \in BOOLEAN :
       LET s == State(l)
           Others == {d \in Data : Owner(d) # t}
           gone == {d \in ToSet(s.lk.read_wait) \cup ToSet(s.lk.write_wait) :
                      Owner(d) = t}
       IN Become(l, WakeUpWaiters(
            [lk |-> [s.lk EXCEPT !.read_wait = Filter(@, Others),
                                 !.write_wait = Filter(@, Others)],
             ty |-> [d \in Data |-> IF d \in gone THEN TL_UNLOCK ELSE s.ty[d]],
             cd |-> [d \in Data |-> s.cd[d] /\ d \notin gone]], cannot))
  /\ UNCHANGED <<abort, locks, pos, new_lock_type, pc>>
-----------------------------------------------------------------------------
(* thr_multi_unlock *)

BeginUnlock(t) ==
  /\ pc[t] = "held"
  /\ Goto(t, "unlock")
  /\ UNCHANGED <<lock, type, cond, abort, locks, pos, new_lock_type>>

\* thr_unlock of one element; mysql_unlock_tables uses the order of the
\* statement, any order here, and thr_multi_lock that of the sorted array.
ToUnlock(t) ==
  LET held == {i \in 1..Len(locks[t]) : type[<<t, i>>] # TL_UNLOCK}
  IN IF pc[t] = "unlock" THEN held
     ELSE {i \in held : \A j \in held : i <= j}

Unlocked(s, d, cannot) ==
  WakeUpWaiters(
    [Unlink(s, d) EXCEPT
       !.lk.read_no_write_count =
          @ - (IF s.ty[d] = TL_READ_NO_INSERT THEN 1 ELSE 0),
       !.ty[d] = TL_UNLOCK, !.cd[d] = FALSE], cannot)

Unlock(t) ==
  /\ pc[t] \in {"unlock", "giveup"}
  /\ \E i \in ToUnlock(t), cannot \in BOOLEAN :
       LET l == TableOf(<<t, i>>)
       IN Become(l, Unlocked(State(l), <<t, i>>, cannot))
  /\ UNCHANGED <<abort, locks, pos, new_lock_type, pc>>

EndUnlock(t) ==
  /\ pc[t] \in {"unlock", "giveup"}
  /\ ToUnlock(t) = {}
  /\ locks' = [locks EXCEPT ![t] = <<>>]
  /\ pos' = [pos EXCEPT ![t] = 1]
  /\ abort' = [abort EXCEPT ![t] = FALSE]
  /\ new_lock_type' = [new_lock_type EXCEPT ![t] = TL_UNLOCK]
  /\ Goto(t, "idle")
  /\ UNCHANGED <<lock, type, cond>>
-----------------------------------------------------------------------------
(* INSERT DELAYED: its handler thread locks one table. *)

IsDelayed(t) == \E i \in 1..Len(locks[t]) : locks[t][i].type = TL_WRITE_DELAYED

\* Faulty variant of BackToQueue: the condition is not set.
BackToQueueNoCond(s, d) ==
  [Unlink(s, d) EXCEPT !.lk.write_wait = <<d>> \o @]

\* The lock goes to the head of write_wait; its cond is set by wait_for_lock.
BackToQueue(s, d) ==
  [Unlink(s, d) EXCEPT !.lk.write_wait = <<d>> \o @, !.cd[d] = TRUE]

\* thr_upgrade_write_delay_lock.  If the lock is already a real write lock the
\* call changes nothing.
UpgradeWriteDelayLock(t) ==
  /\ pc[t] \in {"held", "upgrade"}
  /\ IsDelayed(t)
  /\ LET d == <<t, 1>>
         l == TableOf(d)
         s == [State(l) EXCEPT !.ty[d] = new_lock_type[t]]
     IN \/ /\ type[d] = TL_UNLOCK                       \* aborted
           /\ Goto(t, "unlock")
           /\ UNCHANGED <<lock, type, cond>>
        \/ /\ type[d] = TL_WRITE_DELAYED
           /\ ~cond[d] /\ s.lk.read = <<>>
           /\ Become(l, s)
           /\ Goto(t, "held")
        \/ /\ type[d] = TL_WRITE_DELAYED
           /\ ~cond[d] /\ s.lk.read # <<>>
           /\ Become(l, BackToQueue(s, d))
           /\ Goto(t, "upwait")
        \/ /\ type[d] = TL_WRITE_DELAYED
           /\ cond[d]
           /\ Become(l, s)
           /\ Goto(t, "upwait")
  /\ UNCHANGED <<abort, locks, pos, new_lock_type>>

\* thr_reschedule_write_lock lets the waiting readers pass.
RescheduleWriteLock(t) ==
  /\ pc[t] = "held"
  /\ IsDelayed(t)
  /\ LET d == <<t, 1>>
         l == TableOf(d)
     IN /\ type[d] >= TL_WRITE_LOW_PRIORITY
        /\ lock[l].read_wait # <<>>
        /\ new_lock_type' = [new_lock_type EXCEPT ![t] = type[d]]
        /\ Become(l, FreeAllReadLocks(
             BackToQueue([State(l) EXCEPT !.ty[d] = TL_WRITE_DELAYED], d),
             FALSE))
  /\ Goto(t, "upgrade")
  /\ UNCHANGED <<abort, locks, pos>>
-----------------------------------------------------------------------------
Next ==
  \E t \in Thread :
    \/ MultiLock(t) \/ Lock(t) \/ Woken(t) \/ GiveUp(t) \/ Kill(t)
    \/ BeginUnlock(t) \/ Unlock(t) \/ EndUnlock(t)
    \/ UpgradeWriteDelayLock(t) \/ RescheduleWriteLock(t)
    \/ \E l \in Table : AbortLocksForThread(t, l)

Spec == Init /\ [][Next]_vars

\* A thread inside an operation goes on, and a thread that holds locks
\* releases them.
FairSpec ==
  /\ Spec
  /\ \A t \in Thread :
       WF_vars(Lock(t) \/ Woken(t) \/ BeginUnlock(t) \/ Unlock(t)
               \/ EndUnlock(t))
-----------------------------------------------------------------------------
(* Properties *)

Lists(l) == <<lock[l].read, lock[l].read_wait, lock[l].write, lock[l].write_wait>>

\* Every list holds lock data of the right kind, and the fields have their
\* types.
TypeOK ==
  /\ \A l \in Table :
       /\ \A i \in 1..4 : Lists(l)[i] \in Seq(Data)
       /\ lock[l].read_no_write_count \in 0..Cardinality(Data)
       /\ lock[l].write_lock_count \in 0..(max_write_lock_count + 1)
  /\ type \in [Data -> LockType \cup {TL_UNLOCK}]
  /\ cond \in [Data -> BOOLEAN]
  /\ abort \in [Thread -> BOOLEAN]
  /\ locks \in [Thread -> Seq([table : Table, type : LockType])]
  /\ pos \in [Thread -> 1..MaxLocks]
  /\ new_lock_type \in [Thread -> DelayedTypes \cup {TL_UNLOCK}]
  /\ pc \in [Thread -> PC]

\* Locks in use by different threads on the same table tolerate each other: of
\* two writers both allow others to write; next to a reader a writer inserts,
\* is delayed or allows others to write, and TL_READ_NO_INSERT keeps inserts
\* away.
Exclusion ==
  \A l \in Table :
    \A d \in ToSet(lock[l].write) :
      /\ \A e \in ToSet(lock[l].write) :
           Owner(d) # Owner(e) =>
             type[d] = TL_WRITE_ALLOW_WRITE /\ type[e] = TL_WRITE_ALLOW_WRITE
      /\ \A e \in ToSet(lock[l].read) :
           Owner(d) # Owner(e) =>
             /\ type[d] <= TL_WRITE_DELAYED
             /\ ~(type[d] = TL_WRITE_CONCURRENT_INSERT
                  /\ type[e] = TL_READ_NO_INSERT)

\* Nobody waits for nothing: after every critical section requests wait only
\* if the table is in use, and readers wait only if somebody writes or waits
\* to write ("No locks in use but locks are in wait queue" and "No write locks
\* and waiting read locks" of check_locks).
NoForgottenWaiter ==
  \A l \in Table :
    lock[l].write = <<>> =>
      /\ lock[l].read = <<>> => lock[l].write_wait = <<>> /\ lock[l].read_wait = <<>>
      /\ lock[l].write_wait = <<>> => lock[l].read_wait = <<>>

\* A lock data is on at most one list of its table, it is on a waiting list
\* exactly while its cond is set, and it is on no list exactly when its type is
\* TL_UNLOCK: what wait_for_lock concludes from cond and type is true however
\* grant, KILL, timeout and thr_abort_locks_for_thread interleave.
QueueMatchesData ==
  \A d \in Data :
    LET on == {x \in Table \X (1..4) : d \in ToSet(Lists(x[1])[x[2]])}
        waits == {x \in on : x[2] \in {2, 4}}
    IN /\ Cardinality(on) <= 1
       /\ cond[d] <=> waits # {}
       /\ (type[d] = TL_UNLOCK) <=> on = {}
       /\ \A x \in on : Cardinality(ToSet(Lists(x[1])[x[2]])) = Len(Lists(x[1])[x[2]])

\* read_no_write_count is the number of active TL_READ_NO_INSERT locks.
NoWriteCountExact ==
  \A l \in Table :
    lock[l].read_no_write_count =
      Cardinality({d \in ToSet(lock[l].read) : type[d] = TL_READ_NO_INSERT})

\* The four lists of a THR_LOCK, the types and conditions of the THR_LOCK_DATA
\* on them and the two counters agree after every step.
ListsConsistent == TypeOK /\ QueueMatchesData /\ NoWriteCountExact

\* The assertion of thr_lock that lets a thread take a second write lock
\* without further checks: the array is sorted, so the lock it already has is
\* at least as strong.
OldLockIsStronger ==
  \A t \in Thread :
    pc[t] = "lock" =>
      LET l == TableOf(<<t, pos[t]>>)
          ty == locks[t][pos[t]].type
          old == type[Head(lock[l].write)]
      IN ~IsRead(ty) /\ HasOldLock(lock[l].write, t) =>
           (ty <= old /\ old # TL_WRITE_DELAYED)

\* Every request that waits is answered: the order of the tables excludes
\* deadlocks, and max_write_lock_count keeps writers from starving readers.
Served == \A t \in Thread : pc[t] = "wait" ~> pc[t] # "wait"

\* check_locks: "Write lock %d waiting while no exclusive read locks" never
\* happens for a request that could run next to the active readers.
WriterWaitsForNoInsert ==
  \A l \in Table :
    lock[l].write = <<>> /\ lock[l].write_wait # <<>> =>
      (InsertsConcurrently(type[Head(lock[l].write_wait)]) =>
         lock[l].read_no_write_count > 0)

\* check_locks: "Found WRITE_ALLOW_WRITE lock waiting for WRITE_ALLOW_WRITE
\* lock" never happens.
AllowWriteNeverWaits ==
  \A l \in Table :
    lock[l].write # <<>> /\ lock[l].write_wait # <<>> =>
      ~(/\ type[Head(lock[l].write)] = TL_WRITE_ALLOW_WRITE
        /\ type[Head(lock[l].write_wait)] = TL_WRITE_ALLOW_WRITE)

\* check_locks: "Found lock of type %d that is write and read locked" never
\* happens for a lock that allows others to write.
NoInsertExcludesAllowWrite ==
  \A l \in Table :
    lock[l].write # <<>> /\ lock[l].read # <<>> =>
      ~(/\ Owner(Head(lock[l].write)) # Owner(Head(lock[l].read))
        /\ type[Head(lock[l].write)] = TL_WRITE_ALLOW_WRITE
        /\ lock[l].read_no_write_count > 0)
=============================================================================
