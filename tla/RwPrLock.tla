------------------------------ MODULE RwPrLock ------------------------------
(***************************************************************************)
(* The reader-preferring read-write lock of mysys/thr_rwlock.c             *)
(* (rw_pr_lock_t, mysql_prlock_t), on which the metadata locking subsystem *)
(* (sql/mdl.cc) is built.                                                  *)
(*                                                                         *)
(* The structure holds a mutex, a condition variable no_active_readers and *)
(* three fields.  A writer keeps the mutex from rw_pr_wrlock() to          *)
(* rw_pr_unlock(); a reader holds it only while it changes active_readers. *)
(* One action is one stretch of code between two operations on the mutex   *)
(* or the condition variable.                                              *)
(***************************************************************************)
EXTENDS Naturals, FiniteSets

CONSTANTS Thread,      \* the threads that use the lock
          MaxOps,      \* bound: lock requests that one thread makes
          None         \* nobody owns the mutex

ASSUME ThreadAssumption == IsFiniteSet(Thread) /\ None \notin Thread
ASSUME MaxOpsAssumption == MaxOps \in Nat

VARIABLES
  lock,                     \* owner of rwlock->lock, the mutex
  active_readers,           \* rwlock->active_readers
  writers_waiting_readers,  \* rwlock->writers_waiting_readers
  active_writer,            \* rwlock->active_writer
  waitset,                  \* threads blocked on rwlock->no_active_readers
  pc,                       \* where each thread is in the code
  left                      \* lock requests each thread may still make

vars == <<lock, active_readers, writers_waiting_readers, active_writer,
          waitset, pc, left>>

(***************************************************************************)
(* idle      holds nothing                                                 *)
(* rd_enter  in rw_pr_rdlock, counted as a reader, mutex still held        *)
(* read      holds the read lock                                           *)
(* wr_wait   in the pthread_cond_wait of rw_pr_wrlock                      *)
(* write     holds the write lock                                          *)
(* leave     in rw_pr_unlock, the lock given up, mutex still held          *)
(***************************************************************************)
PC == {"idle", "rd_enter", "read", "wr_wait", "write", "leave"}

Init ==                                                     \* rw_pr_init()
  /\ lock = None
  /\ active_readers = 0
  /\ writers_waiting_readers = 0
  /\ active_writer = FALSE
  /\ waitset = {}
  /\ pc = [t \in Thread |-> "idle"]
  /\ left = [t \in Thread |-> MaxOps]

Goto(t, label) == pc' = [pc EXCEPT ![t] = label]

Request(t) ==
  /\ pc[t] = "idle"
  /\ left[t] > 0
  /\ left' = [left EXCEPT ![t] = @ - 1]

\* pthread_cond_signal wakes one of the blocked threads, if there is one.
SignalNoActiveReaders ==
  IF waitset = {} THEN UNCHANGED waitset
                  ELSE \E w \in waitset : waitset' = waitset \ {w}

\* Faulty variants of the two conditions below.
NobodyReads == FALSE
SignalTooEarly(readers) == readers = 1 /\ writers_waiting_readers # 0

\* A writer has to wait: rwlock->active_readers != 0.
ReadersActive == active_readers # 0

\* The last of the readers wakes a writer up.
WakesWriter(readers) == readers = 0 /\ writers_waiting_readers # 0

\* rw_pr_rdlock: the mutex is held while the reader is counted.
RdLock(t) ==
  /\ Request(t)
  /\ lock = None
  /\ lock' = t
  /\ active_readers' = active_readers + 1
  /\ Goto(t, "rd_enter")
  /\ UNCHANGED <<writers_waiting_readers, active_writer, waitset>>

\* Faulty variant of MutexUnlock: rw_pr_unlock returns with the mutex locked.
MutexUnlockForgotten(t) ==
  /\ lock = t
  /\ \/ pc[t] = "rd_enter" /\ Goto(t, "read") /\ lock' = None
     \/ pc[t] = "leave" /\ Goto(t, "idle") /\ UNCHANGED lock
  /\ UNCHANGED <<active_readers, writers_waiting_readers, active_writer,
                 waitset, left>>

\* The end of rw_pr_rdlock and of rw_pr_unlock.
MutexUnlock(t) ==
  /\ lock = t
  /\ \/ pc[t] = "rd_enter" /\ Goto(t, "read")
     \/ pc[t] = "leave" /\ Goto(t, "idle")
  /\ lock' = None
  /\ UNCHANGED <<active_readers, writers_waiting_readers, active_writer,
                 waitset, left>>

\* rw_pr_wrlock without active readers: the mutex stays locked.
WrLock(t) ==
  /\ Request(t)
  /\ lock = None
  /\ ~ReadersActive
  /\ lock' = t
  /\ active_writer' = TRUE
  /\ Goto(t, "write")
  /\ UNCHANGED <<active_readers, writers_waiting_readers, waitset>>

\* rw_pr_wrlock with active readers: count the writer, release the mutex, block.
WrLockWait(t) ==
  /\ Request(t)
  /\ lock = None
  /\ ReadersActive
  /\ writers_waiting_readers' = writers_waiting_readers + 1
  /\ waitset' = waitset \cup {t}
  /\ Goto(t, "wr_wait")
  /\ UNCHANGED <<lock, active_readers, active_writer>>

\* A signalled writer has the mutex back and tests active_readers again.
WrWake(t) ==
  /\ pc[t] = "wr_wait"
  /\ t \notin waitset
  /\ lock = None
  /\ IF ReadersActive
     THEN /\ waitset' = waitset \cup {t}
          /\ UNCHANGED <<lock, writers_waiting_readers, active_writer, pc>>
     ELSE /\ writers_waiting_readers' = writers_waiting_readers - 1
          /\ lock' = t
          /\ active_writer' = TRUE
          /\ Goto(t, "write")
          /\ UNCHANGED waitset
  /\ UNCHANGED <<active_readers, left>>

\* POSIX lets pthread_cond_wait return without a signal.
SpuriousWakeup(t) ==
  /\ t \in waitset
  /\ waitset' = waitset \ {t}
  /\ UNCHANGED <<lock, active_readers, writers_waiting_readers,
                 active_writer, pc, left>>

\* rw_pr_unlock by the writer: the signal precedes the mutex unlock.
WrUnlock(t) ==
  /\ pc[t] = "write"
  /\ active_writer
  /\ active_writer' = FALSE
  /\ IF writers_waiting_readers # 0 THEN SignalNoActiveReaders
                                    ELSE UNCHANGED waitset
  /\ Goto(t, "leave")
  /\ UNCHANGED <<lock, active_readers, writers_waiting_readers, left>>

\* Faulty variant of RdUnlock: the mutex is released before the signal.
RdUnlockSignalLast(t) ==
  /\ pc[t] = "read"
  /\ lock = None
  /\ active_readers' = active_readers - 1
  /\ IF WakesWriter(active_readers') THEN SignalNoActiveReaders
                                     ELSE UNCHANGED waitset
  /\ Goto(t, "leave")
  /\ UNCHANGED <<lock, writers_waiting_readers, active_writer, left>>

\* rw_pr_unlock by a reader.
RdUnlock(t) ==
  /\ pc[t] = "read"
  /\ ~active_writer
  /\ lock = None
  /\ lock' = t
  /\ active_readers' = active_readers - 1
  /\ IF WakesWriter(active_readers') THEN SignalNoActiveReaders
                                     ELSE UNCHANGED waitset
  /\ Goto(t, "leave")
  /\ UNCHANGED <<writers_waiting_readers, active_writer, left>>

\* What a thread does by itself once it has asked for the lock.
Step(t) ==
  \/ MutexUnlock(t)
  \/ WrWake(t)
  \/ WrUnlock(t)
  \/ RdUnlock(t)

Next ==
  \E t \in Thread :
    \/ RdLock(t)
    \/ WrLock(t)
    \/ WrLockWait(t)
    \/ SpuriousWakeup(t)
    \/ Step(t)

Spec == Init /\ [][Next]_vars

(***************************************************************************)
(* A thread that holds the lock gives it up, and a thread that waits for   *)
(* the mutex gets it once the mutex stays free: weak fairness of Step.     *)
(* Nothing obliges a thread to ask for the lock, nor the system to wake a  *)
(* writer without a signal.                                                *)
(***************************************************************************)
FairSpec == Spec /\ \A t \in Thread : WF_vars(Step(t))
-----------------------------------------------------------------------------
TypeOK ==
  /\ lock \in Thread \cup {None}
  /\ active_readers \in Nat
  /\ writers_waiting_readers \in Nat
  /\ active_writer \in BOOLEAN
  /\ waitset \subseteq Thread
  /\ pc \in [Thread -> PC]
  /\ left \in [Thread -> 0..MaxOps]

Readers == {t \in Thread : pc[t] \in {"rd_enter", "read"}}
Writers == {t \in Thread : pc[t] = "write"}
Waiters == {t \in Thread : pc[t] = "wr_wait"}

\* A writer is alone: rw_pr_wrlock returns only when no other thread is
\* between rw_pr_rdlock/rw_pr_wrlock and its rw_pr_unlock.
Exclusion ==
  \A w \in Writers : Readers = {} /\ Writers = {w}

\* No lost wakeup: when the lock is free and writers are counted as waiting
\* for readers, one of them has been signalled and is on its way (otherwise
\* all of them sleep for ever, since only an unlock signals).
NoLostWakeup ==
  (lock = None /\ active_readers = 0 /\ Waiters # {})
    => \E t \in Waiters : t \notin waitset

\* "It is OK to destroy rwlock once it is in unlocked state": when another
\* thread could take the write lock, nobody is still inside rw_pr_unlock.
DestroySafe ==
  (lock = None /\ active_readers = 0) => \A t \in Thread : pc[t] # "leave"

\* Every writer that waits gets the lock, once the readers stop coming.
WriterServed == \A t \in Thread : pc[t] = "wr_wait" ~> pc[t] = "write"
=============================================================================
