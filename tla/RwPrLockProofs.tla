--------------------------- MODULE RwPrLockProofs ---------------------------
(***************************************************************************)
(* The safety of rw_pr_lock_t for any number of threads.  The counters of  *)
(* the structure are exact (they equal the number of threads in the        *)
(* corresponding stretch of code), the mutex is held in exactly three      *)
(* places, and a signal is pending whenever the lock is neither read nor   *)
(* written while writers wait.                                             *)
(***************************************************************************)
EXTENDS RwPrLock, FiniteSetTheorems, TLAPS

CountersExact ==
  /\ active_readers = Cardinality(Readers)
  /\ writers_waiting_readers = Cardinality(Waiters)

MutexOwner ==
  \A t \in Thread : pc[t] \in {"rd_enter", "write", "leave"} <=> lock = t

WriterFlag ==
  /\ active_writer <=> Writers # {}
  /\ Writers # {} => Readers = {}

SignalPending ==
  (active_readers = 0 /\ ~active_writer /\ Waiters # {})
    => \E t \in Waiters : t \notin waitset

IInv ==
  /\ TypeOK
  /\ CountersExact
  /\ MutexOwner
  /\ WriterFlag
  /\ waitset \subseteq Waiters
  /\ SignalPending
-----------------------------------------------------------------------------
\* Every set of threads is finite, so its cardinality is a natural number,
\* is zero only for the empty set, and moves by one with an element.
LEMMA ThreadSets ==
  ASSUME NEW S, S \subseteq Thread
  PROVE  /\ IsFiniteSet(S)
         /\ Cardinality(S) \in Nat
         /\ Cardinality(S) = 0 <=> S = {}
         /\ \A t : t \notin S => Cardinality(S \cup {t}) = Cardinality(S) + 1
         /\ \A t \in S : Cardinality(S \ {t}) = Cardinality(S) - 1
<1>1. IsFiniteSet(S)
  BY ThreadAssumption, FS_Subset
<1>2. QED
  BY <1>1, FS_CardinalityType, FS_EmptySet, FS_AddElement, FS_RemoveElement

\* rw_pr_init() establishes the invariant.
LEMMA InitIInv == Init => IInv
<1> SUFFICES ASSUME Init PROVE IInv
  OBVIOUS
<1>1. Readers = {} /\ Writers = {} /\ Waiters = {}
  BY DEF Init, Readers, Writers, Waiters
<1>2. Cardinality({}) = 0
  BY FS_EmptySet
<1>3. TypeOK
  <2>1. MaxOps \in 0..MaxOps
    BY MaxOpsAssumption
  <2>2. left \in [Thread -> 0..MaxOps] /\ pc \in [Thread -> PC]
    BY <2>1 DEF Init, PC
  <2>3. active_writer \in BOOLEAN
    BY Zenon DEF Init
  <2>4. QED
    BY <2>2, <2>3 DEF Init, TypeOK
<1>4. CountersExact /\ SignalPending
  BY <1>1, <1>2 DEF Init, CountersExact, SignalPending
<1>5. WriterFlag
  BY <1>1 DEF Init, WriterFlag
<1>6. MutexOwner
  BY ThreadAssumption DEF Init, MutexOwner
<1>7. QED
  BY <1>1, <1>3, <1>4, <1>5, <1>6 DEF IInv, Init

\* Every step of every thread preserves the invariant.
LEMMA NextIInv == IInv /\ [Next]_vars => IInv'
<1> SUFFICES ASSUME IInv, [Next]_vars PROVE IInv'
  OBVIOUS
<1> USE DEF IInv, TypeOK, PC, ReadersActive, WakesWriter
<1>a. /\ Readers \subseteq Thread /\ Waiters \subseteq Thread
      /\ Writers \subseteq Thread
  BY DEF Readers, Waiters, Writers
<1>1. ASSUME NEW t \in Thread, RdLock(t) PROVE IInv'
  <2> USE <1>1 DEF RdLock, Request, Goto
  <2>1. /\ Readers' = Readers \cup {t} /\ t \notin Readers
        /\ Waiters' = Waiters /\ Writers' = Writers
    BY DEF Readers, Waiters, Writers
  <2>2. Writers = {}
    BY ThreadAssumption DEF MutexOwner, Writers
  <2>3. CountersExact'
    BY <1>a, <2>1, ThreadSets DEF CountersExact
  <2>4. MutexOwner'
    BY ThreadAssumption DEF MutexOwner
  <2>5. WriterFlag' /\ SignalPending' /\ (waitset \subseteq Waiters)'
    BY <2>1, <2>2 DEF WriterFlag, SignalPending
  <2>6. TypeOK'
    BY MaxOpsAssumption
  <2>7. QED
    BY <2>3, <2>4, <2>5, <2>6
<1>2. ASSUME NEW t \in Thread, MutexUnlock(t) PROVE IInv'
  <2> USE <1>2 DEF MutexUnlock, Goto
  <2>1. Readers' = Readers /\ Waiters' = Waiters /\ Writers' = Writers
    BY DEF Readers, Waiters, Writers
  <2>2. MutexOwner'
    BY ThreadAssumption DEF MutexOwner
  <2>3. QED
    BY <2>1, <2>2 DEF CountersExact, WriterFlag, SignalPending
<1>3. ASSUME NEW t \in Thread, WrLock(t) PROVE IInv'
  <2> USE <1>3 DEF WrLock, Request, Goto
  <2>1. /\ Readers' = Readers /\ Waiters' = Waiters
        /\ Writers' = Writers \cup {t}
    BY DEF Readers, Waiters, Writers
  <2>2. Readers = {}
    BY <1>a, ThreadSets DEF CountersExact
  <2>3. MutexOwner'
    BY ThreadAssumption DEF MutexOwner
  <2>4. TypeOK'
    BY MaxOpsAssumption
  <2>5. QED
    BY <2>1, <2>2, <2>3, <2>4 DEF CountersExact, WriterFlag, SignalPending
<1>4. ASSUME NEW t \in Thread, WrLockWait(t) PROVE IInv'
  <2> USE <1>4 DEF WrLockWait, Request, Goto
  <2>1. /\ Readers' = Readers /\ Writers' = Writers
        /\ Waiters' = Waiters \cup {t} /\ t \notin Waiters
    BY DEF Readers, Waiters, Writers
  <2>2. CountersExact'
    BY <1>a, <2>1, ThreadSets DEF CountersExact
  <2>3. MutexOwner'
    BY ThreadAssumption DEF MutexOwner
  <2>4. TypeOK'
    BY MaxOpsAssumption
  <2>5. QED
    BY <2>1, <2>2, <2>3, <2>4 DEF WriterFlag, SignalPending
<1>5. ASSUME NEW t \in Thread, WrWake(t) PROVE IInv'
  <2> USE <1>5 DEF WrWake, Goto
  <2>1. CASE active_readers # 0
    <3>1. Readers' = Readers /\ Waiters' = Waiters /\ Writers' = Writers
      BY <2>1 DEF Readers, Waiters, Writers
    <3>2. t \in Waiters
      BY DEF Waiters
    <3>3. CountersExact' /\ MutexOwner' /\ TypeOK'
      BY <2>1, <3>1 DEF CountersExact, MutexOwner
    <3>4. WriterFlag'
      BY <2>1, <3>1 DEF WriterFlag
    <3>5. QED
      BY <2>1, <3>1, <3>2, <3>3, <3>4 DEF SignalPending
  <2>2. CASE active_readers = 0
    <3>1. /\ Readers' = Readers /\ Writers' = Writers \cup {t}
          /\ Waiters' = Waiters \ {t} /\ t \in Waiters
      BY <2>2 DEF Readers, Waiters, Writers
    <3>2. Readers = {}
      BY <1>a, <2>2, ThreadSets DEF CountersExact
    <3>a. /\ Cardinality(Waiters \ {t}) = Cardinality(Waiters) - 1
          /\ Cardinality(Waiters \ {t}) \in Nat
      <4>1. Waiters \ {t} \subseteq Thread
        BY <1>a
      <4>2. Cardinality(Waiters \ {t}) \in Nat
        BY <4>1, ThreadSets
      <4>3. QED
        BY <1>a, <3>1, <4>2, ThreadSets
    <3>3. CountersExact' /\ writers_waiting_readers' \in Nat
      BY <2>2, <3>1, <3>a DEF CountersExact
    <3>4. MutexOwner'
      BY <2>2, ThreadAssumption DEF MutexOwner
    <3>5. QED
      BY <2>2, <3>1, <3>2, <3>3, <3>4 DEF WriterFlag, SignalPending
  <2>3. QED
    BY <2>1, <2>2
<1>6. ASSUME NEW t \in Thread, SpuriousWakeup(t) PROVE IInv'
  <2>1. Readers' = Readers /\ Waiters' = Waiters /\ Writers' = Writers
    BY <1>6 DEF SpuriousWakeup, Readers, Waiters, Writers
  <2>2. QED
    BY <1>6, <2>1
       DEF SpuriousWakeup, CountersExact, WriterFlag, SignalPending, MutexOwner
<1>7. ASSUME NEW t \in Thread, WrUnlock(t) PROVE IInv'
  <2> USE <1>7 DEF WrUnlock, Goto
  <2>1. /\ Readers' = Readers /\ Waiters' = Waiters
        /\ Writers' = Writers \ {t} /\ t \in Writers
    BY DEF Readers, Waiters, Writers
  <2>2. Writers' = {}
    BY <2>1, ThreadAssumption DEF MutexOwner, Writers
  <2>3. writers_waiting_readers # 0 <=> Waiters # {}
    BY <1>a, ThreadSets DEF CountersExact
  <2>4. (Waiters # {} => \E w \in Waiters : w \notin waitset')
        /\ waitset' \subseteq waitset
    BY <2>3 DEF SignalNoActiveReaders
  <2>5. MutexOwner'
    BY DEF MutexOwner
  <2>6. QED
    BY <2>1, <2>2, <2>4, <2>5 DEF CountersExact, WriterFlag, SignalPending
<1>8. ASSUME NEW t \in Thread, RdUnlock(t) PROVE IInv'
  <2> USE <1>8 DEF RdUnlock, Goto
  <2>1. /\ Readers' = Readers \ {t} /\ t \in Readers
        /\ Waiters' = Waiters /\ Writers' = Writers
    BY DEF Readers, Waiters, Writers
  <2>2. CountersExact' /\ active_readers' \in Nat
    BY <1>a, <2>1, ThreadSets DEF CountersExact
  <2>3. writers_waiting_readers # 0 <=> Waiters # {}
    BY <1>a, ThreadSets DEF CountersExact
  <2>4. /\ active_readers' = 0 /\ Waiters # {}
             => \E w \in Waiters : w \notin waitset'
        /\ waitset' \subseteq waitset
    BY <2>3 DEF SignalNoActiveReaders
  <2>5. MutexOwner'
    BY ThreadAssumption DEF MutexOwner
  <2>6. QED
    BY <2>1, <2>2, <2>4, <2>5 DEF WriterFlag, SignalPending
<1>9. CASE UNCHANGED vars
  <2>1. Readers' = Readers /\ Waiters' = Waiters /\ Writers' = Writers
    BY <1>9 DEF vars, Readers, Waiters, Writers
  <2>2. QED
    BY <1>9, <2>1
       DEF vars, CountersExact, WriterFlag, SignalPending, MutexOwner
<1>10. QED
  BY <1>1, <1>2, <1>3, <1>4, <1>5, <1>6, <1>7, <1>8, <1>9 DEF Next, Step

\* The counters, the mutex and the writer flag of rw_pr_lock_t always agree
\* with what the threads are doing.
THEOREM Invariance == Spec => []IInv
BY InitIInv, NextIInv, PTL DEF Spec

\* rw_pr_wrlock gives the lock to one thread with no reader beside it.
THEOREM ExclusionHolds == Spec => []Exclusion
<1>1. IInv => Exclusion
  BY DEF IInv, Exclusion, WriterFlag, MutexOwner, Writers
<1>2. QED
  BY <1>1, Invariance, PTL

\* rw_pr_unlock never leaves all waiting writers asleep on a free lock.
THEOREM NoLostWakeupHolds == Spec => []NoLostWakeup
<1>1. IInv => NoLostWakeup
  BY ThreadAssumption
     DEF IInv, NoLostWakeup, SignalPending, WriterFlag, MutexOwner, Writers
<1>2. QED
  BY <1>1, Invariance, PTL

\* A thread that gets the write lock and destroys the structure pulls it
\* away from nobody who is still inside rw_pr_unlock.
THEOREM DestroySafeHolds == Spec => []DestroySafe
<1>1. IInv => DestroySafe
  BY ThreadAssumption DEF IInv, DestroySafe, MutexOwner
<1>2. QED
  BY <1>1, Invariance, PTL
=============================================================================
