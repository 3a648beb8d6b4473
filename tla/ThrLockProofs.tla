---------------------------- MODULE ThrLockProofs ---------------------------
(***************************************************************************)
(* The table locks are right for any number of threads, tables and locks   *)
(* per statement: locks in use exclude each other as their types say,      *)
(* nobody waits for nothing, and the lists, types, conditions and counters *)
(* agree.                                                                  *)
(*                                                                         *)
(* The invariant has a part for each table, stated about the record that   *)
(* the mutex of the table protects, and a part for each thread.  The       *)
(* lemmas follow the code: one for each list operation, one for            *)
(* wake_up_waiters, one for each action.                                   *)
(***************************************************************************)
EXTENDS ThrLock, FiniteSetTheorems, FunctionTheorems, SequenceTheorems,
        WellFoundedInduction, TLAPS

Types == LockType \cup {TL_UNLOCK}
ReadTypes == {ty \in LockType : IsRead(ty)}
WriteTypes == LockType \ ReadTypes

\* The lock data that are bound to table l.
DataOf(l) == {d \in Data : d[2] \in DOMAIN locks[d[1]] /\ TableOf(d) = l}

\* A THR_LOCK, if the lock data of its table are D.
LockRecord(D) ==
  [read : Seq(D), read_wait : Seq(D), write : Seq(D), write_wait : Seq(D),
   read_no_write_count : Nat,
   write_lock_count : 0..(max_write_lock_count + 1)]

\* What its mutex protects.
States(D) ==
  [lk : LockRecord(D), ty : [Data -> Types], cd : [Data -> BOOLEAN]]

NoneTwice(s) ==
  /\ IsInjective(s.lk.read) /\ IsInjective(s.lk.read_wait)
  /\ IsInjective(s.lk.write) /\ IsInjective(s.lk.write_wait)

\* Readers are on the lists of readers and writers on those of writers, and
\* nobody is active and waits.
Apart(s) ==
  /\ \A d \in ToSet(s.lk.read) : s.ty[d] \in ReadTypes /\ ~s.cd[d]
  /\ \A d \in ToSet(s.lk.read_wait) : s.ty[d] \in ReadTypes /\ s.cd[d]
  /\ \A d \in ToSet(s.lk.write) : s.ty[d] \in WriteTypes /\ ~s.cd[d]
  /\ \A d \in ToSet(s.lk.write_wait) : s.ty[d] \in WriteTypes /\ s.cd[d]

\* A lock data that is not TL_UNLOCK is on a list, and one that waits too.
Listed(s, D) ==
  \A d \in D :
    /\ s.ty[d] # TL_UNLOCK =>
         d \in ToSet(s.lk.read) \cup ToSet(s.lk.read_wait)
               \cup ToSet(s.lk.write) \cup ToSet(s.lk.write_wait)
    /\ s.cd[d] => d \in ToSet(s.lk.read_wait) \cup ToSet(s.lk.write_wait)

NoInsertReaders(s) == {d \in ToSet(s.lk.read) : s.ty[d] = TL_READ_NO_INSERT}

\* The lists of one table agree with the lock data.
Consistent(s, D) ==
  /\ s \in States(D)
  /\ NoneTwice(s)
  /\ Apart(s)
  /\ Listed(s, D)
  /\ s.lk.read_no_write_count = Cardinality(NoInsertReaders(s))

\* Writers after the first are not stronger than it.
FirstIsStrongest(s) ==
  \A i, j \in DOMAIN s.lk.write :
    i < j => \/ s.ty[s.lk.write[i]] >= s.ty[s.lk.write[j]]
             \/ s.ty[s.lk.write[i]] >= TL_WRITE_LOW_PRIORITY

WritersTolerate(s) ==
  \A d, e \in ToSet(s.lk.write) :
    Owner(d) # Owner(e) => s.ty[d] = TL_WRITE_ALLOW_WRITE

ReadersTolerate(s) ==
  \A d \in ToSet(s.lk.write), e \in ToSet(s.lk.read) :
    Owner(d) # Owner(e) =>
      /\ s.ty[d] <= TL_WRITE_DELAYED
      /\ ~(s.ty[d] = TL_WRITE_CONCURRENT_INSERT /\ s.ty[e] = TL_READ_NO_INSERT)

\* The locks in use tolerate each other.
Tolerant(s) == FirstIsStrongest(s) /\ WritersTolerate(s) /\ ReadersTolerate(s)

NoneForgotten(s) ==
  s.lk.write = <<>> =>
    /\ s.lk.read = <<>> => s.lk.write_wait = <<>> /\ s.lk.read_wait = <<>>
    /\ s.lk.write_wait = <<>> => s.lk.read_wait = <<>>

TableInv(s, D) == Consistent(s, D) /\ Tolerant(s) /\ NoneForgotten(s)

\* The array of a thread: sorted for each table; one of a delayed insert has
\* one element.
ArrayInv(t) ==
  /\ locks[t] \in Seq([table : Table, type : LockType])
  /\ Len(locks[t]) <= MaxLocks
  /\ \A i, j \in DOMAIN locks[t] :
       i < j /\ locks[t][i].table = locks[t][j].table =>
         locks[t][i].type >= locks[t][j].type
  /\ \A i \in DOMAIN locks[t] :
       locks[t][i].type = TL_WRITE_DELAYED =>
         Len(locks[t]) = 1 /\ new_lock_type[t] \in DelayedTypes

\* The type a lock data may have, given what was requested.
TypeFits(t, i) ==
  LET ty == type[<<t, i>>]
      r == locks[t][i]
  IN ty # TL_UNLOCK =>
       \/ ty = r.type /\ (ty = TL_WRITE_CONCURRENT_INSERT =>
                            r.table \in WithCheckStatus)
       \/ /\ r.type = TL_WRITE_CONCURRENT_INSERT
          /\ ty \in {TL_WRITE, TL_WRITE_LOW_PRIORITY}
       \/ r.type = TL_WRITE_DELAYED /\ ty \in DelayedTypes

\* A thread waits for one lock, except that one of a delayed insert waits by
\* itself.
Waits(t, i) ==
  cond[<<t, i>>] => \/ pc[t] \in {"wait", "upwait"} /\ i = pos[t]
                    \/ type[<<t, i>>] = TL_WRITE_DELAYED

Progress(t) ==
  /\ (pc[t] = "idle") <=> (locks[t] = <<>>)
  /\ pc[t] # "idle" => pos[t] \in DOMAIN locks[t]
  /\ pc[t] = "lock" =>
       \A i \in DOMAIN locks[t] : i >= pos[t] => type[<<t, i>>] = TL_UNLOCK
  /\ pc[t] = "wait" =>
       \A i \in DOMAIN locks[t] : i > pos[t] => type[<<t, i>>] = TL_UNLOCK

ThreadInv(t) ==
  /\ ArrayInv(t)
  /\ \A i \in DOMAIN locks[t] : TypeFits(t, i) /\ Waits(t, i)
  /\ \A i \in (1..MaxLocks) \ DOMAIN locks[t] :
       type[<<t, i>>] = TL_UNLOCK /\ ~cond[<<t, i>>]
  /\ Progress(t)

SmallTypes ==
  /\ lock \in [Table -> LockRecord(Data)]
  /\ type \in [Data -> Types]
  /\ cond \in [Data -> BOOLEAN]
  /\ abort \in [Thread -> BOOLEAN]
  /\ locks \in [Thread -> Seq([table : Table, type : LockType])]
  /\ pos \in [Thread -> 1..MaxLocks]
  /\ new_lock_type \in [Thread -> DelayedTypes \cup {TL_UNLOCK}]
  /\ pc \in [Thread -> PC]

\* All tables are in order.
TablesInv == \A l \in Table : TableInv(State(l), DataOf(l))

\* The inductive invariant.
IInv == SmallTypes /\ TablesInv /\ \A t \in Thread : ThreadInv(t)
-----------------------------------------------------------------------------
(* Orders and lists *)

\* enum thr_lock_type as numbers.
LEMMA TypeNumbers ==
  /\ LockType = {2, 3, 4, 5, 6, 7, 8, 10, 11}
  /\ Types = {0, 2, 3, 4, 5, 6, 7, 8, 10, 11}
  /\ ReadTypes = {2, 3, 4, 5}
  /\ WriteTypes = {6, 7, 8, 10, 11}
  /\ TL_UNLOCK = 0 /\ TL_READ_HIGH_PRIORITY = 4 /\ TL_READ_NO_INSERT = 5
  /\ TL_WRITE_ALLOW_WRITE = 6 /\ TL_WRITE_CONCURRENT_INSERT = 7
  /\ TL_WRITE_DELAYED = 8 /\ TL_WRITE_LOW_PRIORITY = 10 /\ TL_WRITE = 11
<1>1. LockType = {2, 3, 4, 5, 6, 7, 8, 10, 11}
  BY DEF LockType, TL_READ, TL_READ_WITH_SHARED_LOCKS, TL_READ_HIGH_PRIORITY,
         TL_READ_NO_INSERT, TL_WRITE_ALLOW_WRITE, TL_WRITE_CONCURRENT_INSERT,
         TL_WRITE_DELAYED, TL_WRITE_LOW_PRIORITY, TL_WRITE
<1>2. ReadTypes = {2, 3, 4, 5}
  BY <1>1 DEF ReadTypes, IsRead, TL_READ_NO_INSERT
<1>3. WriteTypes = {6, 7, 8, 10, 11}
  BY <1>1, <1>2 DEF WriteTypes
<1>4. Types = {0, 2, 3, 4, 5, 6, 7, 8, 10, 11}
  BY <1>1 DEF Types, TL_UNLOCK
<1>5. QED
  BY <1>1, <1>2, <1>3, <1>4
     DEF TL_UNLOCK, TL_READ_HIGH_PRIORITY, TL_READ_NO_INSERT,
         TL_WRITE_ALLOW_WRITE, TL_WRITE_CONCURRENT_INSERT, TL_WRITE_DELAYED,
         TL_WRITE_LOW_PRIORITY, TL_WRITE

\* A set of numbers has a smallest element.
LEMMA Smallest ==
  ASSUME NEW S \in SUBSET Nat, S # {}
  PROVE  \E i \in S : \A j \in S : i <= j
<1> DEFINE R == {x \in Nat \X Nat : x[1] < x[2]}
<1>1. IsWellFoundedOn(R, Nat)
  BY NatLessThanWellFounded, Zenon DEF OpToRel
<1>2. PICK i \in S : \A j \in S : ~(<<j, i>> \in R)
  <2> HIDE DEF R
  <2> QED
    BY <1>1, WFMin
<1>3. ASSUME NEW j \in S PROVE i <= j
  <2>1. i \in Nat /\ j \in Nat /\ ~(<<j, i>> \in R)
    BY <1>2
  <2> QED
    BY <2>1
<1> QED
  BY <1>3

\* A finite set can be put in a strict total order: an element is as far from
\* the front as there are elements before it.
LEMMA InOrderFacts ==
  ASSUME NEW I, IsFiniteSet(I), NEW R,
         \A i \in I : <<i, i>> \notin R,
         \A i, j \in I : i # j => <<i, j>> \in R \/ <<j, i>> \in R,
         \A i, j, k \in I : <<i, j>> \in R /\ <<j, k>> \in R => <<i, k>> \in R
  PROVE  /\ InOrder(I, R) \in [1..Cardinality(I) -> I]
         /\ \A i, j \in 1..Cardinality(I) :
              i < j => <<InOrder(I, R)[i], InOrder(I, R)[j]>> \in R
         /\ \A x \in I : \E k \in 1..Cardinality(I) : InOrder(I, R)[k] = x
<1> DEFINE n == Cardinality(I)
           Before(i) == {j \in I : <<j, i>> \in R}
           rank == [i \in I |-> Cardinality(Before(i)) + 1]
           Ordered(h) == \A i, j \in 1..n : i < j => <<h[i], h[j]>> \in R
<1>1. n \in Nat /\ IsFiniteSet(1..n) /\ Cardinality(1..n) = n
  <2>1. n \in Nat
    BY FS_CardinalityType
  <2>2. IsFiniteSet(1..n) /\ Cardinality(1..n) = IF 1 > n THEN 0 ELSE n - 1 + 1
    BY <2>1, FS_Interval
  <2>3. QED
    BY <2>1, <2>2
<1>2. ASSUME NEW i \in I
      PROVE  /\ IsFiniteSet(Before(i)) /\ Cardinality(Before(i)) \in Nat
             /\ Cardinality(Before(i)) < n
  <2>1. Before(i) \in SUBSET I /\ Before(i) # I
    OBVIOUS
  <2> HIDE DEF Before
  <2>2. /\ IsFiniteSet(Before(i)) /\ Cardinality(Before(i)) <= n
        /\ n = Cardinality(Before(i)) => I = Before(i)
    BY <2>1, FS_Subset
  <2>3. Cardinality(Before(i)) \in Nat
    BY <2>2, FS_CardinalityType
  <2>4. QED
    BY <1>1, <2>1, <2>2, <2>3
<1>3. ASSUME NEW i \in I, NEW j \in I, <<i, j>> \in R PROVE rank[i] < rank[j]
  <2>1. Before(i) \in SUBSET Before(j) /\ Before(i) # Before(j)
    BY <1>3
  <2>2. /\ Cardinality(Before(i)) <= Cardinality(Before(j))
        /\ Cardinality(Before(j)) = Cardinality(Before(i)) => Before(j) = Before(i)
    <3>1. IsFiniteSet(Before(j))
      BY <1>2
    <3> HIDE DEF Before
    <3>2. QED
      BY <2>1, <3>1, FS_Subset
  <2>3. Cardinality(Before(i)) \in Nat /\ Cardinality(Before(j)) \in Nat
    BY <1>2
  <2> HIDE DEF Before
  <2>4. QED
    BY <2>1, <2>2, <2>3
<1>4. rank \in [I -> 1..n]
  <2> HIDE DEF Before, n
  <2>1. \A i \in I : Cardinality(Before(i)) + 1 \in 1..n
    BY <1>1, <1>2
  <2>2. QED
    BY <2>1
<1> HIDE DEF rank, Before
<1>5. \A i, j \in I : rank[i] = rank[j] => i = j
  <2>1. \A i \in I : rank[i] \in Nat
    BY <1>4
  <2>2. SUFFICES ASSUME NEW i \in I, NEW j \in I, rank[i] = rank[j], i # j
                 PROVE  FALSE
    OBVIOUS
  <2>3. <<i, j>> \in R \/ <<j, i>> \in R
    BY <2>2
  <2>4. rank[i] < rank[j] \/ rank[j] < rank[i]
    BY <1>3, <2>3
  <2>5. QED
    BY <2>1, <2>2, <2>4
<1>6. rank \in Surjection(I, 1..n)
  <2>1. rank \in Injection(I, 1..n)
    BY <1>4, <1>5, Fun_IsInj
  <2>2. QED
    BY <1>1, <2>1, FS_Injection
<1>7. \E h \in [1..n -> I] : Ordered(h)
  <2>1. PICK g \in [1..n -> I] : \A k \in 1..n : rank[g[k]] = k
    <3> DEFINE g == [k \in 1..n |-> CHOOSE i \in I : rank[i] = k]
    <3>1. \A k \in 1..n : \E i \in I : rank[i] = k
      BY <1>6, Fun_SurjectionProperties
    <3> HIDE DEF n
    <3>2. g \in [1..n -> I] /\ \A k \in 1..n : rank[g[k]] = k
      BY <3>1
    <3>3. QED
      BY <3>2
  <2>2. ASSUME NEW i \in 1..n, NEW j \in 1..n, i < j
        PROVE  <<g[i], g[j]>> \in R
    <3>1. g[i] \in I /\ g[j] \in I /\ rank[g[i]] = i /\ rank[g[j]] = j
      BY <2>1
    <3>2. g[i] # g[j]
      BY <2>2, <3>1
    <3>3. ~(<<g[j], g[i]>> \in R)
      BY <1>3, <2>2, <3>1
    <3>4. QED
      BY <3>1, <3>2, <3>3
  <2>3. QED
    BY <2>2
<1> DEFINE h == InOrder(I, R)
<1>8. h \in [1..n -> I] /\ Ordered(h)
  BY <1>7 DEF InOrder
<1> HIDE DEF h
<1>9. \A i, j \in 1..n : h[i] = h[j] => i = j
  <2>1. SUFFICES ASSUME NEW i \in 1..n, NEW j \in 1..n, h[i] = h[j], i # j
                 PROVE  FALSE
    OBVIOUS
  <2>2. h[i] \in I /\ h[j] \in I
    BY <1>8
  <2>3. i < j \/ j < i
    BY <1>1, <2>1
  <2>4. QED
    BY <1>8, <2>1, <2>2, <2>3
<1>10. \A x \in I : \E k \in 1..n : h[k] = x
  <2>1. h \in Injection(1..n, I)
    BY <1>8, <1>9, Fun_IsInj
  <2>2. h \in Surjection(1..n, I)
    BY <1>1, <2>1, FS_Injection
  <2>3. QED
    BY <2>2, Fun_SurjectionProperties
<1>11. QED
  BY <1>8, <1>10 DEF h

\* The elements of part come in the order they have in list.
OrderKept(part, list) ==
  \A i, j \in DOMAIN part :
    i < j => \E a, b \in DOMAIN list :
               a < b /\ part[i] = list[a] /\ part[j] = list[b]

\* The filtered list has the elements of the list that are in S, in the same
\* order.
LEMMA FilterFacts ==
  ASSUME NEW X, NEW s \in Seq(X), NEW S
  PROVE  /\ Filter(s, S) \in Seq(X)
         /\ ToSet(Filter(s, S)) = ToSet(s) \cap S
         /\ IsInjective(s) => IsInjective(Filter(s, S))
         /\ OrderKept(Filter(s, S), s)
<1> DEFINE I == {i \in DOMAIN s : s[i] \in S}
           R == {x \in I \X I : x[1] < x[2]}
           n == Cardinality(I)
           h == InOrder(I, R)
           f == [k \in 1..n |-> s[h[k]]]
<1>1. Len(s) \in Nat /\ DOMAIN s = 1..Len(s) /\ \A i \in DOMAIN s : s[i] \in X
  BY LenProperties, ElementOfSeq
<1>2. IsFiniteSet(I) /\ n \in Nat
  <2>1. IsFiniteSet(1..Len(s))
    BY <1>1, FS_Interval
  <2>2. IsFiniteSet(I)
    BY <1>1, <2>1, FS_Subset
  <2>3. QED
    BY <2>2, FS_CardinalityType
<1>3. I \subseteq Nat
  BY <1>1
<1>4. /\ h \in [1..n -> I]
      /\ \A i, j \in 1..n : i < j => <<h[i], h[j]>> \in R
      /\ \A x \in I : \E k \in 1..n : h[k] = x
  <2>1. \A i \in I : <<i, i>> \notin R
    BY <1>3
  <2>2. \A i, j \in I : i # j => <<i, j>> \in R \/ <<j, i>> \in R
    BY <1>3
  <2>3. \A i, j, k \in I : <<i, j>> \in R /\ <<j, k>> \in R => <<i, k>> \in R
    BY <1>3
  <2> HIDE DEF I, R
  <2>4. QED
    BY <1>2, <2>1, <2>2, <2>3, InOrderFacts
<1>5. \A i, j \in 1..n : i < j => h[i] < h[j]
  <2>1. ASSUME NEW i \in 1..n, NEW j \in 1..n, i < j PROVE h[i] < h[j]
    <3>1. <<h[i], h[j]>> \in R
      BY <1>4, <2>1
    <3>2. QED
      BY <3>1
  <2>2. QED
    BY <2>1
<1>6. Filter(s, S) = f
  BY DEF Filter
<1>7. \A k \in 1..n : h[k] \in DOMAIN s /\ f[k] = s[h[k]] /\ s[h[k]] \in S
  <2>1. \A i \in I : i \in DOMAIN s /\ s[i] \in S
    OBVIOUS
  <2> HIDE DEF I, h
  <2>2. QED
    BY <1>4, <2>1
<1>8. \A x \in DOMAIN s : s[x] \in S => \E k \in 1..n : h[k] = x
  <2>1. \A x \in DOMAIN s : s[x] \in S => x \in I
    OBVIOUS
  <2> HIDE DEF I, h
  <2>2. QED
    BY <1>4, <2>1
<1>9. DOMAIN f = 1..n
  OBVIOUS
<1> HIDE DEF n, h, f, I, R
<1>10. f \in Seq(X)
  <2>1. \A k \in 1..n : f[k] \in X
    BY <1>1, <1>7
  <2>2. f \in [1..n -> X]
    BY <2>1, <1>9 DEF f
  <2>3. QED
    BY <1>2, <2>2, SeqDef
<1>11. ToSet(f) = ToSet(s) \cap S
  BY <1>7, <1>8, <1>9 DEF ToSet
<1>12. ASSUME IsInjective(s) PROVE IsInjective(f)
  <2>1. SUFFICES ASSUME NEW i \in 1..n, NEW j \in 1..n, f[i] = f[j], i # j
                 PROVE  FALSE
    BY <1>9 DEF IsInjective
  <2>2. h[i] = h[j]
    BY <1>7, <1>12, <2>1 DEF IsInjective
  <2>3. i < j \/ j < i
    BY <1>2, <2>1
  <2>4. h[i] \in Nat /\ h[j] \in Nat
    BY <1>1, <1>7
  <2>5. QED
    BY <1>5, <2>2, <2>3, <2>4
<1>13. ASSUME NEW i \in 1..n, NEW j \in 1..n, i < j
       PROVE  \E a, b \in DOMAIN s : a < b /\ f[i] = s[a] /\ f[j] = s[b]
  <2>1. /\ h[i] \in DOMAIN s /\ h[j] \in DOMAIN s /\ h[i] < h[j]
        /\ f[i] = s[h[i]] /\ f[j] = s[h[j]]
    BY <1>5, <1>7, <1>13
  <2>2. QED
    BY <2>1
<1>14. OrderKept(f, s)
  BY <1>9, <1>13 DEF OrderKept
<1>15. QED
  BY <1>6, <1>10, <1>11, <1>12, <1>14

\* A list is empty when no element is on it; otherwise its head is on it.
LEMMA HeadFacts ==
  ASSUME NEW X, NEW s \in Seq(X)
  PROVE  /\ s = <<>> <=> ToSet(s) = {}
         /\ s # <<>> => /\ 1 \in DOMAIN s /\ Head(s) = s[1]
                        /\ Head(s) \in ToSet(s)
         /\ ToSet(s) \subseteq X
<1>1. /\ Len(s) \in Nat /\ DOMAIN s = 1..Len(s)
      /\ \A i \in 1..Len(s) : s[i] \in X
  BY LenProperties, ElementOfSeq
<1>2. ASSUME s # <<>> PROVE 1 \in DOMAIN s /\ Head(s) = s[1]
  <2>1. Len(s) \in Nat \ {0}
    BY <1>2, EmptySeq
  <2>2. QED
    BY <1>1, <2>1
<1>3. DOMAIN <<>> = {}
  OBVIOUS
<1>4. QED
  BY <1>1, <1>2, <1>3 DEF ToSet

\* One list behind another.
LEMMA ConcatFacts ==
  ASSUME NEW X, NEW s \in Seq(X), NEW t \in Seq(X)
  PROVE  /\ s \o t \in Seq(X)
         /\ ToSet(s \o t) = ToSet(s) \cup ToSet(t)
         /\ IsInjective(s) /\ IsInjective(t) /\ ToSet(s) \cap ToSet(t) = {}
              => IsInjective(s \o t)
         /\ s = <<>> => s \o t = t
<1> DEFINE c == s \o t
<1>1. /\ Len(s) \in Nat /\ DOMAIN s = 1..Len(s)
      /\ Len(t) \in Nat /\ DOMAIN t = 1..Len(t)
  BY LenProperties
<1>2. /\ c \in Seq(X) /\ Len(c) = Len(s) + Len(t)
      /\ \A i \in 1..(Len(s) + Len(t)) :
           c[i] = IF i <= Len(s) THEN s[i] ELSE t[i - Len(s)]
  BY ConcatProperties
<1>3. DOMAIN c = 1..(Len(s) + Len(t))
  BY <1>2, LenProperties
<1>4. s = <<>> => s \o t = t
  BY ConcatEmptySeq
<1> HIDE DEF c
<1>5. \A i \in DOMAIN s : i \in DOMAIN c /\ c[i] = s[i]
  BY <1>1, <1>2, <1>3
<1>6. \A i \in DOMAIN t : i + Len(s) \in DOMAIN c /\ c[i + Len(s)] = t[i]
  <2>1. SUFFICES ASSUME NEW i \in DOMAIN t
                 PROVE  i + Len(s) \in DOMAIN c /\ c[i + Len(s)] = t[i]
    OBVIOUS
  <2>2. /\ i + Len(s) \in 1..(Len(s) + Len(t))
        /\ ~(i + Len(s) <= Len(s)) /\ (i + Len(s)) - Len(s) = i
    BY <1>1
  <2>3. QED
    BY <1>2, <1>3, <2>2
<1>7. \A i \in DOMAIN c :
        \/ i \in DOMAIN s /\ c[i] = s[i]
        \/ ~(i <= Len(s)) /\ i - Len(s) \in DOMAIN t /\ c[i] = t[i - Len(s)]
  BY <1>1, <1>2, <1>3
<1>8. ToSet(c) = ToSet(s) \cup ToSet(t)
  <2>1. ToSet(c) \subseteq ToSet(s) \cup ToSet(t)
    BY <1>7 DEF ToSet
  <2>2. ToSet(s) \subseteq ToSet(c)
    BY <1>5 DEF ToSet
  <2>3. ToSet(t) \subseteq ToSet(c)
    BY <1>6 DEF ToSet
  <2>4. QED
    BY <2>1, <2>2, <2>3
<1>9. ASSUME IsInjective(s), IsInjective(t), ToSet(s) \cap ToSet(t) = {}
      PROVE  IsInjective(c)
  <2>1. SUFFICES ASSUME NEW i \in DOMAIN c, NEW j \in DOMAIN c, c[i] = c[j]
                 PROVE  i = j
    BY DEF IsInjective
  <2>2. \A a \in DOMAIN s, b \in DOMAIN t : s[a] # t[b]
    BY <1>9 DEF ToSet
  <2>3. CASE i \in DOMAIN s /\ c[i] = s[i]
    BY <1>7, <1>9, <2>1, <2>2, <2>3 DEF IsInjective
  <2>4. CASE ~(i <= Len(s)) /\ i - Len(s) \in DOMAIN t /\ c[i] = t[i - Len(s)]
    <3>1. j - Len(s) \in DOMAIN t /\ c[j] = t[j - Len(s)]
      BY <1>7, <2>1, <2>2, <2>4
    <3>2. i - Len(s) = j - Len(s)
      BY <1>9, <2>1, <2>4, <3>1 DEF IsInjective
    <3>3. QED
      BY <1>1, <1>3, <3>2
  <2>5. QED
    BY <1>7, <2>3, <2>4
<1>10. QED
  BY <1>2, <1>4, <1>8, <1>9 DEF c

\* A list of one element.
LEMMA SingleFacts ==
  ASSUME NEW X, NEW x \in X
  PROVE  /\ <<x>> \in Seq(X)
         /\ ToSet(<<x>>) = {x}
         /\ IsInjective(<<x>>)
<1>1. <<x>> \in Seq(X) /\ DOMAIN <<x>> = {1} /\ <<x>>[1] = x
  OBVIOUS
<1>2. QED
  BY <1>1 DEF ToSet, IsInjective

\* A new element at the end of a list.
LEMMA AppendFacts ==
  ASSUME NEW X, NEW s \in Seq(X), NEW x \in X
  PROVE  /\ Append(s, x) \in Seq(X)
         /\ Append(s, x) # <<>>
         /\ ToSet(Append(s, x)) = ToSet(s) \cup {x}
         /\ IsInjective(s) /\ x \notin ToSet(s) => IsInjective(Append(s, x))
         /\ \A i, j \in DOMAIN Append(s, x) :
              i < j =>
                \/ /\ i \in DOMAIN s /\ j \in DOMAIN s
                   /\ Append(s, x)[i] = s[i] /\ Append(s, x)[j] = s[j]
                \/ /\ i \in DOMAIN s
                   /\ Append(s, x)[i] = s[i] /\ Append(s, x)[j] = x
<1>1. /\ Append(s, x) \in Seq(X) /\ Append(s, x) # <<>>
      /\ Len(Append(s, x)) = Len(s) + 1
      /\ \A i \in 1..Len(s) : Append(s, x)[i] = s[i]
      /\ Append(s, x)[Len(s) + 1] = x
  BY AppendProperties
<1>2. Append(s, x) = s \o <<x>>
  BY AppendIsConcat
<1>3. <<x>> \in Seq(X) /\ ToSet(<<x>>) = {x} /\ IsInjective(<<x>>)
  BY SingleFacts
<1>4. /\ ToSet(s \o <<x>>) = ToSet(s) \cup {x}
      /\ IsInjective(s) /\ x \notin ToSet(s) => IsInjective(s \o <<x>>)
  <2>1. /\ ToSet(s \o <<x>>) = ToSet(s) \cup ToSet(<<x>>)
        /\ IsInjective(s) /\ IsInjective(<<x>>) /\ ToSet(s) \cap ToSet(<<x>>) = {}
             => IsInjective(s \o <<x>>)
    BY <1>3, ConcatFacts
  <2>2. x \notin ToSet(s) => ToSet(s) \cap {x} = {}
    OBVIOUS
  <2>3. QED
    BY <1>3, <2>1, <2>2
<1>5. /\ Len(s) \in Nat /\ DOMAIN s = 1..Len(s)
      /\ DOMAIN Append(s, x) = 1..(Len(s) + 1)
  BY <1>1, LenProperties
<1>6. QED
  BY <1>1, <1>2, <1>4, <1>5

\* The lists a and b are s cut after the n-th element.
Cut(X, s, n, a, b) ==
  /\ a \in Seq(X) /\ b \in Seq(X) /\ a # <<>>
  /\ \A x \in ToSet(a) : \E i \in 1..n : x = s[i]
  /\ ToSet(a) \cup ToSet(b) = ToSet(s)
  /\ IsInjective(s) => /\ IsInjective(a) /\ IsInjective(b)
                       /\ ToSet(a) \cap ToSet(b) = {}

\* SubSeq cuts a list.
LEMMA SplitFacts ==
  ASSUME NEW X, NEW s \in Seq(X), NEW n \in 1..Len(s), NEW a, NEW b,
         a = SubSeq(s, 1, n), b = SubSeq(s, Len(a) + 1, Len(s))
  PROVE  Cut(X, s, n, a, b)
<1>1. /\ Len(s) \in Nat /\ DOMAIN s = 1..Len(s)
      /\ \A i \in 1..Len(s) : s[i] \in X
  BY LenProperties, ElementOfSeq
<1>2. /\ a \in Seq(X) /\ Len(a) = n /\ DOMAIN a = 1..n
      /\ \A i \in 1..n : a[i] = s[i]
  <2>1. \A i \in 1..n : s[i] \in X
    BY <1>1
  <2>2. /\ a \in Seq(X)
        /\ Len(a) = IF 1 <= n THEN n - 1 + 1 ELSE 0
        /\ \A i \in 1..(n - 1 + 1) : a[i] = s[1 + i - 1]
    BY <1>1, <2>1, SubSeqProperties
  <2>3. Len(a) = n /\ \A i \in 1..n : a[i] = s[i]
    BY <1>1, <2>2
  <2>4. QED
    BY <2>2, <2>3, LenProperties
<1>3. /\ b \in Seq(X) /\ DOMAIN b = 1..(Len(s) - n)
      /\ \A i \in 1..(Len(s) - n) : b[i] = s[n + i]
  <2> DEFINE c == SubSeq(s, n + 1, Len(s))
  <2>1. (\A i \in (n + 1)..Len(s) : s[i] \in X) /\ b = c
    BY <1>1, <1>2
  <2>2. /\ c \in Seq(X)
        /\ Len(c) = IF n + 1 <= Len(s) THEN Len(s) - (n + 1) + 1 ELSE 0
        /\ \A i \in 1..(Len(s) - (n + 1) + 1) : c[i] = s[(n + 1) + i - 1]
    BY <1>1, <2>1, SubSeqProperties
  <2> HIDE DEF c
  <2>3. Len(b) = Len(s) - n
    <3>1. CASE n + 1 <= Len(s)
      BY <1>1, <2>1, <2>2, <3>1
    <3>2. CASE n = Len(s)
      BY <1>1, <2>1, <2>2, <3>2
    <3>3. n \in Nat /\ Len(s) \in Nat /\ n <= Len(s)
      BY <1>1
    <3>4. n + 1 <= Len(s) \/ n = Len(s)
      BY <3>3
    <3>5. QED
      BY <3>1, <3>2, <3>4
  <2>4. ASSUME NEW i \in 1..(Len(s) - n) PROVE b[i] = s[n + i]
    <3>1. /\ i \in 1..(Len(s) - (n + 1) + 1)
          /\ (n + 1) + i - 1 = n + i
      BY <1>1
    <3>2. QED
      BY <2>1, <2>2, <3>1
  <2>5. QED
    BY <2>1, <2>2, <2>3, <2>4, LenProperties
<1>4. \A i \in DOMAIN b : n + i \in DOMAIN s /\ n + i \notin DOMAIN a
  BY <1>1, <1>2, <1>3
<1>5. \A i \in DOMAIN s : i \in DOMAIN a \/ (i - n \in DOMAIN b /\ n + (i - n) = i)
  <2>1. n \in Nat /\ n <= Len(s) /\ n >= 1
    BY <1>1
  <2>2. \A i \in 1..Len(s) :
          i \in 1..n \/ (i - n \in 1..(Len(s) - n) /\ n + (i - n) = i)
    <3>1. SUFFICES ASSUME NEW i \in 1..Len(s), i \notin 1..n
                   PROVE  i - n \in 1..(Len(s) - n) /\ n + (i - n) = i
      OBVIOUS
    <3>2. i \in Nat /\ i > n /\ i <= Len(s)
      BY <1>1, <2>1, <3>1
    <3>3. QED
      BY <1>1, <2>1, <3>2
  <2>3. QED
    BY <1>1, <1>2, <1>3, <2>2
<1>6. DOMAIN a \subseteq DOMAIN s /\ 1 \in DOMAIN a
  BY <1>1, <1>2
<1>7. \A x \in ToSet(a) : \E i \in 1..n : x = s[i]
  BY <1>2 DEF ToSet
<1>8. ToSet(a) \cup ToSet(b) = ToSet(s)
  <2>1. ASSUME NEW i \in DOMAIN s PROVE s[i] \in ToSet(a) \cup ToSet(b)
    <3>1. CASE i \in DOMAIN a
      BY <1>2, <3>1 DEF ToSet
    <3>2. CASE i - n \in DOMAIN b /\ n + (i - n) = i
      <4>1. b[i - n] = s[i]
        BY <1>3, <3>2
      <4>2. QED
        BY <3>2, <4>1 DEF ToSet
    <3>3. QED
      BY <1>5, <3>1, <3>2
  <2>2. ToSet(a) \subseteq ToSet(s)
    BY <1>2, <1>6 DEF ToSet
  <2>3. ToSet(b) \subseteq ToSet(s)
    BY <1>3, <1>4 DEF ToSet
  <2>4. QED
    BY <2>1, <2>2, <2>3 DEF ToSet
<1>9. ASSUME IsInjective(s)
      PROVE  /\ IsInjective(a) /\ IsInjective(b)
             /\ ToSet(a) \cap ToSet(b) = {}
  <2>1. IsInjective(a)
    BY <1>2, <1>6, <1>9 DEF IsInjective
  <2>2. IsInjective(b)
    <3>1. SUFFICES ASSUME NEW i \in DOMAIN b, NEW j \in DOMAIN b, b[i] = b[j]
                   PROVE  i = j
      BY DEF IsInjective
    <3>2. n + i = n + j
      BY <1>3, <1>4, <1>9, <3>1 DEF IsInjective
    <3>3. QED
      BY <1>1, <1>3, <3>2
  <2>3. \A i \in DOMAIN a, j \in DOMAIN b : a[i] # b[j]
    BY <1>2, <1>3, <1>4, <1>6, <1>9 DEF IsInjective
  <2>4. QED
    BY <2>1, <2>2, <2>3 DEF ToSet
<1>10. a # <<>>
  <2>1. DOMAIN <<>> = {}
    OBVIOUS
  <2>2. QED
    BY <1>6, <2>1
<1>11. QED
  BY <1>2, <1>3, <1>7, <1>8, <1>9, <1>10 DEF Cut

\* The elements of a list are finitely many, as many as the list is long if
\* none is on it twice.
LEMMA CountFacts ==
  ASSUME NEW X, NEW s \in Seq(X)
  PROVE  /\ IsFiniteSet(ToSet(s))
         /\ IsInjective(s) => Cardinality(ToSet(s)) = Len(s)
<1>1. Len(s) \in Nat /\ DOMAIN s = 1..Len(s) /\ s \in [1..Len(s) -> X]
  BY LenProperties
<1>2. IsFiniteSet(1..Len(s)) /\ Cardinality(1..Len(s)) = Len(s)
  <2>1. /\ IsFiniteSet(1..Len(s))
        /\ Cardinality(1..Len(s)) = IF 1 > Len(s) THEN 0 ELSE Len(s) - 1 + 1
    BY <1>1, FS_Interval
  <2>2. QED
    BY <1>1, <2>1
<1>3. s \in Surjection(1..Len(s), ToSet(s))
  <2>1. s \in [1..Len(s) -> ToSet(s)]
    BY <1>1 DEF ToSet
  <2>2. \A x \in ToSet(s) : \E i \in 1..Len(s) : s[i] = x
    BY <1>1 DEF ToSet
  <2>3. QED
    BY <2>1, <2>2, Fun_IsSurj
<1>4. /\ IsFiniteSet(ToSet(s))
      /\ Cardinality(ToSet(s)) = Cardinality(1..Len(s))
           <=> s \in Injection(1..Len(s), ToSet(s))
  BY <1>2, <1>3, FS_Surjection
<1>5. IsInjective(s) => s \in Injection(1..Len(s), ToSet(s))
  BY <1>1, <1>3, Fun_SurjectionProperties, Fun_IsInj DEF IsInjective
<1>6. QED
  BY <1>2, <1>4, <1>5

\* sort_locks: the same locks, and of two for the same table the stronger is
\* first.
LEMMA SortLocksFacts ==
  ASSUME NEW r \in Seq([table : Table, type : LockType])
  PROVE  /\ SortLocks(r) \in Seq([table : Table, type : LockType])
         /\ Len(SortLocks(r)) = Len(r)
         /\ \A i \in DOMAIN SortLocks(r) : \E j \in DOMAIN r : SortLocks(r)[i] = r[j]
         /\ \A i, j \in DOMAIN SortLocks(r) :
              i < j /\ SortLocks(r)[i].table = SortLocks(r)[j].table =>
                SortLocks(r)[i].type >= SortLocks(r)[j].type
<1> DEFINE X == [table : Table, type : LockType]
           I == DOMAIN r
           Before == {x \in I \X I :
                        \/ LockCmp(r[x[1]], r[x[2]])
                        \/ ~LockCmp(r[x[2]], r[x[1]]) /\ x[1] < x[2]}
           h == InOrder(I, Before)
           key(i) == r[i].table * 16 - r[i].type
           f == [k \in I |-> r[h[k]]]
<1>1. Len(r) \in Nat /\ I = 1..Len(r) /\ \A i \in I : r[i] \in X
  BY LenProperties, ElementOfSeq
<1>2. IsFiniteSet(I) /\ Cardinality(I) = Len(r)
  <2>1. /\ IsFiniteSet(1..Len(r))
        /\ Cardinality(1..Len(r)) = IF 1 > Len(r) THEN 0 ELSE Len(r) - 1 + 1
    BY <1>1, FS_Interval
  <2>2. QED
    BY <1>1, <2>1
<1>3. \A i \in I : /\ i \in Nat /\ key(i) \in Int
                   /\ r[i].table \in Nat /\ r[i].type \in Nat
  <2>1. \A i \in I : r[i].table \in Nat /\ r[i].type \in Nat /\ i \in Nat
    <3>1. Table \subseteq Nat /\ LockType \subseteq Nat
      BY ThrLockAssumption, TypeNumbers
    <3>2. \A i \in I : r[i].table \in Table /\ r[i].type \in LockType
      BY <1>1
    <3>3. \A i \in I : i \in Nat
      BY <1>1
    <3> HIDE DEF I
    <3>4. QED
      BY <3>1, <3>2, <3>3
  <2>2. QED
    BY <2>1
<1>4. \A i, j \in I : <<i, j>> \in Before <=>
                        key(i) < key(j) \/ (~(key(j) < key(i)) /\ i < j)
  BY DEF LockCmp
<1>5. \A i \in I : <<i, i>> \notin Before
  <2> HIDE DEF key, Before, I
  <2> QED
    BY <1>3, <1>4
<1>6. \A i, j \in I : i # j => <<i, j>> \in Before \/ <<j, i>> \in Before
  <2> HIDE DEF key, Before, I
  <2> QED
    BY <1>3, <1>4
<1>7. \A i, j, k \in I :
        <<i, j>> \in Before /\ <<j, k>> \in Before => <<i, k>> \in Before
  <2> HIDE DEF key, Before, I
  <2> QED
    BY <1>3, <1>4
<1>8. /\ h \in [1..Len(r) -> I]
      /\ \A i, j \in 1..Len(r) : i < j => <<h[i], h[j]>> \in Before
  <2> HIDE DEF Before, I
  <2> QED
    BY <1>2, <1>5, <1>6, <1>7, InOrderFacts
<1>9. SortLocks(r) = f
  BY DEF SortLocks
<1> HIDE DEF h, Before, I
<1>10. /\ DOMAIN f = 1..Len(r)
       /\ \A k \in 1..Len(r) : h[k] \in I /\ f[k] = r[h[k]]
  BY <1>1, <1>8
<1>11. f \in Seq(X)
  <2>1. f \in [1..Len(r) -> X]
    BY <1>1, <1>8
  <2>2. QED
    BY <1>1, <2>1, SeqDef
<1> HIDE DEF f
<1>12. Len(f) = Len(r)
  BY <1>1, <1>10, <1>11, LenProperties
<1>13. ASSUME NEW i \in DOMAIN f, NEW j \in DOMAIN f, i < j,
              f[i].table = f[j].table
       PROVE  f[i].type >= f[j].type
  <2>1. /\ h[i] \in I /\ f[i] = r[h[i]] /\ h[j] \in I /\ f[j] = r[h[j]]
        /\ <<h[i], h[j]>> \in Before
    BY <1>8, <1>10, <1>13
  <2>2. ~(key(h[j]) < key(h[i]))
    <3> HIDE DEF key
    <3> QED
      BY <1>3, <1>4, <2>1
  <2>3. \A a, b, x \in Nat : ~(x * 16 - b < x * 16 - a) => a >= b
    OBVIOUS
  <2>4. /\ r[h[i]].table \in Nat /\ r[h[i]].type \in Nat
        /\ r[h[j]].table = r[h[i]].table /\ r[h[j]].type \in Nat
    BY <1>3, <1>13, <2>1
  <2>5. r[h[i]].type >= r[h[j]].type
    BY <2>2, <2>3, <2>4
  <2>6. QED
    BY <2>1, <2>5
<1>14. \A i \in DOMAIN f : \E j \in DOMAIN r : f[i] = r[j]
  BY <1>10 DEF I
<1>15. QED
  BY <1>9, <1>11, <1>12, <1>13, <1>14

\* Every array fits, and the lock data are finitely many.
LEMMA DataFacts ==
  /\ MaxLocks \in Nat \ {0}
  /\ \A r \in Requests : Len(r) \in 1..MaxLocks
  /\ IsFiniteSet(Data)
  /\ Cardinality(Data) \in Nat
<1>1. \A r \in Requests : Len(r) \in Nat \ {0}
  BY ThrLockAssumption, EmptySeq
<1>2. \E n \in {Len(r) : r \in Requests} : \A r \in Requests : Len(r) <= n
  BY ThrLockAssumption
<1>3. /\ MaxLocks \in {Len(r) : r \in Requests}
      /\ \A r \in Requests : Len(r) <= MaxLocks
  BY <1>2 DEF MaxLocks
<1>4. MaxLocks \in Nat \ {0} /\ \A r \in Requests : Len(r) \in 1..MaxLocks
  <2> HIDE DEF MaxLocks
  <2> QED
    BY <1>1, <1>3
<1>5. IsFiniteSet(1..MaxLocks)
  BY <1>4, FS_Interval
<1>6. IsFiniteSet(Thread \X (1..MaxLocks))
  BY <1>5, ThrLockAssumption, FS_Product
<1>7. QED
  BY <1>4, <1>6, FS_CardinalityType DEF Data

-----------------------------------------------------------------------------
(* The list operations *)

\* What waking up others may do: a wait ends, and a concurrent insert becomes a
\* full write lock.
Woke(s, s2, D) ==
  /\ \A d \in Data :
       /\ s2.cd[d] => s.cd[d]
       /\ \/ s2.ty[d] = s.ty[d]
          \/ s.ty[d] = TL_WRITE_CONCURRENT_INSERT /\ s2.ty[d] = TL_WRITE
  /\ \A d \in Data \ D : s2.ty[d] = s.ty[d] /\ s2.cd[d] = s.cd[d]

\* What holds of the record as a whole holds of its parts.
LEMMA Parts ==
  ASSUME NEW D, NEW s \in States(D)
  PROVE  /\ s.lk \in LockRecord(D)
         /\ s.lk.read \in Seq(D) /\ s.lk.read_wait \in Seq(D)
         /\ s.lk.write \in Seq(D) /\ s.lk.write_wait \in Seq(D)
         /\ s.lk.read_no_write_count \in Nat
         /\ s.lk.write_lock_count \in 0..(max_write_lock_count + 1)
         /\ s.ty \in [Data -> Types] /\ s.cd \in [Data -> BOOLEAN]
BY DEF States, LockRecord

\* From s to s2 readers have started, the others if u is TRUE keep waiting.
Freed(s, s2, D, u) ==
  /\ Consistent(s2, D)
  /\ Woke(s, s2, D)
  /\ s2.lk.write = s.lk.write /\ s2.lk.write_wait = s.lk.write_wait
  /\ s2.ty = s.ty
  /\ \A d \in ToSet(s2.lk.read) :
       d \in ToSet(s.lk.read) \/ s.ty[d] # TL_READ_NO_INSERT \/ ~u
  /\ ~u => /\ s2.lk.read_wait = <<>>
           /\ s2.lk.read = <<>> => s.lk.read = <<>> /\ s.lk.read_wait = <<>>
  /\ s.lk.read # <<>> => s2.lk.read # <<>>

\* free_all_read_locks moves the readers that may start to the active ones.
LEMMA FreeFacts ==
  ASSUME NEW D \in SUBSET Data, NEW s, Consistent(s, D), NEW u \in BOOLEAN
  PROVE  Freed(s, FreeAllReadLocks(s, u), D, u)
<1> DEFINE Stays == {d \in Data : u /\ s.ty[d] = TL_READ_NO_INSERT}
           stay == Filter(s.lk.read_wait, Stays)
           go == Filter(s.lk.read_wait, Data \ Stays)
           s2 == FreeAllReadLocks(s, u)
<1>1. s \in States(D) /\ NoneTwice(s) /\ Apart(s) /\ Listed(s, D)
  BY DEF Consistent
<1>2. /\ s.lk \in LockRecord(D)
      /\ s.lk.read \in Seq(D) /\ s.lk.read_wait \in Seq(D)
      /\ s.lk.write \in Seq(D) /\ s.lk.write_wait \in Seq(D)
      /\ s.lk.read_no_write_count \in Nat
      /\ s.lk.write_lock_count \in 0..(max_write_lock_count + 1)
      /\ s.ty \in [Data -> Types] /\ s.cd \in [Data -> BOOLEAN]
  BY <1>1, Parts
<1>3. /\ stay \in Seq(D) /\ ToSet(stay) = ToSet(s.lk.read_wait) \cap Stays
      /\ go \in Seq(D) /\ ToSet(go) = ToSet(s.lk.read_wait) \cap (Data \ Stays)
      /\ IsInjective(stay) /\ IsInjective(go)
  <2> HIDE DEF Stays
  <2> QED
    BY <1>1, <1>2, FilterFacts DEF NoneTwice
<1>4. s2 = [Clear(s, go) EXCEPT
              !.lk.read = @ \o go,
              !.lk.read_wait = stay,
              !.lk.read_no_write_count = @ + CountNoInsert(s, go),
              !.lk.write_lock_count = IF stay = <<>> THEN 0 ELSE @]
  BY DEF FreeAllReadLocks
<1> HIDE DEF stay, go, s2
<1>5. /\ s2.lk = [s.lk EXCEPT
                    !.read = s.lk.read \o go, !.read_wait = stay,
                    !.read_no_write_count = @ + CountNoInsert(s, go),
                    !.write_lock_count = IF stay = <<>> THEN 0 ELSE @]
      /\ s2.ty = s.ty
      /\ s2.cd = [d \in Data |-> s.cd[d] /\ d \notin ToSet(go)]
      /\ s2 = [lk |-> s2.lk, ty |-> s2.ty, cd |-> s2.cd]
  BY <1>1, <1>4 DEF Clear, States, LockRecord
<1>6. /\ s2.lk.read = s.lk.read \o go /\ s2.lk.read_wait = stay
      /\ s2.lk.write = s.lk.write /\ s2.lk.write_wait = s.lk.write_wait
      /\ s2.lk.read_no_write_count =
           s.lk.read_no_write_count + CountNoInsert(s, go)
      /\ s2.lk.write_lock_count \in {0, s.lk.write_lock_count}
      /\ s2.lk = [read |-> s2.lk.read, read_wait |-> s2.lk.read_wait,
                  write |-> s2.lk.write, write_wait |-> s2.lk.write_wait,
                  read_no_write_count |-> s2.lk.read_no_write_count,
                  write_lock_count |-> s2.lk.write_lock_count]
  BY <1>2, <1>5 DEF LockRecord
<1>7. /\ s.lk.read \o go \in Seq(D)
      /\ ToSet(s.lk.read \o go) = ToSet(s.lk.read) \cup ToSet(go)
      /\ ToSet(s.lk.read) \cap ToSet(go) = {} => IsInjective(s.lk.read \o go)
  BY <1>1, <1>2, <1>3, ConcatFacts DEF NoneTwice
<1>8. ToSet(s.lk.read) \cap ToSet(go) = {}
  BY <1>1, <1>3 DEF Apart
<1>9. \A d \in Data : s2.cd[d] <=> s.cd[d] /\ d \notin ToSet(go)
  BY <1>5, Zenon
<1>10. CountNoInsert(s, go) \in Nat
       /\ Cardinality(NoInsertReaders(s2)) =
            Cardinality(NoInsertReaders(s)) + CountNoInsert(s, go)
  <2> DEFINE A == NoInsertReaders(s)
             B == {d \in ToSet(go) : s.ty[d] = TL_READ_NO_INSERT}
  <2>1. NoInsertReaders(s2) = A \cup B /\ A \cap B = {}
    BY <1>5, <1>6, <1>7, <1>8 DEF NoInsertReaders
  <2>2. IsFiniteSet(A) /\ IsFiniteSet(B)
    <3>1. IsFiniteSet(ToSet(s.lk.read)) /\ IsFiniteSet(ToSet(go))
      BY <1>2, <1>3, CountFacts
    <3>2. QED
      BY <3>1, FS_Subset DEF NoInsertReaders
  <2>3. CountNoInsert(s, go) = Cardinality(B)
    BY DEF CountNoInsert
  <2> HIDE DEF A, B
  <2>4. /\ Cardinality(A \cup B) =
             Cardinality(A) + Cardinality(B) - Cardinality(A \cap B)
        /\ Cardinality(A) \in Nat /\ Cardinality(B) \in Nat
    BY <2>2, FS_Union, FS_CardinalityType
  <2>5. Cardinality({}) = 0
    BY FS_EmptySet
  <2>6. Cardinality(A \cup B) = Cardinality(A) + Cardinality(B)
    <3>1. Cardinality(A \cap B) = 0
      BY <2>1, <2>5
    <3>2. QED
      BY <2>4, <3>1
  <2>7. Cardinality(NoInsertReaders(s)) = Cardinality(A)
    BY DEF A
  <2>8. QED
    BY <2>1, <2>3, <2>4, <2>6, <2>7
<1>11. s2 \in States(D)
  <2>1. s2.cd \in [Data -> BOOLEAN]
    BY <1>5, Zenon
  <2>2. /\ s2.lk.read_no_write_count \in Nat
        /\ s2.lk.write_lock_count \in 0..(max_write_lock_count + 1)
    BY <1>2, <1>6, <1>10, ThrLockAssumption
  <2>3. s2.lk \in LockRecord(D)
    BY <1>2, <1>3, <1>6, <1>7, <2>2 DEF LockRecord
  <2>4. s2.ty \in [Data -> Types]
    BY <1>2, <1>5
  <2> HIDE DEF s2
  <2>5. QED
    BY <1>5, <2>1, <2>3, <2>4 DEF States
<1>12. NoneTwice(s2)
  BY <1>1, <1>3, <1>6, <1>7, <1>8 DEF NoneTwice
<1>13. Apart(s2)
  <2>1. /\ ToSet(s.lk.read) \subseteq Data /\ ToSet(s.lk.write) \subseteq Data
        /\ ToSet(s.lk.write_wait) \subseteq Data
        /\ ToSet(s.lk.read_wait) \subseteq Data
    BY <1>2, HeadFacts
  <2>2. \A d \in ToSet(s2.lk.read) : s2.ty[d] \in ReadTypes /\ ~s2.cd[d]
    BY <1>1, <1>3, <1>5, <1>6, <1>7, <1>9, <2>1 DEF Apart
  <2>3. \A d \in ToSet(s2.lk.read_wait) : s2.ty[d] \in ReadTypes /\ s2.cd[d]
    BY <1>1, <1>3, <1>5, <1>6, <1>9, <2>1 DEF Apart
  <2>4. \A d \in ToSet(s2.lk.write) : s2.ty[d] \in WriteTypes /\ ~s2.cd[d]
    BY <1>1, <1>5, <1>6, <1>9, <2>1 DEF Apart
  <2>5. \A d \in ToSet(s2.lk.write_wait) : s2.ty[d] \in WriteTypes /\ s2.cd[d]
    <3>1. ReadTypes \cap WriteTypes = {}
      BY DEF WriteTypes
    <3>2. \A d \in ToSet(s.lk.write_wait) : d \notin ToSet(go)
      BY <1>1, <1>3, <3>1 DEF Apart
    <3>3. QED
      BY <1>1, <1>5, <1>6, <1>9, <2>1, <3>2 DEF Apart
  <2>6. QED
    BY <2>2, <2>3, <2>4, <2>5 DEF Apart
<1>14. Listed(s2, D)
  <2>1. SUFFICES ASSUME NEW d \in D
                 PROVE  /\ s2.ty[d] # TL_UNLOCK =>
                             d \in ToSet(s2.lk.read) \cup ToSet(s2.lk.read_wait)
                               \cup ToSet(s2.lk.write) \cup ToSet(s2.lk.write_wait)
                        /\ s2.cd[d] => d \in ToSet(s2.lk.read_wait)
                                             \cup ToSet(s2.lk.write_wait)
    BY DEF Listed
  <2>2. d \in ToSet(s.lk.read_wait) => d \in ToSet(stay) \/ d \in ToSet(go)
    BY <1>3
  <2>3. d \in Data /\ (s2.cd[d] => s.cd[d] /\ d \notin ToSet(go))
    BY <1>9
  <2>4. QED
    BY <1>1, <1>5, <1>6, <1>7, <2>2, <2>3 DEF Listed
<1>15. s2.lk.read_no_write_count = Cardinality(NoInsertReaders(s2))
  BY <1>6, <1>10 DEF Consistent
<1>16. Woke(s, s2, D)
  <2>1. \A d \in Data \ D : d \notin ToSet(go)
    BY <1>3, HeadFacts
  <2>2. \A d \in Data \ D : s2.cd[d] = s.cd[d]
    <3>1. \A d \in Data \ D : s2.cd[d] = (s.cd[d] /\ d \notin ToSet(go))
      BY <1>5, Zenon
    <3>2. \A d \in Data : s.cd[d] \in BOOLEAN
      BY <1>2
    <3>3. QED
      BY <2>1, <3>1, <3>2, Zenon
  <2>3. QED
    BY <1>5, <1>9, <2>2 DEF Woke
<1>17. \A d \in ToSet(s2.lk.read) :
         d \in ToSet(s.lk.read) \/ s.ty[d] # TL_READ_NO_INSERT \/ ~u
  BY <1>3, <1>6, <1>7
<1>18. ASSUME ~u
       PROVE  /\ s2.lk.read_wait = <<>>
              /\ s2.lk.read = <<>> => s.lk.read = <<>> /\ s.lk.read_wait = <<>>
  <2>1. Stays = {}
    BY <1>18
  <2>2. ToSet(s2.lk.read_wait) = {}
    BY <1>3, <1>6, <2>1
  <2>3. ToSet(s2.lk.read) = ToSet(s.lk.read) \cup ToSet(s.lk.read_wait)
    BY <1>2, <1>3, <1>6, <1>7, <2>1, HeadFacts
  <2>4. QED
    <3>1. s2.lk.read \in Seq(D) /\ s2.lk.read_wait \in Seq(D)
      BY <1>3, <1>6, <1>7
    <3>2. \A x \in Seq(D) : x = <<>> <=> ToSet(x) = {}
      BY HeadFacts
    <3>3. QED
      BY <1>2, <2>2, <2>3, <3>1, <3>2
<1>19. s.lk.read # <<>> => s2.lk.read # <<>>
  <2>1. s2.lk.read \in Seq(D) /\ ToSet(s.lk.read) \subseteq ToSet(s2.lk.read)
    BY <1>6, <1>7
  <2>2. \A x \in Seq(D) : x = <<>> <=> ToSet(x) = {}
    BY HeadFacts
  <2>3. QED
    BY <1>2, <2>1, <2>2
<1>20. QED
  BY <1>5, <1>6, <1>11, <1>12, <1>13, <1>14, <1>15, <1>16, <1>17, <1>18, <1>19
     DEF Consistent, Freed, s2

\* The writers that start together are one, or all TL_WRITE_ALLOW_WRITE.
LEMMA GroupFacts ==
  ASSUME NEW D \in SUBSET Data, NEW s \in States(D), s.lk.write_wait # <<>>
  PROVE  \E n \in 1..Len(s.lk.write_wait) :
           /\ WriteGroup(s) = SubSeq(s.lk.write_wait, 1, n)
           /\ \A i \in 1..n :
                /\ s.ty[s.lk.write_wait[i]] = s.ty[Head(s.lk.write_wait)]
                /\ n = 1 \/ s.ty[s.lk.write_wait[i]] = TL_WRITE_ALLOW_WRITE
<1> DEFINE ww == s.lk.write_wait
           A == TL_WRITE_ALLOW_WRITE
           P(i) == /\ \A j \in 2..i : s.ty[ww[j]] = A
                   /\ i > 1 => s.ty[ww[1]] = A
                   /\ i = Len(ww) \/ s.ty[ww[1]] # A \/ s.ty[ww[i + 1]] # A
           n == CHOOSE i \in 1..Len(ww) : P(i)
<1>1. ww \in Seq(D) /\ ww # <<>>
  BY Parts
<1>2. Len(ww) \in Nat \ {0} /\ Head(ww) = ww[1]
  BY <1>1, EmptySeq, HeadFacts
<1> HIDE DEF ww
<1>3. \E i \in 1..Len(ww) : P(i)
  <2>1. CASE s.ty[ww[1]] # A
    BY <1>2, <2>1
  <2>2. CASE s.ty[ww[1]] = A
    <3> DEFINE S == {j \in 2..Len(ww) : s.ty[ww[j]] # A}
    <3>1. CASE S = {}
      <4>1. P(Len(ww))
        BY <1>2, <2>2, <3>1
      <4>2. QED
        BY <1>2, <4>1
    <3>2. CASE S # {}
      <4>1. S \in SUBSET Nat
        BY <1>2
      <4>2. PICK m \in S : \A j \in S : m <= j
        <5> HIDE DEF S
        <5> QED
          BY <3>2, <4>1, Smallest
      <4>3. m \in 2..Len(ww) /\ s.ty[ww[m]] # A
        OBVIOUS
      <4>4. m - 1 \in 1..Len(ww) /\ (m - 1) + 1 = m
        BY <1>2, <4>3
      <4>5. \A j \in 2..(m - 1) : s.ty[ww[j]] = A
        <5>1. SUFFICES ASSUME NEW j \in 2..(m - 1), s.ty[ww[j]] # A PROVE FALSE
          OBVIOUS
        <5>2. j \in S
          BY <1>2, <4>3, <5>1
        <5>3. QED
          BY <4>2, <4>3, <5>2
      <4>6. P(m - 1)
        BY <2>2, <4>3, <4>4, <4>5
      <4>7. QED
        BY <4>4, <4>6
    <3>3. QED
      BY <3>1, <3>2
  <2>3. QED
    BY <2>1, <2>2
<1>4. n \in 1..Len(ww) /\ P(n)
  BY <1>3
<1>5. WriteGroup(s) = SubSeq(ww, 1, n)
  BY DEF WriteGroup, ww
<1> HIDE DEF n
<1>6. ASSUME NEW i \in 1..n
      PROVE  s.ty[ww[i]] = s.ty[Head(ww)] /\ (n = 1 \/ s.ty[ww[i]] = A)
  <2>1. CASE n = 1
    BY <1>2, <2>1
  <2>2. CASE n > 1
    <3>1. i = 1 \/ i \in 2..n
      BY <1>2, <1>4
    <3>2. QED
      BY <1>2, <1>4, <2>2, <3>1
  <2>3. QED
    BY <1>2, <1>4, <2>1, <2>2
<1>7. QED
  BY <1>4, <1>5, <1>6 DEF ww

\* From s to s2 the first writers of the queue have started.
Started(s, s2, D) ==
  /\ Consistent(s2, D)
  /\ Woke(s, s2, D)
  /\ s2.lk.read = s.lk.read /\ s2.lk.read_wait = s.lk.read_wait
  /\ s2.lk.read_no_write_count = s.lk.read_no_write_count
  /\ s2.ty = s.ty
  /\ s2.lk.write # <<>>
  /\ \A d \in ToSet(s2.lk.write) : s.ty[d] = s.ty[Head(s.lk.write_wait)]
  /\ FirstIsStrongest(s2) /\ WritersTolerate(s2)

\* Starting the first writers of the queue when nobody writes.
LEMMA StartFacts ==
  ASSUME NEW D \in SUBSET Data, NEW s, Consistent(s, D),
         s.lk.write = <<>>, s.lk.write_wait # <<>>
  PROVE  Started(s, StartWriteLocks(s), D)
<1> DEFINE ww == s.lk.write_wait
           group == WriteGroup(s)
           rest == SubSeq(ww, Len(group) + 1, Len(ww))
           s2 == StartWriteLocks(s)
<1>1. s \in States(D) /\ NoneTwice(s) /\ Apart(s) /\ Listed(s, D)
  BY DEF Consistent
<1>2. /\ s.lk \in LockRecord(D)
      /\ s.lk.read \in Seq(D) /\ s.lk.read_wait \in Seq(D)
      /\ s.lk.write \in Seq(D) /\ s.lk.write_wait \in Seq(D)
      /\ s.lk.read_no_write_count \in Nat
      /\ s.lk.write_lock_count \in 0..(max_write_lock_count + 1)
      /\ s.ty \in [Data -> Types] /\ s.cd \in [Data -> BOOLEAN]
  BY <1>1, Parts
<1>3. PICK n \in 1..Len(ww) :
        /\ group = SubSeq(ww, 1, n)
        /\ \A i \in 1..n : /\ s.ty[ww[i]] = s.ty[Head(ww)]
                           /\ n = 1 \/ s.ty[ww[i]] = TL_WRITE_ALLOW_WRITE
  BY <1>1, GroupFacts
<1>4. /\ group \in Seq(D) /\ rest \in Seq(D) /\ group # <<>>
      /\ \A x \in ToSet(group) : \E i \in 1..n : x = ww[i]
      /\ ToSet(group) \cup ToSet(rest) = ToSet(ww)
      /\ IsInjective(group) /\ IsInjective(rest)
      /\ ToSet(group) \cap ToSet(rest) = {}
  <2>1. ww \in Seq(D) /\ IsInjective(ww)
    BY <1>1, <1>2 DEF NoneTwice
  <2>2. group = SubSeq(ww, 1, n) /\ rest = SubSeq(ww, Len(group) + 1, Len(ww))
    BY <1>3
  <2> HIDE DEF ww, group, rest
  <2>3. Cut(D, ww, n, group, rest)
    BY <2>1, <2>2, SplitFacts
  <2>4. QED
    BY <2>1, <2>3 DEF Cut
<1>5. s2 = [Clear(s, group) EXCEPT
              !.lk.write = @ \o group,
              !.lk.write_wait = SubSeq(@, Len(group) + 1, Len(@))]
  BY DEF StartWriteLocks
<1> HIDE DEF group, s2
<1>6. /\ s2.lk = [s.lk EXCEPT !.write = s.lk.write \o group, !.write_wait = rest]
      /\ s2.ty = s.ty
      /\ s2.cd = [d \in Data |-> s.cd[d] /\ d \notin ToSet(group)]
      /\ s2 = [lk |-> s2.lk, ty |-> s2.ty, cd |-> s2.cd]
  BY <1>1, <1>5 DEF Clear, States, LockRecord
<1> HIDE DEF rest
<1>7. s.lk.write \o group = group
  BY <1>2, <1>4, ConcatFacts
<1>8. /\ s2.lk.write = group /\ s2.lk.write_wait = rest
      /\ s2.lk.read = s.lk.read /\ s2.lk.read_wait = s.lk.read_wait
      /\ s2.lk.read_no_write_count = s.lk.read_no_write_count
      /\ s2.lk.write_lock_count = s.lk.write_lock_count
      /\ s2.lk = [read |-> s2.lk.read, read_wait |-> s2.lk.read_wait,
                  write |-> s2.lk.write, write_wait |-> s2.lk.write_wait,
                  read_no_write_count |-> s2.lk.read_no_write_count,
                  write_lock_count |-> s2.lk.write_lock_count]
  BY <1>2, <1>6, <1>7 DEF LockRecord
<1>9. \A d \in Data : s2.cd[d] <=> s.cd[d] /\ d \notin ToSet(group)
  BY <1>6, Zenon
<1>10. s2 \in States(D)
  <2>1. s2.cd \in [Data -> BOOLEAN]
    BY <1>6, Zenon
  <2>2. s2.lk \in LockRecord(D)
    BY <1>2, <1>4, <1>8 DEF LockRecord
  <2>3. s2.ty \in [Data -> Types]
    BY <1>2, <1>6
  <2>4. QED
    BY <1>6, <2>1, <2>2, <2>3 DEF States
<1>11. NoneTwice(s2)
  BY <1>1, <1>4, <1>8 DEF NoneTwice
<1>12. Apart(s2)
  <2>1. /\ ToSet(s.lk.read) \subseteq Data /\ ToSet(s.lk.read_wait) \subseteq Data
        /\ ToSet(ww) \subseteq Data
    BY <1>2, HeadFacts
  <2>2. ReadTypes \cap WriteTypes = {}
    BY DEF WriteTypes
  <2>3. \A d \in ToSet(s2.lk.read) : s2.ty[d] \in ReadTypes /\ ~s2.cd[d]
    BY <1>1, <1>6, <1>8, <1>9, <2>1 DEF Apart
  <2>4. \A d \in ToSet(s2.lk.read_wait) : s2.ty[d] \in ReadTypes /\ s2.cd[d]
    BY <1>1, <1>4, <1>6, <1>8, <1>9, <2>1, <2>2 DEF Apart
  <2>5. \A d \in ToSet(s2.lk.write) : s2.ty[d] \in WriteTypes /\ ~s2.cd[d]
    BY <1>1, <1>4, <1>6, <1>8, <1>9, <2>1 DEF Apart
  <2>6. \A d \in ToSet(s2.lk.write_wait) : s2.ty[d] \in WriteTypes /\ s2.cd[d]
    BY <1>1, <1>4, <1>6, <1>8, <1>9, <2>1 DEF Apart
  <2>7. QED
    BY <2>3, <2>4, <2>5, <2>6 DEF Apart
<1>13. Listed(s2, D)
  <2>1. SUFFICES ASSUME NEW d \in D
                 PROVE  /\ s2.ty[d] # TL_UNLOCK =>
                             d \in ToSet(s2.lk.read) \cup ToSet(s2.lk.read_wait)
                               \cup ToSet(s2.lk.write) \cup ToSet(s2.lk.write_wait)
                        /\ s2.cd[d] => d \in ToSet(s2.lk.read_wait)
                                             \cup ToSet(s2.lk.write_wait)
    BY DEF Listed
  <2>2. d \in Data /\ (s2.cd[d] => s.cd[d] /\ d \notin ToSet(group))
    BY <1>9
  <2>3. ToSet(s.lk.write) = {}
    BY <1>2, HeadFacts
  <2>4. QED
    BY <1>1, <1>4, <1>6, <1>8, <2>2, <2>3 DEF Listed
<1>14. s2.lk.read_no_write_count = Cardinality(NoInsertReaders(s2))
  BY <1>6, <1>8 DEF Consistent, NoInsertReaders
<1>15. Woke(s, s2, D)
  <2>1. \A d \in Data \ D : d \notin ToSet(group)
    BY <1>4, HeadFacts
  <2>2. \A d \in Data \ D : s2.cd[d] = s.cd[d]
    <3>1. \A d \in Data \ D : s2.cd[d] = (s.cd[d] /\ d \notin ToSet(group))
      BY <1>6, Zenon
    <3>2. \A d \in Data : s.cd[d] \in BOOLEAN
      BY <1>2
    <3>3. QED
      BY <2>1, <3>1, <3>2, Zenon
  <2>3. QED
    BY <1>6, <1>9, <2>2 DEF Woke
<1>16. \A d \in ToSet(s2.lk.write) : s.ty[d] = s.ty[Head(ww)]
  BY <1>3, <1>4, <1>8
<1>17. FirstIsStrongest(s2)
  <2>1. \A i \in DOMAIN s2.lk.write : s2.ty[s2.lk.write[i]] = s.ty[Head(ww)]
    BY <1>6, <1>16 DEF ToSet
  <2>2. s.ty[Head(ww)] \in WriteTypes
    BY <1>1, <1>2, HeadFacts DEF Apart
  <2>3. s.ty[Head(ww)] >= s.ty[Head(ww)]
    <3>1. WriteTypes \subseteq Nat
      BY TypeNumbers
    <3>2. \A x \in WriteTypes : x >= x
      BY <3>1
    <3>3. QED
      BY <2>2, <3>2
  <2>4. QED
    BY <2>1, <2>3 DEF FirstIsStrongest
<1>18. WritersTolerate(s2)
  <2>1. CASE n = 1
    <3>1. \A d, e \in ToSet(s2.lk.write) : d = e
      BY <1>4, <1>8, <2>1
    <3>2. QED
      BY <3>1 DEF WritersTolerate
  <2>2. CASE n # 1
    <3>1. \A d \in ToSet(s2.lk.write) : s.ty[d] = TL_WRITE_ALLOW_WRITE
      BY <1>3, <1>4, <1>8, <2>2
    <3>2. QED
      BY <1>6, <3>1 DEF WritersTolerate
  <2>3. QED
    BY <2>1, <2>2
<1>19. QED
  BY <1>4, <1>6, <1>8, <1>10, <1>11, <1>12, <1>13, <1>14, <1>15, <1>16, <1>17,
     <1>18 DEF Consistent, Started, s2

\* wake_up_waiters does nothing if no reader waits.
LEMMA FreeIfAnyFacts ==
  ASSUME NEW D \in SUBSET Data, NEW s, Consistent(s, D), NEW u \in BOOLEAN
  PROVE  Freed(s, FreeReadLocksIfAny(s, u), D, u)
<1>1. CASE s.lk.read_wait = <<>>
  <2>1. FreeReadLocksIfAny(s, u) = s
    BY <1>1 DEF FreeReadLocksIfAny
  <2>2. Freed(s, s, D, u)
    BY <1>1 DEF Freed, Woke
  <2>3. QED
    BY <2>1, <2>2
<1>2. CASE s.lk.read_wait # <<>>
  BY <1>2, FreeFacts DEF FreeReadLocksIfAny
<1>3. QED
  BY <1>1, <1>2

\* The first waiting writer may become a full writer.
LEMMA UpgradeInsertFacts ==
  ASSUME NEW D \in SUBSET Data, NEW s, Consistent(s, D),
         s.lk.write_wait # <<>>, NEW cannot \in BOOLEAN
  PROVE  /\ Consistent(UpgradeInsert(s, cannot), D)
         /\ Woke(s, UpgradeInsert(s, cannot), D)
         /\ UpgradeInsert(s, cannot).lk = s.lk
<1> DEFINE d == Head(s.lk.write_wait)
           s2 == [s EXCEPT !.ty[d] = TL_WRITE]
<1>1. s \in States(D) /\ NoneTwice(s) /\ Apart(s) /\ Listed(s, D)
  BY DEF Consistent
<1>2. /\ s.lk \in LockRecord(D)
      /\ s.lk.read \in Seq(D) /\ s.lk.read_wait \in Seq(D)
      /\ s.lk.write \in Seq(D) /\ s.lk.write_wait \in Seq(D)
      /\ s.ty \in [Data -> Types] /\ s.cd \in [Data -> BOOLEAN]
  BY <1>1, Parts
<1>3. d \in ToSet(s.lk.write_wait) /\ d \in D /\ d \in Data
  BY <1>2, HeadFacts
<1>4. CASE ~(s.ty[d] = TL_WRITE_CONCURRENT_INSERT /\ cannot)
  <2>1. UpgradeInsert(s, cannot) = s
    BY <1>4 DEF UpgradeInsert
  <2>2. Woke(s, s, D)
    BY DEF Woke
  <2>3. QED
    BY <2>1, <2>2
<1>5. CASE s.ty[d] = TL_WRITE_CONCURRENT_INSERT /\ cannot
  <2>1. UpgradeInsert(s, cannot) = s2
    BY <1>5 DEF UpgradeInsert
  <2>2. /\ s2.lk = s.lk /\ s2.cd = s.cd /\ s2.ty = [s.ty EXCEPT ![d] = TL_WRITE]
        /\ s2 = [lk |-> s2.lk, ty |-> s2.ty, cd |-> s2.cd]
    BY <1>1 DEF States
  <2> HIDE DEF d, s2
  <2>3. TL_WRITE \in Types /\ TL_WRITE \in WriteTypes /\ TL_WRITE # TL_UNLOCK
    BY TypeNumbers
  <2>4. \A e \in Data : s2.ty[e] = IF e = d THEN TL_WRITE ELSE s.ty[e]
    BY <1>2, <2>2
  <2>5. s2 \in States(D)
    BY <1>2, <2>2, <2>3 DEF States
  <2>6. s.ty[d] \in WriteTypes /\ s.cd[d]
    BY <1>1, <1>3 DEF Apart
  <2>7. d \notin ToSet(s.lk.read) /\ d \notin ToSet(s.lk.read_wait)
    BY <1>1, <2>6 DEF Apart, WriteTypes
  <2>8. /\ ToSet(s.lk.read) \subseteq Data /\ ToSet(s.lk.read_wait) \subseteq Data
        /\ ToSet(s.lk.write) \subseteq Data /\ ToSet(s.lk.write_wait) \subseteq Data
    BY <1>2, HeadFacts
  <2>9. Apart(s2)
    BY <1>1, <2>2, <2>3, <2>4, <2>7, <2>8 DEF Apart
  <2>10. Listed(s2, D)
    <3>1. s.ty[d] # TL_UNLOCK
      BY <2>6, TypeNumbers
    <3>2. QED
      BY <1>1, <2>2, <2>4, <3>1 DEF Listed
  <2>11. NoneTwice(s2)
    BY <1>1, <2>2 DEF NoneTwice
  <2>12. NoInsertReaders(s2) = NoInsertReaders(s)
    BY <2>2, <2>4, <2>7, <2>8 DEF NoInsertReaders
  <2>13. Consistent(s2, D)
    BY <2>2, <2>5, <2>9, <2>10, <2>11, <2>12 DEF Consistent
  <2>14. Woke(s, s2, D)
    <3>1. s.ty[d] = TL_WRITE_CONCURRENT_INSERT
      BY <1>5 DEF d
    <3>2. \A e \in Data : s2.cd[e] = s.cd[e]
      BY <2>2
    <3>3. QED
      BY <1>3, <2>4, <3>1, <3>2 DEF Woke
  <2>15. QED
    BY <2>1, <2>2, <2>13, <2>14
<1>6. QED
  BY <1>4, <1>5

\* One wakeup after another.
LEMMA WokeTwice ==
  ASSUME NEW D, NEW s, NEW s1, NEW s2, Woke(s, s1, D), Woke(s1, s2, D)
  PROVE  Woke(s, s2, D)
<1>1. TL_WRITE # TL_WRITE_CONCURRENT_INSERT
  BY TypeNumbers
<1>2. QED
  BY <1>1 DEF Woke

\* write_lock_count is not part of what the lists have to agree with.
LEMMA CountStep ==
  ASSUME NEW D, NEW s, Consistent(s, D),
         NEW n \in 0..(max_write_lock_count + 1)
  PROVE  LET s1 == [s EXCEPT !.lk.write_lock_count = n]
         IN /\ Consistent(s1, D)
            /\ Woke(s, s1, D)
            /\ s1.lk.read = s.lk.read /\ s1.lk.read_wait = s.lk.read_wait
            /\ s1.lk.write = s.lk.write /\ s1.lk.write_wait = s.lk.write_wait
            /\ s1.ty = s.ty /\ s1.cd = s.cd
<1> DEFINE s1 == [s EXCEPT !.lk.write_lock_count = n]
<1>1. s \in States(D)
  BY DEF Consistent
<1>2. /\ s1.ty = s.ty /\ s1.cd = s.cd
      /\ s1.lk = [s.lk EXCEPT !.write_lock_count = n]
      /\ s1 = [lk |-> s1.lk, ty |-> s.ty, cd |-> s.cd]
  BY <1>1 DEF States
<1>3. /\ s1.lk.read = s.lk.read /\ s1.lk.read_wait = s.lk.read_wait
      /\ s1.lk.write = s.lk.write /\ s1.lk.write_wait = s.lk.write_wait
      /\ s1.lk.read_no_write_count = s.lk.read_no_write_count
      /\ s1.lk \in LockRecord(D)
  BY <1>1, <1>2 DEF States, LockRecord
<1> HIDE DEF s1
<1>4. s1 \in States(D)
  BY <1>1, <1>2, <1>3 DEF States
<1>5. /\ NoneTwice(s1) /\ Apart(s1) /\ Listed(s1, D)
      /\ NoInsertReaders(s1) = NoInsertReaders(s)
  BY <1>2, <1>3 DEF Consistent, NoneTwice, Apart, Listed, NoInsertReaders
<1>6. Woke(s, s1, D)
  BY <1>2 DEF Woke
<1>7. QED
  BY <1>2, <1>3, <1>4, <1>5, <1>6 DEF Consistent, s1

\* The table is in order after s has become s2.
WokenUp(s, s2, D) == TableInv(s2, D) /\ Woke(s, s2, D)

\* Locks in use tolerate each other if nobody writes.
LEMMA NobodyWrites ==
  ASSUME NEW s, s.lk.write = <<>>
  PROVE  Tolerant(s)
<1>1. ToSet(<<>>) = {} /\ DOMAIN <<>> = {}
  BY DEF ToSet
<1>2. QED
  BY <1>1 DEF Tolerant, FirstIsStrongest, WritersTolerate, ReadersTolerate

\* If nobody writes all waiting readers may start.
LEMMA ReadersStart ==
  ASSUME NEW D \in SUBSET Data, NEW s, NEW s2, Freed(s, s2, D, FALSE),
         s.lk.write = <<>>,
         s.lk.read = <<>> /\ s.lk.read_wait = <<>> => s.lk.write_wait = <<>>
  PROVE  WokenUp(s, s2, D)
<1>1. Tolerant(s2)
  BY NobodyWrites DEF Freed
<1>2. NoneForgotten(s2)
  BY DEF Freed, NoneForgotten
<1>3. QED
  BY <1>1, <1>2 DEF Freed, WokenUp, TableInv

\* The first writers start and with them the readers they tolerate.
LEMMA WritersStart ==
  ASSUME NEW D \in SUBSET Data, NEW s, Consistent(s, D),
         s.lk.write = <<>>, s.lk.write_wait # <<>>, NEW ty,
         ty = s.ty[Head(s.lk.write_wait)], ty <= TL_WRITE_DELAYED,
         \A e \in ToSet(s.lk.read) :
           ~(ty = TL_WRITE_CONCURRENT_INSERT /\ s.ty[e] = TL_READ_NO_INSERT)
  PROVE  WokenUp(s, FreeReadLocksIfAny(StartWriteLocks(s), InsertsConcurrently(ty)), D)
<1> DEFINE s1 == StartWriteLocks(s)
           u == InsertsConcurrently(ty)
           s2 == FreeReadLocksIfAny(s1, u)
<1>1. Started(s, s1, D)
  BY StartFacts
<1>2. Freed(s1, s2, D, u)
  <2>1. Consistent(s1, D) /\ u \in BOOLEAN
    BY <1>1 DEF Started, InsertsConcurrently
  <2> HIDE DEF s1, u
  <2>2. QED
    BY <2>1, FreeIfAnyFacts
<1>3. ty = TL_WRITE_CONCURRENT_INSERT => u
  BY DEF InsertsConcurrently
<1> HIDE DEF s1, u, s2
<1>4. s2.lk.write = s1.lk.write /\ s2.ty = s.ty /\ s1.ty = s.ty
  BY <1>1, <1>2 DEF Started, Freed
<1>5. FirstIsStrongest(s2) /\ WritersTolerate(s2)
  BY <1>1, <1>4 DEF Started, FirstIsStrongest, WritersTolerate
<1>6. ReadersTolerate(s2)
  <2>1. SUFFICES ASSUME NEW d \in ToSet(s2.lk.write), NEW e \in ToSet(s2.lk.read)
                 PROVE  /\ s2.ty[d] <= TL_WRITE_DELAYED
                        /\ ~(/\ s2.ty[d] = TL_WRITE_CONCURRENT_INSERT
                             /\ s2.ty[e] = TL_READ_NO_INSERT)
    BY DEF ReadersTolerate
  <2>2. s2.ty[d] = ty
    BY <1>1, <1>4 DEF Started
  <2>3. e \in ToSet(s.lk.read) \/ s.ty[e] # TL_READ_NO_INSERT \/ ~u
    BY <1>1, <1>2, <1>4 DEF Started, Freed
  <2>4. QED
    BY <1>3, <1>4, <2>2, <2>3
<1>7. NoneForgotten(s2)
  BY <1>1, <1>4 DEF Started, NoneForgotten
<1>8. Woke(s, s2, D) /\ Consistent(s2, D)
  BY <1>1, <1>2, WokeTwice DEF Started, Freed
<1>9. QED
  BY <1>5, <1>6, <1>7, <1>8 DEF WokenUp, TableInv, Tolerant, s1, s2, u

\* wake_up_waiters if the table is neither read nor written.
LEMMA WakeUpAllFacts ==
  ASSUME NEW D \in SUBSET Data, NEW s, Consistent(s, D),
         s.lk.write = <<>>, s.lk.read = <<>>, NEW cannot \in BOOLEAN
  PROVE  WokenUp(s, WakeUpAll(s, cannot), D)
<1> DEFINE tooMany == s.lk.write_lock_count > max_write_lock_count
           s1 == [s EXCEPT !.lk.write_lock_count = IF tooMany THEN 0 ELSE @ + 1]
           s0 == UpgradeInsert(s1, cannot)
           s2 == StartWriteLocks(s0)
           ty == s2.ty[Head(s.lk.write_wait)]
<1>1. CASE ~WriterFirst(s)
  <2>1. WakeUpAll(s, cannot) = FreeReadLocksIfAny(s, FALSE)
    BY <1>1 DEF WakeUpAll
  <2>2. Freed(s, FreeReadLocksIfAny(s, FALSE), D, FALSE)
    BY FreeIfAnyFacts
  <2>3. s.lk.read_wait = <<>> => s.lk.write_wait = <<>>
    BY <1>1 DEF WriterFirst
  <2>4. QED
    BY <2>1, <2>2, <2>3, ReadersStart
<1>2. CASE WriterFirst(s)
  <2>1. s.lk.write_wait # <<>>
    BY <1>2 DEF WriterFirst
  <2>2. /\ Consistent(s1, D)
        /\ Woke(s, s1, D)
        /\ s1.lk.read = s.lk.read /\ s1.lk.read_wait = s.lk.read_wait
        /\ s1.lk.write = s.lk.write /\ s1.lk.write_wait = s.lk.write_wait
    <3> DEFINE n == IF tooMany THEN 0 ELSE s.lk.write_lock_count + 1
    <3>1. /\ s.lk.write_lock_count \in 0..(max_write_lock_count + 1)
          /\ max_write_lock_count \in Nat
      BY Parts, ThrLockAssumption DEF Consistent
    <3>2. n \in 0..(max_write_lock_count + 1)
      BY <3>1
    <3>3. s1 = [s EXCEPT !.lk.write_lock_count = n]
      OBVIOUS
    <3> HIDE DEF n, s1
    <3>4. QED
      BY <3>2, <3>3, CountStep
  <2>3. CASE tooMany /\ s.lk.read_wait # <<>>
    <3>1. WakeUpAll(s, cannot) = FreeAllReadLocks(s1, FALSE)
      BY <1>2, <2>3 DEF WakeUpAll
    <3> HIDE DEF s1
    <3>2. Freed(s1, FreeAllReadLocks(s1, FALSE), D, FALSE)
      BY <2>2, FreeFacts
    <3>3. WokenUp(s1, FreeAllReadLocks(s1, FALSE), D)
      BY <2>2, <2>3, <3>2, ReadersStart
    <3>4. QED
      BY <2>2, <3>1, <3>3, WokeTwice DEF WokenUp
  <2>4. CASE ~(tooMany /\ s.lk.read_wait # <<>>)
    <3>1. /\ Consistent(s0, D) /\ Woke(s1, s0, D) /\ s0.lk = s1.lk
      <4> HIDE DEF s1
      <4> QED
        BY <2>1, <2>2, UpgradeInsertFacts
    <3>2. /\ s0.lk.write = <<>> /\ s0.lk.write_wait = s.lk.write_wait
          /\ s0.lk.read = <<>>
      BY <2>2, <3>1
    <3>3. WakeUpAll(s, cannot) = IF ty >= TL_WRITE_LOW_PRIORITY THEN s2
                       ELSE FreeReadLocksIfAny(s2, InsertsConcurrently(ty))
      BY <1>2, <2>4 DEF WakeUpAll
    <3> HIDE DEF s1, s0
    <3>4. Started(s0, s2, D)
      BY <2>1, <3>1, <3>2, StartFacts
    <3>5. Woke(s, s0, D)
      BY <2>2, <3>1, WokeTwice
    <3>6. ty = s0.ty[Head(s0.lk.write_wait)] /\ ty \in WriteTypes
      <4>1. s2.ty = s0.ty
        BY <3>4 DEF Started
      <4>2. Head(s0.lk.write_wait) \in ToSet(s0.lk.write_wait)
        BY <2>1, <3>1, <3>2, Parts, HeadFacts DEF Consistent
      <4>3. s0.ty[Head(s0.lk.write_wait)] \in WriteTypes
        BY <3>1, <4>2 DEF Consistent, Apart
      <4>4. QED
        BY <3>2, <4>1, <4>3
    <3>7. CASE ty >= TL_WRITE_LOW_PRIORITY
      <4>1. ToSet(s2.lk.read) = {}
        BY <3>2, <3>4 DEF Started, ToSet
      <4>2. Tolerant(s2)
        BY <3>4, <4>1 DEF Started, Tolerant, ReadersTolerate
      <4>3. NoneForgotten(s2)
        BY <3>4 DEF Started, NoneForgotten
      <4>4. Woke(s, s2, D) /\ Consistent(s2, D)
        BY <3>4, <3>5, WokeTwice DEF Started
      <4>5. QED
        BY <3>3, <3>7, <4>2, <4>3, <4>4 DEF WokenUp, TableInv
    <3>8. CASE ~(ty >= TL_WRITE_LOW_PRIORITY)
      <4>1. ty <= TL_WRITE_DELAYED
        BY <3>6, <3>8, TypeNumbers
      <4>2. ToSet(s0.lk.read) = {}
        BY <3>2 DEF ToSet
      <4>3. WakeUpAll(s, cannot) =
              FreeReadLocksIfAny(StartWriteLocks(s0), InsertsConcurrently(ty))
        BY <3>3, <3>8
      <4> HIDE DEF ty, s2
      <4>4. WokenUp(s0, FreeReadLocksIfAny(StartWriteLocks(s0),
                                          InsertsConcurrently(ty)), D)
        BY <2>1, <3>1, <3>2, <3>6, <4>1, <4>2, WritersStart
      <4>5. QED
        BY <3>5, <4>3, <4>4, WokeTwice DEF WokenUp
    <3>9. QED
      BY <3>7, <3>8
  <2>5. QED
    BY <2>3, <2>4
<1>3. QED
  BY <1>1, <1>2

\* wake_up_waiters if the table is read but not written.
LEMMA WakeUpWithReadersFacts ==
  ASSUME NEW D \in SUBSET Data, NEW s, Consistent(s, D),
         s.lk.write = <<>>, s.lk.read # <<>>, NEW cannot \in BOOLEAN
  PROVE  WokenUp(s, WakeUpWithReaders(s, cannot), D)
<1> DEFINE ty == s.ty[Head(s.lk.write_wait)]
           s1 == UpgradeInsert(s, cannot)
<1>1. CASE s.lk.write_wait = <<>>
  <2>1. WakeUpWithReaders(s, cannot) = FreeReadLocksIfAny(s, FALSE)
    BY <1>1 DEF WakeUpWithReaders
  <2>2. Freed(s, FreeReadLocksIfAny(s, FALSE), D, FALSE)
    BY FreeIfAnyFacts
  <2>3. QED
    BY <1>1, <2>1, <2>2, ReadersStart
<1>2. CASE s.lk.write_wait # <<>> /\ ~StartsWithReaders(s, ty)
  <2>1. WakeUpWithReaders(s, cannot) = s
    BY <1>2 DEF WakeUpWithReaders
  <2>2. Tolerant(s) /\ NoneForgotten(s) /\ Woke(s, s, D)
    BY <1>2, NobodyWrites DEF NoneForgotten, Woke
  <2>3. QED
    BY <2>1, <2>2 DEF WokenUp, TableInv
<1>3. CASE s.lk.write_wait # <<>> /\ StartsWithReaders(s, ty) /\ s1 # s
  <2>1. WakeUpWithReaders(s, cannot) = FreeReadLocksIfAny(s1, FALSE)
    BY <1>3 DEF WakeUpWithReaders
  <2>2. Consistent(s1, D) /\ Woke(s, s1, D) /\ s1.lk = s.lk
    BY <1>3, UpgradeInsertFacts
  <2> HIDE DEF s1
  <2>3. Freed(s1, FreeReadLocksIfAny(s1, FALSE), D, FALSE)
    BY <2>2, FreeIfAnyFacts
  <2>4. WokenUp(s1, FreeReadLocksIfAny(s1, FALSE), D)
    BY <2>2, <2>3, ReadersStart
  <2>5. QED
    BY <2>1, <2>2, <2>4, WokeTwice DEF WokenUp
<1>4. CASE s.lk.write_wait # <<>> /\ StartsWithReaders(s, ty) /\ s1 = s
  <2>1. WakeUpWithReaders(s, cannot) =
          FreeReadLocksIfAny(StartWriteLocks(s), InsertsConcurrently(ty))
    BY <1>4 DEF WakeUpWithReaders
  <2>2. ty <= TL_WRITE_DELAYED
    BY <1>4 DEF StartsWithReaders
  <2>3. \A e \in ToSet(s.lk.read) :
          ~(ty = TL_WRITE_CONCURRENT_INSERT /\ s.ty[e] = TL_READ_NO_INSERT)
    <3>1. SUFFICES ASSUME ty = TL_WRITE_CONCURRENT_INSERT
                   PROVE  NoInsertReaders(s) = {}
      BY DEF NoInsertReaders
    <3>2. Cardinality(NoInsertReaders(s)) = 0
      BY <1>4, <3>1 DEF StartsWithReaders, InsertsConcurrently, Consistent
    <3>3. IsFiniteSet(NoInsertReaders(s))
      <4>1. IsFiniteSet(ToSet(s.lk.read))
        BY Parts, CountFacts DEF Consistent
      <4>2. QED
        BY <4>1, FS_Subset DEF NoInsertReaders
    <3>4. QED
      BY <3>2, <3>3, FS_EmptySet
  <2> HIDE DEF ty
  <2>4. ty = s.ty[Head(s.lk.write_wait)]
    BY DEF ty
  <2>5. WokenUp(s, FreeReadLocksIfAny(StartWriteLocks(s),
                                     InsertsConcurrently(ty)), D)
    BY <1>4, <2>2, <2>3, <2>4, WritersStart
  <2>6. QED
    BY <2>1, <2>5
<1>5. QED
  BY <1>1, <1>2, <1>3, <1>4

\* wake_up_waiters: if the lists agree with the data and the locks in use
\* tolerate each other, they do afterwards, and nobody is forgotten.
LEMMA WakeUpFacts ==
  ASSUME NEW D \in SUBSET Data, NEW s, Consistent(s, D), Tolerant(s),
         NEW cannot \in BOOLEAN
  PROVE  WokenUp(s, WakeUpWaiters(s, cannot), D)
<1>1. CASE s.lk.write # <<>>
  BY <1>1 DEF WakeUpWaiters, WokenUp, TableInv, NoneForgotten, Woke
<1>2. CASE s.lk.write = <<>> /\ s.lk.read = <<>>
  BY <1>2, WakeUpAllFacts DEF WakeUpWaiters
<1>3. CASE s.lk.write = <<>> /\ s.lk.read # <<>>
  BY <1>3, WakeUpWithReadersFacts DEF WakeUpWaiters
<1>4. QED
  BY <1>1, <1>2, <1>3

\* The lock data of G leave their lists.
LEMMA RemovedFacts ==
  ASSUME NEW D \in SUBSET Data, NEW s, Consistent(s, D), Tolerant(s),
         NEW G \in SUBSET D, NEW s2 \in States(D),
         NoneTwice(s2), FirstIsStrongest(s2),
         ToSet(s2.lk.read) = ToSet(s.lk.read) \ G,
         ToSet(s2.lk.read_wait) = ToSet(s.lk.read_wait) \ G,
         ToSet(s2.lk.write) = ToSet(s.lk.write) \ G,
         ToSet(s2.lk.write_wait) = ToSet(s.lk.write_wait) \ G,
         \A d \in Data : s2.ty[d] = IF d \in G THEN TL_UNLOCK ELSE s.ty[d],
         \A d \in Data : s2.cd[d] <=> s.cd[d] /\ d \notin G,
         s2.lk.read_no_write_count = Cardinality(NoInsertReaders(s) \ G)
  PROVE  Consistent(s2, D) /\ Tolerant(s2)
<1>1. s \in States(D) /\ NoneTwice(s) /\ Apart(s) /\ Listed(s, D)
  BY DEF Consistent
<1>2. /\ ToSet(s.lk.read) \subseteq Data /\ ToSet(s.lk.read_wait) \subseteq Data
      /\ ToSet(s.lk.write) \subseteq Data /\ ToSet(s.lk.write_wait) \subseteq Data
  BY <1>1, Parts, HeadFacts
<1>3. Apart(s2)
  <2>1. \A d \in ToSet(s2.lk.read) : s2.ty[d] \in ReadTypes /\ ~s2.cd[d]
    BY <1>1, <1>2 DEF Apart
  <2>2. \A d \in ToSet(s2.lk.read_wait) : s2.ty[d] \in ReadTypes /\ s2.cd[d]
    BY <1>1, <1>2 DEF Apart
  <2>3. \A d \in ToSet(s2.lk.write) : s2.ty[d] \in WriteTypes /\ ~s2.cd[d]
    BY <1>1, <1>2 DEF Apart
  <2>4. \A d \in ToSet(s2.lk.write_wait) : s2.ty[d] \in WriteTypes /\ s2.cd[d]
    BY <1>1, <1>2 DEF Apart
  <2>5. QED
    BY <2>1, <2>2, <2>3, <2>4 DEF Apart
<1>4. Listed(s2, D)
  <2>1. SUFFICES ASSUME NEW d \in D
                 PROVE  /\ s2.ty[d] # TL_UNLOCK =>
                             d \in ToSet(s2.lk.read) \cup ToSet(s2.lk.read_wait)
                               \cup ToSet(s2.lk.write) \cup ToSet(s2.lk.write_wait)
                        /\ s2.cd[d] => d \in ToSet(s2.lk.read_wait)
                                             \cup ToSet(s2.lk.write_wait)
    BY DEF Listed
  <2>2. d \in Data
    OBVIOUS
  <2>3. CASE d \in G
    BY <2>2, <2>3
  <2>4. CASE d \notin G
    BY <1>1, <2>2, <2>4 DEF Listed
  <2>5. QED
    BY <2>3, <2>4
<1>5. NoInsertReaders(s2) = NoInsertReaders(s) \ G
  BY <1>2 DEF NoInsertReaders
<1>6. Consistent(s2, D)
  BY <1>3, <1>4, <1>5 DEF Consistent
<1>7. WritersTolerate(s2)
  BY <1>2 DEF Tolerant, WritersTolerate
<1>8. ReadersTolerate(s2)
  BY <1>2 DEF Tolerant, ReadersTolerate
<1>9. QED
  BY <1>6, <1>7, <1>8 DEF Tolerant

\* The order of the writers is kept when some of them leave.
LEMMA FirstStays ==
  ASSUME NEW D \in SUBSET Data, NEW s \in States(D), FirstIsStrongest(s), NEW S,
         NEW s2, s2.lk.write = Filter(s.lk.write, S),
         \A d \in ToSet(s2.lk.write) : s2.ty[d] = s.ty[d]
  PROVE  FirstIsStrongest(s2)
<1>1. s.lk.write \in Seq(D)
  BY Parts
<1>2. SUFFICES ASSUME NEW i \in DOMAIN s2.lk.write, NEW j \in DOMAIN s2.lk.write,
                      i < j
               PROVE  \/ s2.ty[s2.lk.write[i]] >= s2.ty[s2.lk.write[j]]
                      \/ s2.ty[s2.lk.write[i]] >= TL_WRITE_LOW_PRIORITY
  BY DEF FirstIsStrongest
<1>3. PICK a \in DOMAIN s.lk.write, b \in DOMAIN s.lk.write :
        a < b /\ s2.lk.write[i] = s.lk.write[a] /\ s2.lk.write[j] = s.lk.write[b]
  <2>1. OrderKept(s2.lk.write, s.lk.write)
    BY <1>1, FilterFacts
  <2>2. QED
    BY <1>2, <2>1 DEF OrderKept
<1>4. /\ s2.ty[s2.lk.write[i]] = s.ty[s.lk.write[a]]
      /\ s2.ty[s2.lk.write[j]] = s.ty[s.lk.write[b]]
  BY <1>3 DEF ToSet
<1>5. QED
  BY <1>3, <1>4 DEF FirstIsStrongest

\* A lock data is taken off its list: c is the corrected number of readers that
\* forbid inserts.
TakenOff(s, d, c) ==
  [Unlink(s, d) EXCEPT !.lk.read_no_write_count = c,
                       !.ty[d] = TL_UNLOCK, !.cd[d] = FALSE]

\* From s to s2 lock data d has left its list.
Unlinked(s, s2, d, D) ==
  /\ s2 \in States(D)
  /\ NoneTwice(s2)
  /\ s2.lk.read \in Seq(D) /\ ToSet(s2.lk.read) = ToSet(s.lk.read) \ {d}
  /\ s2.lk.read_wait \in Seq(D)
  /\ ToSet(s2.lk.read_wait) = ToSet(s.lk.read_wait) \ {d}
  /\ s2.lk.write \in Seq(D) /\ ToSet(s2.lk.write) = ToSet(s.lk.write) \ {d}
  /\ s2.lk.write_wait \in Seq(D)
  /\ ToSet(s2.lk.write_wait) = ToSet(s.lk.write_wait) \ {d}
  /\ s2.lk.write = Filter(s.lk.write, Data \ {d})
  /\ s2.ty = s.ty /\ s2.cd = s.cd
  /\ s2.lk.read_no_write_count = s.lk.read_no_write_count

\* What Unlink does to the four lists.
LEMMA UnlinkFacts ==
  ASSUME NEW D \in SUBSET Data, NEW s, Consistent(s, D), NEW d \in D
  PROVE  Unlinked(s, Unlink(s, d), d, D)
<1> DEFINE s2 == Unlink(s, d)
           F(list) == Filter(list, Data \ {d})
<1>1. s \in States(D) /\ NoneTwice(s)
  BY DEF Consistent
<1>2. /\ s.lk \in LockRecord(D)
      /\ s.lk.read \in Seq(D) /\ s.lk.read_wait \in Seq(D)
      /\ s.lk.write \in Seq(D) /\ s.lk.write_wait \in Seq(D)
      /\ s.ty \in [Data -> Types] /\ s.cd \in [Data -> BOOLEAN]
  BY <1>1, Parts
<1>3. ASSUME NEW list \in Seq(D)
      PROVE  /\ F(list) \in Seq(D) /\ ToSet(F(list)) = ToSet(list) \ {d}
             /\ IsInjective(list) => IsInjective(F(list))
  <2>1. /\ F(list) \in Seq(D) /\ ToSet(F(list)) = ToSet(list) \cap (Data \ {d})
        /\ IsInjective(list) => IsInjective(F(list))
    BY FilterFacts
  <2>2. ToSet(list) \subseteq Data
    BY HeadFacts
  <2>3. QED
    BY <2>1, <2>2
<1> HIDE DEF F
<1>4. /\ s2.lk = [s.lk EXCEPT !.read = F(s.lk.read), !.read_wait = F(s.lk.read_wait),
                              !.write = F(s.lk.write),
                              !.write_wait = F(s.lk.write_wait)]
      /\ s2.ty = s.ty /\ s2.cd = s.cd
      /\ s2 = [lk |-> s2.lk, ty |-> s2.ty, cd |-> s2.cd]
  <2>1. PICK a, b, e, f : /\ a = F(s.lk.read) /\ b = F(s.lk.read_wait)
                          /\ e = F(s.lk.write) /\ f = F(s.lk.write_wait)
    OBVIOUS
  <2>2. s2 = [s EXCEPT !.lk.read = a, !.lk.read_wait = b,
                       !.lk.write = e, !.lk.write_wait = f]
    BY <2>1 DEF Unlink, F
  <2> HIDE DEF s2
  <2>3. /\ s2.lk = [s.lk EXCEPT !.read = a, !.read_wait = b,
                                !.write = e, !.write_wait = f]
        /\ s2.ty = s.ty /\ s2.cd = s.cd
        /\ s2 = [lk |-> s2.lk, ty |-> s2.ty, cd |-> s2.cd]
    BY <1>1, <2>2 DEF States, LockRecord
  <2>4. QED
    BY <2>1, <2>3
<1> HIDE DEF s2
<1>5. /\ s2.lk.read = F(s.lk.read) /\ s2.lk.read_wait = F(s.lk.read_wait)
      /\ s2.lk.write = F(s.lk.write) /\ s2.lk.write_wait = F(s.lk.write_wait)
      /\ s2.lk.read_no_write_count = s.lk.read_no_write_count
      /\ s2.lk.write_lock_count = s.lk.write_lock_count
      /\ s2.lk = [read |-> s2.lk.read, read_wait |-> s2.lk.read_wait,
                  write |-> s2.lk.write, write_wait |-> s2.lk.write_wait,
                  read_no_write_count |-> s2.lk.read_no_write_count,
                  write_lock_count |-> s2.lk.write_lock_count]
  BY <1>2, <1>4 DEF LockRecord
<1>6. /\ F(s.lk.read) \in Seq(D) /\ F(s.lk.read_wait) \in Seq(D)
      /\ F(s.lk.write) \in Seq(D) /\ F(s.lk.write_wait) \in Seq(D)
  BY <1>2, <1>3
<1>7. s2 \in States(D)
  <2>1. s2.lk \in LockRecord(D)
    BY <1>2, <1>5, <1>6 DEF LockRecord
  <2>2. QED
    BY <1>2, <1>4, <2>1 DEF States
<1>8. NoneTwice(s2)
  BY <1>1, <1>2, <1>3, <1>5 DEF NoneTwice
<1>9. /\ ToSet(s2.lk.read) = ToSet(s.lk.read) \ {d}
      /\ ToSet(s2.lk.read_wait) = ToSet(s.lk.read_wait) \ {d}
      /\ ToSet(s2.lk.write) = ToSet(s.lk.write) \ {d}
      /\ ToSet(s2.lk.write_wait) = ToSet(s.lk.write_wait) \ {d}
  BY <1>2, <1>3, <1>5
<1>10. s2.lk.write = Filter(s.lk.write, Data \ {d})
  BY <1>5 DEF F
<1>11. QED
  BY <1>4, <1>5, <1>6, <1>7, <1>8, <1>9, <1>10 DEF s2, Unlinked

\* A lock data leaves its list.
LEMMA TakenOffFacts ==
  ASSUME NEW D \in SUBSET Data, NEW s, Consistent(s, D), Tolerant(s),
         NEW d \in D, NEW c,
         c = s.lk.read_no_write_count -
               (IF s.ty[d] = TL_READ_NO_INSERT /\ ~s.cd[d] THEN 1 ELSE 0)
  PROVE  /\ Consistent(TakenOff(s, d, c), D)
         /\ Tolerant(TakenOff(s, d, c))
         /\ TakenOff(s, d, c).ty = [s.ty EXCEPT ![d] = TL_UNLOCK]
         /\ TakenOff(s, d, c).cd = [s.cd EXCEPT ![d] = FALSE]
<1> DEFINE s1 == Unlink(s, d)
           s2 == TakenOff(s, d, c)
<1>1. s \in States(D) /\ Apart(s) /\ Listed(s, D)
  BY DEF Consistent
<1>2. s.ty \in [Data -> Types] /\ s.cd \in [Data -> BOOLEAN]
      /\ s.lk.read \in Seq(D) /\ d \in Data
  BY <1>1, Parts
<1>3. /\ s1.lk.read \in Seq(D) /\ ToSet(s1.lk.read) = ToSet(s.lk.read) \ {d}
      /\ s1.lk.read_wait \in Seq(D)
      /\ ToSet(s1.lk.read_wait) = ToSet(s.lk.read_wait) \ {d}
      /\ s1.lk.write \in Seq(D) /\ ToSet(s1.lk.write) = ToSet(s.lk.write) \ {d}
      /\ s1.lk.write_wait \in Seq(D)
      /\ ToSet(s1.lk.write_wait) = ToSet(s.lk.write_wait) \ {d}
      /\ NoneTwice(s1)
      /\ s1.lk.write = Filter(s.lk.write, Data \ {d})
      /\ s1.ty = s.ty /\ s1.cd = s.cd
      /\ s1 \in States(D)
      /\ s1.lk.read_no_write_count = s.lk.read_no_write_count
  <2>1. Unlinked(s, s1, d, D)
    BY UnlinkFacts
  <2> HIDE DEF s1
  <2>2. QED
    BY <2>1 DEF Unlinked
<1>4. s2 = [s1 EXCEPT !.lk.read_no_write_count = c,
                      !.ty[d] = TL_UNLOCK, !.cd[d] = FALSE]
  BY DEF TakenOff
<1> HIDE DEF s1, s2
<1>5. /\ s2.lk = [s1.lk EXCEPT !.read_no_write_count = c]
      /\ s2.ty = [s.ty EXCEPT ![d] = TL_UNLOCK]
      /\ s2.cd = [s.cd EXCEPT ![d] = FALSE]
      /\ s2 = [lk |-> s2.lk, ty |-> s2.ty, cd |-> s2.cd]
  BY <1>3, <1>4 DEF States
<1>6. /\ s2.lk.read = s1.lk.read /\ s2.lk.read_wait = s1.lk.read_wait
      /\ s2.lk.write = s1.lk.write /\ s2.lk.write_wait = s1.lk.write_wait
      /\ s2.lk.read_no_write_count = c
      /\ c \in Nat => s2.lk \in LockRecord(D)
  <2>1. s1.lk \in LockRecord(D)
    BY <1>3, Parts
  <2>2. ASSUME NEW k, NEW m, NEW n, k \in LockRecord(D),
               m = [k EXCEPT !.read_no_write_count = n]
        PROVE  /\ m.read = k.read /\ m.read_wait = k.read_wait
               /\ m.write = k.write /\ m.write_wait = k.write_wait
               /\ m.read_no_write_count = n
               /\ n \in Nat => m \in LockRecord(D)
    BY <2>2 DEF LockRecord
  <2>3. QED
    BY <1>5, <2>1, <2>2
<1>7. c = Cardinality(NoInsertReaders(s) \ {d}) /\ c \in Nat
  <2>1. IsFiniteSet(NoInsertReaders(s))
    <3>1. IsFiniteSet(ToSet(s.lk.read))
      BY <1>2, CountFacts
    <3>2. QED
      BY <3>1, FS_Subset DEF NoInsertReaders
  <2>2. d \in NoInsertReaders(s) <=> s.ty[d] = TL_READ_NO_INSERT /\ ~s.cd[d]
    <3>1. d \in NoInsertReaders(s) => s.ty[d] = TL_READ_NO_INSERT /\ ~s.cd[d]
      BY <1>1 DEF NoInsertReaders, Apart
    <3>2. ASSUME s.ty[d] = TL_READ_NO_INSERT, ~s.cd[d]
          PROVE  d \in NoInsertReaders(s)
      <4>1. s.ty[d] # TL_UNLOCK /\ s.ty[d] \notin WriteTypes
        BY <3>2, TypeNumbers
      <4>2. d \in ToSet(s.lk.read)
        BY <1>1, <3>2, <4>1 DEF Listed, Apart
      <4>3. QED
        BY <3>2, <4>2 DEF NoInsertReaders
    <3>3. QED
      BY <3>1, <3>2
  <2>3. /\ IsFiniteSet(NoInsertReaders(s) \ {d})
        /\ Cardinality(NoInsertReaders(s) \ {d}) =
             IF d \in NoInsertReaders(s) THEN Cardinality(NoInsertReaders(s)) - 1
                                         ELSE Cardinality(NoInsertReaders(s))
    BY <2>1, FS_RemoveElement
  <2>4. /\ Cardinality(NoInsertReaders(s) \ {d}) \in Nat
        /\ Cardinality(NoInsertReaders(s)) \in Nat
    BY <2>1, <2>3, FS_CardinalityType
  <2>5. s.lk.read_no_write_count = Cardinality(NoInsertReaders(s))
    BY DEF Consistent
  <2>6. QED
    BY <2>2, <2>3, <2>4, <2>5
<1>8. s2 \in States(D)
  <2>1. s2.cd \in [Data -> BOOLEAN]
    BY <1>2, <1>5
  <2>2. s2.ty \in [Data -> Types]
    BY <1>2, <1>5 DEF Types
  <2>3. QED
    BY <1>5, <1>6, <1>7, <2>1, <2>2 DEF States
<1>9. \A e \in Data : s2.ty[e] = IF e \in {d} THEN TL_UNLOCK ELSE s.ty[e]
  BY <1>2, <1>5
<1>10. \A e \in Data : s2.cd[e] <=> s.cd[e] /\ e \notin {d}
  BY <1>2, <1>5
<1>11. FirstIsStrongest(s2)
  <2>1. ToSet(s2.lk.write) \subseteq Data \ {d}
    <3>1. ToSet(s1.lk.write) \subseteq D
      BY <1>3, HeadFacts
    <3>2. QED
      BY <1>3, <1>6, <3>1
  <2>2. \A e \in ToSet(s2.lk.write) : s2.ty[e] = s.ty[e]
    BY <1>9, <2>1
  <2>3. s2.lk.write = Filter(s.lk.write, Data \ {d})
    BY <1>3, <1>6
  <2>4. FirstIsStrongest(s)
    BY DEF Tolerant
  <2>5. QED
    BY <1>1, <2>2, <2>3, <2>4, FirstStays
<1>12. NoneTwice(s2)
  BY <1>3, <1>6 DEF NoneTwice
<1>13. {d} \in SUBSET D
  OBVIOUS
<1>14. Consistent(s2, D) /\ Tolerant(s2)
  BY <1>3, <1>6, <1>7, <1>8, <1>9, <1>10, <1>11, <1>12, <1>13, RemovedFacts
<1>15. QED
  BY <1>5, <1>14 DEF s2

\* What leaving a list and waking up others may do to lock data.
Eased(s, s2, D) ==
  /\ \A d \in Data :
       /\ s2.cd[d] => s.cd[d]
       /\ \/ s2.ty[d] = s.ty[d]
          \/ s.ty[d] = TL_WRITE_CONCURRENT_INSERT /\ s2.ty[d] = TL_WRITE
          \/ s2.ty[d] = TL_UNLOCK /\ ~s2.cd[d]
  /\ \A d \in Data \ D : s2.ty[d] = s.ty[d] /\ s2.cd[d] = s.cd[d]

\* A lock data leaves its list and others are woken up.
LEMMA TakeOffAndWake ==
  ASSUME NEW D \in SUBSET Data, NEW s, Consistent(s, D), Tolerant(s),
         NEW d \in D, NEW c, NEW cannot \in BOOLEAN,
         c = s.lk.read_no_write_count -
               (IF s.ty[d] = TL_READ_NO_INSERT /\ ~s.cd[d] THEN 1 ELSE 0),
         NEW s2, s2 = WakeUpWaiters(TakenOff(s, d, c), cannot)
  PROVE  TableInv(s2, D) /\ Eased(s, s2, D) /\ ~s2.cd[d] /\ s2.ty[d] = TL_UNLOCK
<1> DEFINE s1 == TakenOff(s, d, c)
<1>1. /\ Consistent(s1, D) /\ Tolerant(s1)
      /\ s1.ty = [s.ty EXCEPT ![d] = TL_UNLOCK]
      /\ s1.cd = [s.cd EXCEPT ![d] = FALSE]
  BY TakenOffFacts
<1>2. s.ty \in [Data -> Types] /\ s.cd \in [Data -> BOOLEAN] /\ d \in Data
  BY Parts DEF Consistent
<1> HIDE DEF s1
<1>3. WokenUp(s1, s2, D)
  BY <1>1, WakeUpFacts DEF s1
<1>4. /\ \A e \in Data : s1.ty[e] = IF e = d THEN TL_UNLOCK ELSE s.ty[e]
      /\ \A e \in Data : e # d => s1.cd[e] = s.cd[e]
      /\ ~s1.cd[d]
  BY <1>1, <1>2
<1>5. TL_UNLOCK # TL_WRITE_CONCURRENT_INSERT
  BY TypeNumbers
<1>6. s2.ty[d] = TL_UNLOCK /\ ~s2.cd[d]
  BY <1>2, <1>3, <1>4, <1>5 DEF WokenUp, Woke
<1>7. Eased(s, s2, D)
  <2>1. ASSUME NEW e \in Data, e # d
        PROVE  /\ s2.cd[e] => s.cd[e]
               /\ \/ s2.ty[e] = s.ty[e]
                  \/ s.ty[e] = TL_WRITE_CONCURRENT_INSERT /\ s2.ty[e] = TL_WRITE
    BY <1>3, <1>4, <2>1 DEF WokenUp, Woke
  <2>2. ASSUME NEW e \in Data \ D
        PROVE  s2.ty[e] = s.ty[e] /\ s2.cd[e] = s.cd[e]
    BY <1>3, <1>4 DEF WokenUp, Woke
  <2>3. QED
    BY <1>6, <2>1, <2>2 DEF Eased
<1>8. QED
  BY <1>3, <1>6, <1>7 DEF WokenUp

\* A request that gives up, in wait_for_lock.
LEMMA LeaveQueueFacts ==
  ASSUME NEW D \in SUBSET Data, NEW s, TableInv(s, D), NEW d \in D, s.cd[d],
         NEW cannot \in BOOLEAN, NEW s2, s2 = LeaveQueue(s, d, cannot)
  PROVE  TableInv(s2, D) /\ Eased(s, s2, D) /\ ~s2.cd[d] /\ s2.ty[d] = TL_UNLOCK
<1>1. Consistent(s, D) /\ Tolerant(s)
  BY DEF TableInv
<1> DEFINE s1 == Unlink(s, d)
           n == s.lk.read_no_write_count
<1>2. Unlinked(s, s1, d, D)
  BY <1>1, UnlinkFacts
<1>3. n \in Nat
  BY <1>1, Parts DEF Consistent
<1>4. n = n - (IF s.ty[d] = TL_READ_NO_INSERT /\ ~s.cd[d] THEN 1 ELSE 0)
  <2> HIDE DEF n
  <2> QED
    BY <1>3
<1>5. TakenOff(s, d, n) = [s1 EXCEPT !.ty[d] = TL_UNLOCK, !.cd[d] = FALSE]
  <2>1. TakenOff(s, d, n) = [s1 EXCEPT !.lk.read_no_write_count = n,
                                       !.ty[d] = TL_UNLOCK, !.cd[d] = FALSE]
    BY DEF TakenOff
  <2> HIDE DEF s1
  <2>2. s1.lk.read_no_write_count = n /\ s1.lk \in LockRecord(D)
    BY <1>2, Parts DEF Unlinked
  <2>3. [s1.lk EXCEPT !.read_no_write_count = n] = s1.lk
    BY <2>2 DEF LockRecord
  <2>4. s1 \in States(D)
    BY <1>2 DEF Unlinked
  <2>5. [s1 EXCEPT !.lk = [s1.lk EXCEPT !.read_no_write_count = n]] = s1
    BY <2>3, <2>4 DEF States
  <2>6. QED
    BY <2>1, <2>5
<1>6. s2 = WakeUpWaiters(TakenOff(s, d, n), cannot)
  BY <1>5 DEF LeaveQueue
<1> HIDE DEF n, s1
<1>7. QED
  BY <1>1, <1>4, <1>6, TakeOffAndWake DEF n

\* thr_unlock of an active lock, or of a delayed one that waits.
LEMMA UnlockedFacts ==
  ASSUME NEW D \in SUBSET Data, NEW s, TableInv(s, D), NEW d \in D,
         s.cd[d] => s.ty[d] # TL_READ_NO_INSERT,
         NEW cannot \in BOOLEAN, NEW s2, s2 = Unlocked(s, d, cannot)
  PROVE  TableInv(s2, D) /\ Eased(s, s2, D)
<1>1. Consistent(s, D) /\ Tolerant(s)
  BY DEF TableInv
<1> DEFINE s1 == Unlink(s, d)
           n == s.lk.read_no_write_count -
                  (IF s.ty[d] = TL_READ_NO_INSERT THEN 1 ELSE 0)
<1>2. Unlinked(s, s1, d, D)
  BY <1>1, UnlinkFacts
<1>3. s1.lk.read_no_write_count = s.lk.read_no_write_count
  BY <1>2 DEF Unlinked
<1>4. s2 = WakeUpWaiters(TakenOff(s, d, n), cannot)
  BY <1>3 DEF Unlocked, TakenOff
<1>5. n = s.lk.read_no_write_count -
            (IF s.ty[d] = TL_READ_NO_INSERT /\ ~s.cd[d] THEN 1 ELSE 0)
  OBVIOUS
<1> HIDE DEF n, s1
<1>6. QED
  BY <1>1, <1>4, <1>5, TakeOffAndWake

\* The lock data of G have left their lists, and others are woken up.
LEMMA RemoveAndWake ==
  ASSUME NEW D \in SUBSET Data, NEW s, Consistent(s, D), NEW G \in SUBSET D,
         NEW s1, Consistent(s1, D), Tolerant(s1),
         \A d \in Data : s1.ty[d] = IF d \in G THEN TL_UNLOCK ELSE s.ty[d],
         \A d \in Data : s1.cd[d] <=> s.cd[d] /\ d \notin G,
         NEW cannot \in BOOLEAN, NEW s2, s2 = WakeUpWaiters(s1, cannot)
  PROVE  TableInv(s2, D) /\ Eased(s, s2, D)
<1>1. WokenUp(s1, s2, D)
  BY WakeUpFacts
<1>2. TL_UNLOCK # TL_WRITE_CONCURRENT_INSERT
  BY TypeNumbers
<1>3. s.cd \in [Data -> BOOLEAN] /\ s1.cd \in [Data -> BOOLEAN]
  BY Parts DEF Consistent
<1>4. ASSUME NEW e \in G PROVE s2.ty[e] = TL_UNLOCK /\ ~s2.cd[e]
  <2>1. e \in Data
    OBVIOUS
  <2>2. QED
    BY <1>1, <1>2, <2>1 DEF WokenUp, Woke
<1>5. ASSUME NEW e \in Data, e \notin G
      PROVE  /\ s2.cd[e] => s.cd[e]
             /\ \/ s2.ty[e] = s.ty[e]
                \/ s.ty[e] = TL_WRITE_CONCURRENT_INSERT /\ s2.ty[e] = TL_WRITE
  BY <1>1, <1>5 DEF WokenUp, Woke
<1>6. ASSUME NEW e \in Data \ D
      PROVE  s2.ty[e] = s.ty[e] /\ s2.cd[e] = s.cd[e]
  <2>1. e \notin G
    OBVIOUS
  <2>2. s1.cd[e] = s.cd[e] /\ s1.ty[e] = s.ty[e]
    BY <1>3, <2>1
  <2>3. QED
    BY <1>1, <2>2 DEF WokenUp, Woke
<1>7. QED
  BY <1>1, <1>4, <1>5, <1>6 DEF WokenUp, Eased

\* The requests of thread t.
RequestsOf(s, t) ==
  {d \in ToSet(s.lk.read_wait) \cup ToSet(s.lk.write_wait) : Owner(d) = t}

\* They leave the queues.
Aborted(s, t) ==
  LET S == {d \in Data : Owner(d) # t}
  IN [lk |-> [s.lk EXCEPT !.read_wait = Filter(@, S), !.write_wait = Filter(@, S)],
      ty |-> [d \in Data |-> IF d \in RequestsOf(s, t) THEN TL_UNLOCK ELSE s.ty[d]],
      cd |-> [d \in Data |-> s.cd[d] /\ d \notin RequestsOf(s, t)]]

\* thr_abort_locks_for_thread.
LEMMA AbortFacts ==
  ASSUME NEW D \in SUBSET Data, NEW s, TableInv(s, D), NEW t \in Thread,
         NEW cannot \in BOOLEAN, NEW s2,
         s2 = WakeUpWaiters(Aborted(s, t), cannot)
  PROVE  TableInv(s2, D) /\ Eased(s, s2, D)
<1> DEFINE S == {d \in Data : Owner(d) # t}
           G == RequestsOf(s, t)
           s1 == Aborted(s, t)
<1>0. /\ s1.lk = [s.lk EXCEPT !.read_wait = Filter(@, S), !.write_wait = Filter(@, S)]
      /\ s1.ty = [d \in Data |-> IF d \in G THEN TL_UNLOCK ELSE s.ty[d]]
      /\ s1.cd = [d \in Data |-> s.cd[d] /\ d \notin G]
      /\ s1 = [lk |-> s1.lk, ty |-> s1.ty, cd |-> s1.cd]
  BY DEF Aborted
<1> HIDE DEF s1, G
<1>1. /\ Consistent(s, D) /\ Tolerant(s) /\ s \in States(D) /\ NoneTwice(s)
      /\ Apart(s) /\ FirstIsStrongest(s)
      /\ s.lk.read_no_write_count = Cardinality(NoInsertReaders(s))
  BY DEF TableInv, Consistent, Tolerant
<1>2. /\ s.lk \in LockRecord(D)
      /\ s.lk.read \in Seq(D) /\ s.lk.read_wait \in Seq(D)
      /\ s.lk.write \in Seq(D) /\ s.lk.write_wait \in Seq(D)
      /\ s.ty \in [Data -> Types] /\ s.cd \in [Data -> BOOLEAN]
  BY <1>1, Parts
<1>3. /\ ToSet(s.lk.read) \subseteq D /\ ToSet(s.lk.read_wait) \subseteq D
      /\ ToSet(s.lk.write) \subseteq D /\ ToSet(s.lk.write_wait) \subseteq D
  BY <1>2, HeadFacts
<1>4. PICK a, b : a = Filter(s.lk.read_wait, S) /\ b = Filter(s.lk.write_wait, S)
  OBVIOUS
<1>5. /\ a \in Seq(D) /\ ToSet(a) = ToSet(s.lk.read_wait) \cap S
      /\ b \in Seq(D) /\ ToSet(b) = ToSet(s.lk.write_wait) \cap S
      /\ IsInjective(a) /\ IsInjective(b)
  <2>1. IsInjective(s.lk.read_wait) /\ IsInjective(s.lk.write_wait)
    BY <1>1 DEF NoneTwice
  <2>2. QED
    BY <1>2, <1>4, <2>1, FilterFacts
<1>6. /\ s1.lk.read = s.lk.read /\ s1.lk.read_wait = a
      /\ s1.lk.write = s.lk.write /\ s1.lk.write_wait = b
      /\ s1.lk.read_no_write_count = s.lk.read_no_write_count
      /\ s1.lk \in LockRecord(D)
  <2>1. s1.lk = [s.lk EXCEPT !.read_wait = a, !.write_wait = b]
    BY <1>0, <1>4
  <2>2. QED
    BY <1>2, <1>5, <2>1 DEF LockRecord
<1>7. \A d \in Data : s1.ty[d] = IF d \in G THEN TL_UNLOCK ELSE s.ty[d]
  BY <1>0
<1>8. \A d \in Data : s1.cd[d] <=> s.cd[d] /\ d \notin G
  BY <1>0
<1>9. s1 \in States(D)
  <2>1. s1.ty \in [Data -> Types]
    BY <1>0, <1>2 DEF Types
  <2>2. s1.cd \in [Data -> BOOLEAN]
    BY <1>0, <1>2
  <2>3. s1 = [lk |-> s1.lk, ty |-> s1.ty, cd |-> s1.cd]
    BY <1>0
  <2>4. QED
    BY <1>6, <2>1, <2>2, <2>3 DEF States
<1>10. G \in SUBSET D
  BY <1>3 DEF G, RequestsOf
<1>11. /\ ToSet(s.lk.read) \cap G = {} /\ ToSet(s.lk.write) \cap G = {}
  <2>1. \A d \in G : s.cd[d]
    BY <1>1 DEF Apart, G, RequestsOf
  <2>2. \A d \in ToSet(s.lk.read) \cup ToSet(s.lk.write) : ~s.cd[d]
    BY <1>1 DEF Apart
  <2>3. QED
    BY <2>1, <2>2, Zenon
<1>12. /\ ToSet(s1.lk.read) = ToSet(s.lk.read) \ G
       /\ ToSet(s1.lk.read_wait) = ToSet(s.lk.read_wait) \ G
       /\ ToSet(s1.lk.write) = ToSet(s.lk.write) \ G
       /\ ToSet(s1.lk.write_wait) = ToSet(s.lk.write_wait) \ G
  BY <1>3, <1>5, <1>6, <1>11 DEF G, RequestsOf
<1>13. NoneTwice(s1)
  BY <1>1, <1>5, <1>6 DEF NoneTwice
<1>14. FirstIsStrongest(s1)
  <2>1. \A i \in DOMAIN s.lk.write : s1.ty[s.lk.write[i]] = s.ty[s.lk.write[i]]
    <3>1. \A d \in ToSet(s.lk.write) : s1.ty[d] = s.ty[d]
      BY <1>3, <1>7, <1>11
    <3>2. QED
      BY <3>1 DEF ToSet
  <2>2. QED
    BY <1>1, <1>6, <2>1 DEF FirstIsStrongest
<1>15. s1.lk.read_no_write_count = Cardinality(NoInsertReaders(s) \ G)
  <2>1. NoInsertReaders(s) \ G = NoInsertReaders(s)
    BY <1>11 DEF NoInsertReaders
  <2>2. QED
    BY <1>1, <1>6, <2>1
<1>16. Consistent(s1, D) /\ Tolerant(s1)
  BY <1>1, <1>7, <1>8, <1>9, <1>10, <1>12, <1>13, <1>14, <1>15, RemovedFacts
<1>17. QED
  BY <1>1, <1>7, <1>8, <1>10, <1>16, RemoveAndWake DEF s1

\* From s to s2 lock data d has got the type ty and is on the list where it
\* belongs: on a waiting one if c.
Placed(s, s2, d, ty, c) ==
  /\ \A e \in Data : e # d => s2.ty[e] = s.ty[e] /\ s2.cd[e] = s.cd[e]
  /\ s2.ty[d] = ty /\ s2.cd[d] = c
  /\ ToSet(s2.lk.read) =
       (ToSet(s.lk.read) \ {d}) \cup IF ty \in ReadTypes /\ ~c THEN {d} ELSE {}
  /\ ToSet(s2.lk.read_wait) =
       (ToSet(s.lk.read_wait) \ {d}) \cup IF ty \in ReadTypes /\ c THEN {d} ELSE {}
  /\ ToSet(s2.lk.write) =
       (ToSet(s.lk.write) \ {d}) \cup IF ty \in WriteTypes /\ ~c THEN {d} ELSE {}
  /\ ToSet(s2.lk.write_wait) =
       (ToSet(s.lk.write_wait) \ {d}) \cup IF ty \in WriteTypes /\ c THEN {d} ELSE {}

\* The lists agree with the data after that.
LEMMA PlacedFacts ==
  ASSUME NEW D \in SUBSET Data, NEW s, Consistent(s, D), NEW d \in D,
         NEW ty \in LockType, NEW c \in BOOLEAN,
         NEW s2 \in States(D), NoneTwice(s2), Placed(s, s2, d, ty, c),
         s2.lk.read_no_write_count = Cardinality(NoInsertReaders(s2))
  PROVE  Consistent(s2, D)
<1>1. Apart(s) /\ Listed(s, D) /\ s \in States(D)
  BY DEF Consistent
<1>2. /\ ToSet(s.lk.read) \subseteq D /\ ToSet(s.lk.read_wait) \subseteq D
      /\ ToSet(s.lk.write) \subseteq D /\ ToSet(s.lk.write_wait) \subseteq D
  BY <1>1, Parts, HeadFacts
<1>3. /\ \A e \in Data : e # d => s2.ty[e] = s.ty[e] /\ s2.cd[e] = s.cd[e]
      /\ s2.ty[d] = ty /\ s2.cd[d] = c
  BY DEF Placed
<1>4. Apart(s2)
  <2>1. \A e \in ToSet(s2.lk.read) : s2.ty[e] \in ReadTypes /\ ~s2.cd[e]
    <3>1. SUFFICES ASSUME NEW e \in ToSet(s2.lk.read)
                   PROVE  s2.ty[e] \in ReadTypes /\ ~s2.cd[e]
      OBVIOUS
    <3>2. CASE e = d
      BY <1>3, <3>2 DEF Placed
    <3>3. CASE e # d
      <4>1. e \in ToSet(s.lk.read)
        BY <3>3 DEF Placed
      <4>2. QED
        BY <1>1, <1>2, <1>3, <3>3, <4>1 DEF Apart
    <3>4. QED
      BY <3>2, <3>3
  <2>2. \A e \in ToSet(s2.lk.read_wait) : s2.ty[e] \in ReadTypes /\ s2.cd[e]
    <3>1. SUFFICES ASSUME NEW e \in ToSet(s2.lk.read_wait)
                   PROVE  s2.ty[e] \in ReadTypes /\ s2.cd[e]
      OBVIOUS
    <3>2. CASE e = d
      BY <1>3, <3>2 DEF Placed
    <3>3. CASE e # d
      <4>1. e \in ToSet(s.lk.read_wait)
        BY <3>3 DEF Placed
      <4>2. QED
        BY <1>1, <1>2, <1>3, <3>3, <4>1 DEF Apart
    <3>4. QED
      BY <3>2, <3>3
  <2>3. \A e \in ToSet(s2.lk.write) : s2.ty[e] \in WriteTypes /\ ~s2.cd[e]
    <3>1. SUFFICES ASSUME NEW e \in ToSet(s2.lk.write)
                   PROVE  s2.ty[e] \in WriteTypes /\ ~s2.cd[e]
      OBVIOUS
    <3>2. CASE e = d
      BY <1>3, <3>2 DEF Placed
    <3>3. CASE e # d
      <4>1. e \in ToSet(s.lk.write)
        BY <3>3 DEF Placed
      <4>2. QED
        BY <1>1, <1>2, <1>3, <3>3, <4>1 DEF Apart
    <3>4. QED
      BY <3>2, <3>3
  <2>4. \A e \in ToSet(s2.lk.write_wait) : s2.ty[e] \in WriteTypes /\ s2.cd[e]
    <3>1. SUFFICES ASSUME NEW e \in ToSet(s2.lk.write_wait)
                   PROVE  s2.ty[e] \in WriteTypes /\ s2.cd[e]
      OBVIOUS
    <3>2. CASE e = d
      BY <1>3, <3>2 DEF Placed
    <3>3. CASE e # d
      <4>1. e \in ToSet(s.lk.write_wait)
        BY <3>3 DEF Placed
      <4>2. QED
        BY <1>1, <1>2, <1>3, <3>3, <4>1 DEF Apart
    <3>4. QED
      BY <3>2, <3>3
  <2>5. QED
    BY <2>1, <2>2, <2>3, <2>4 DEF Apart
<1>5. Listed(s2, D)
  <2>1. SUFFICES ASSUME NEW e \in D
                 PROVE  /\ s2.ty[e] # TL_UNLOCK =>
                             e \in ToSet(s2.lk.read) \cup ToSet(s2.lk.read_wait)
                               \cup ToSet(s2.lk.write) \cup ToSet(s2.lk.write_wait)
                        /\ s2.cd[e] => e \in ToSet(s2.lk.read_wait)
                                             \cup ToSet(s2.lk.write_wait)
    BY DEF Listed
  <2>2. CASE e = d
    <3>1. ty \in ReadTypes \/ ty \in WriteTypes
      BY DEF WriteTypes
    <3>2. QED
      BY <1>3, <2>2, <3>1 DEF Placed
  <2>3. CASE e # d
    <3>1. s2.ty[e] = s.ty[e] /\ s2.cd[e] = s.cd[e]
      BY <1>3, <2>3
    <3>2. /\ e \in ToSet(s.lk.read) => e \in ToSet(s2.lk.read)
          /\ e \in ToSet(s.lk.read_wait) => e \in ToSet(s2.lk.read_wait)
          /\ e \in ToSet(s.lk.write) => e \in ToSet(s2.lk.write)
          /\ e \in ToSet(s.lk.write_wait) => e \in ToSet(s2.lk.write_wait)
      BY <2>3 DEF Placed
    <3>3. QED
      BY <1>1, <3>1, <3>2 DEF Listed
  <2>4. QED
    BY <2>2, <2>3
<1>6. QED
  BY <1>4, <1>5 DEF Consistent

\* Tolerance depends on the active locks and their types.
LEMMA SameActive ==
  ASSUME NEW s, NEW s2, Tolerant(s),
         s2.lk.write = s.lk.write, s2.lk.read = s.lk.read,
         \A d \in ToSet(s.lk.write) \cup ToSet(s.lk.read) : s2.ty[d] = s.ty[d]
  PROVE  Tolerant(s2)
<1>1. FirstIsStrongest(s2)
  <2>1. \A i \in DOMAIN s.lk.write : s2.ty[s.lk.write[i]] = s.ty[s.lk.write[i]]
    BY DEF ToSet
  <2>2. QED
    BY <2>1 DEF Tolerant, FirstIsStrongest
<1>2. WritersTolerate(s2)
  BY DEF Tolerant, WritersTolerate
<1>3. ReadersTolerate(s2)
  BY DEF Tolerant, ReadersTolerate
<1>4. QED
  BY <1>1, <1>2, <1>3 DEF Tolerant

\* The writers of other threads tolerate d if it reads with type ty.
MayRead(s, d, ty) ==
  \A w \in ToSet(s.lk.write) :
    Owner(w) # Owner(d) =>
      /\ s.ty[w] <= TL_WRITE_DELAYED
      /\ ~(s.ty[w] = TL_WRITE_CONCURRENT_INSERT /\ ty = TL_READ_NO_INSERT)

\* The locks in use of other threads and d tolerate each other if d writes with
\* type ty, and it is not stronger than the other writers.
MayWrite(s, d, ty) ==
  /\ \A w \in ToSet(s.lk.write) :
       /\ Owner(w) # Owner(d) => /\ s.ty[w] = TL_WRITE_ALLOW_WRITE
                                 /\ ty = TL_WRITE_ALLOW_WRITE
       /\ s.ty[w] >= ty \/ s.ty[w] >= TL_WRITE_LOW_PRIORITY
  /\ \A e \in ToSet(s.lk.read) :
       Owner(d) # Owner(e) =>
         /\ ty <= TL_WRITE_DELAYED
         /\ ~(ty = TL_WRITE_CONCURRENT_INSERT /\ s.ty[e] = TL_READ_NO_INSERT)

\* One more reader.
LEMMA ReaderTolerated ==
  ASSUME NEW s, NEW s2, Tolerant(s), NEW d,
         s2.lk.write = s.lk.write,
         ToSet(s2.lk.read) = ToSet(s.lk.read) \cup {d},
         \A e \in ToSet(s.lk.write) \cup ToSet(s.lk.read) : s2.ty[e] = s.ty[e],
         MayRead(s, d, s2.ty[d])
  PROVE  Tolerant(s2)
<1>1. FirstIsStrongest(s2)
  <2>1. \A i \in DOMAIN s.lk.write : s2.ty[s.lk.write[i]] = s.ty[s.lk.write[i]]
    BY DEF ToSet
  <2>2. QED
    BY <2>1 DEF Tolerant, FirstIsStrongest
<1>2. WritersTolerate(s2)
  BY DEF Tolerant, WritersTolerate
<1>3. ReadersTolerate(s2)
  BY DEF Tolerant, ReadersTolerate, MayRead
<1>4. QED
  BY <1>1, <1>2, <1>3 DEF Tolerant

\* One more writer, behind the others.
LEMMA WriterTolerated ==
  ASSUME NEW D, NEW s, NEW s2, Tolerant(s), s.lk.write \in Seq(D), NEW d \in D,
         s2.lk.write = Append(s.lk.write, d), s2.lk.read = s.lk.read,
         \A e \in ToSet(s.lk.write) \cup ToSet(s.lk.read) : s2.ty[e] = s.ty[e],
         MayWrite(s, d, s2.ty[d])
  PROVE  Tolerant(s2)
<1> DEFINE w2 == Append(s.lk.write, d)
<1>1. /\ ToSet(w2) = ToSet(s.lk.write) \cup {d}
      /\ \A i, j \in DOMAIN w2 :
           i < j => \/ /\ i \in DOMAIN s.lk.write /\ j \in DOMAIN s.lk.write
                       /\ w2[i] = s.lk.write[i] /\ w2[j] = s.lk.write[j]
                    \/ /\ i \in DOMAIN s.lk.write
                       /\ w2[i] = s.lk.write[i] /\ w2[j] = d
  BY AppendFacts
<1> HIDE DEF w2
<1>2. s2.lk.write = w2
  BY DEF w2
<1>3. \A i \in DOMAIN s.lk.write : s.lk.write[i] \in ToSet(s.lk.write)
  BY DEF ToSet
<1>4. FirstIsStrongest(s2)
  <2>1. SUFFICES ASSUME NEW i \in DOMAIN w2, NEW j \in DOMAIN w2, i < j
                 PROVE  \/ s2.ty[w2[i]] >= s2.ty[w2[j]]
                        \/ s2.ty[w2[i]] >= TL_WRITE_LOW_PRIORITY
    BY <1>2 DEF FirstIsStrongest
  <2>2. CASE /\ i \in DOMAIN s.lk.write /\ j \in DOMAIN s.lk.write
             /\ w2[i] = s.lk.write[i] /\ w2[j] = s.lk.write[j]
    BY <1>3, <2>1, <2>2 DEF Tolerant, FirstIsStrongest
  <2>3. CASE /\ i \in DOMAIN s.lk.write
             /\ w2[i] = s.lk.write[i] /\ w2[j] = d
    BY <1>3, <2>3 DEF MayWrite
  <2>4. QED
    BY <1>1, <2>1, <2>2, <2>3
<1>5. WritersTolerate(s2)
  BY <1>1, <1>2 DEF Tolerant, WritersTolerate, MayWrite
<1>6. ReadersTolerate(s2)
  BY <1>1, <1>2 DEF Tolerant, ReadersTolerate, MayWrite
<1>7. QED
  BY <1>4, <1>5, <1>6 DEF Tolerant

-----------------------------------------------------------------------------
(* thr_lock *)

\* A lock data that is TL_UNLOCK is on no list and does not wait.
LEMMA Unused ==
  ASSUME NEW D \in SUBSET Data, NEW s, Consistent(s, D), NEW d \in D,
         s.ty[d] = TL_UNLOCK
  PROVE  /\ d \notin ToSet(s.lk.read) /\ d \notin ToSet(s.lk.read_wait)
         /\ d \notin ToSet(s.lk.write) /\ d \notin ToSet(s.lk.write_wait)
         /\ ~s.cd[d]
<1>1. TL_UNLOCK \notin ReadTypes /\ TL_UNLOCK \notin WriteTypes
  BY TypeNumbers
<1>2. QED
  BY <1>1 DEF Consistent, Apart, Listed

\* thr_lock sets the type of the lock data first.
Requested(s, d, ty) == [s EXCEPT !.ty[d] = ty, !.cd[d] = FALSE]

\* Nothing else has changed then.
LEMMA RequestedFacts ==
  ASSUME NEW D \in SUBSET Data, NEW s \in States(D), NEW d \in D, NEW ty \in LockType
  PROVE  /\ Requested(s, d, ty) \in States(D)
         /\ Requested(s, d, ty).lk = s.lk
         /\ Requested(s, d, ty).ty = [s.ty EXCEPT ![d] = ty]
         /\ Requested(s, d, ty).cd = [s.cd EXCEPT ![d] = FALSE]
<1> DEFINE s2 == Requested(s, d, ty)
<1>1. /\ s.ty \in [Data -> Types] /\ s.cd \in [Data -> BOOLEAN] /\ d \in Data
      /\ s.lk \in LockRecord(D)
  BY Parts
<1>0. s2 = [s EXCEPT !.ty[d] = ty, !.cd[d] = FALSE]
  BY DEF Requested
<1> HIDE DEF s2
<1>2. /\ s2.lk = s.lk /\ s2.ty = [s.ty EXCEPT ![d] = ty]
      /\ s2.cd = [s.cd EXCEPT ![d] = FALSE]
      /\ s2 = [lk |-> s2.lk, ty |-> s2.ty, cd |-> s2.cd]
  BY <1>0 DEF States
<1>3. s2.ty \in [Data -> Types]
  <2>1. ty \in Types
    BY DEF Types
  <2>2. QED
    BY <1>1, <1>2, <2>1
<1>4. s2.cd \in [Data -> BOOLEAN]
  BY <1>1, <1>2
<1>5. s2 \in States(D)
  BY <1>1, <1>2, <1>3, <1>4 DEF States
<1>6. QED
  BY <1>2, <1>5 DEF s2

\* What becomes of the types and the conditions.
Set(s, s2, d, ty, c) ==
  /\ \A e \in Data : e # d => s2.ty[e] = s.ty[e] /\ s2.cd[e] = s.cd[e]
  /\ s2.ty[d] = ty /\ s2.cd[d] = c

\* A request waits behind the others, if the table is in use and, for a read
\* request, there is a writer to wait for.
LEMMA QueuedFacts ==
  ASSUME NEW D \in SUBSET Data, NEW s, TableInv(s, D), NEW d \in D,
         s.ty[d] = TL_UNLOCK, NEW ty \in LockType,
         s.lk.write = <<>> =>
           s.lk.read # <<>> /\ (IsRead(ty) => s.lk.write_wait # <<>>),
         NEW s2, s2 = Queued(Requested(s, d, ty), d, ty)
  PROVE  TableInv(s2, D) /\ Set(s, s2, d, ty, TRUE)
<1>1. /\ Consistent(s, D) /\ Tolerant(s) /\ NoneForgotten(s) /\ s \in States(D)
      /\ NoneTwice(s) /\ s.lk.read_no_write_count = Cardinality(NoInsertReaders(s))
  BY DEF TableInv, Consistent
<1>2. /\ s.lk \in LockRecord(D)
      /\ s.lk.read \in Seq(D) /\ s.lk.read_wait \in Seq(D)
      /\ s.lk.write \in Seq(D) /\ s.lk.write_wait \in Seq(D)
      /\ s.ty \in [Data -> Types] /\ s.cd \in [Data -> BOOLEAN] /\ d \in Data
  BY <1>1, Parts
<1>3. /\ d \notin ToSet(s.lk.read) /\ d \notin ToSet(s.lk.read_wait)
      /\ d \notin ToSet(s.lk.write) /\ d \notin ToSet(s.lk.write_wait)
  BY <1>1, Unused
<1>4. PICK s1 : s1 = Requested(s, d, ty)
  OBVIOUS
<1>5. /\ s1 \in States(D) /\ s1.lk = s.lk
      /\ s1.ty = [s.ty EXCEPT ![d] = ty] /\ s1.cd = [s.cd EXCEPT ![d] = FALSE]
  BY <1>1, <1>4, RequestedFacts
<1>6. PICK a, b : a = Append(s.lk.read_wait, d) /\ b = Append(s.lk.write_wait, d)
  OBVIOUS
<1>7. /\ a \in Seq(D) /\ ToSet(a) = ToSet(s.lk.read_wait) \cup {d} /\ IsInjective(a)
      /\ b \in Seq(D) /\ ToSet(b) = ToSet(s.lk.write_wait) \cup {d} /\ IsInjective(b)
      /\ a # <<>> /\ b # <<>>
  <2>1. IsInjective(s.lk.read_wait) /\ IsInjective(s.lk.write_wait)
    BY <1>1 DEF NoneTwice
  <2>2. ASSUME NEW x \in Seq(D), IsInjective(x), d \notin ToSet(x)
        PROVE  /\ Append(x, d) \in Seq(D) /\ Append(x, d) # <<>>
               /\ ToSet(Append(x, d)) = ToSet(x) \cup {d}
               /\ IsInjective(Append(x, d))
    BY <2>2, AppendFacts
  <2>3. QED
    BY <1>2, <1>3, <1>6, <2>1, <2>2
<1>8. IsRead(ty) <=> ty \in ReadTypes
  BY DEF ReadTypes
<1>9. ty \in WriteTypes <=> ~IsRead(ty)
  BY <1>8 DEF WriteTypes
<1>10. /\ s2.ty = s1.ty /\ s2.cd = [s1.cd EXCEPT ![d] = TRUE]
       /\ s2.lk = IF IsRead(ty) THEN [s.lk EXCEPT !.read_wait = a]
                                ELSE [s.lk EXCEPT !.write_wait = b]
       /\ s2 = [lk |-> s2.lk, ty |-> s2.ty, cd |-> s2.cd]
  <2>1. s2 = Queued(s1, d, ty)
    BY <1>4
  <2>2. CASE IsRead(ty)
    <3>1. s2 = [[s1 EXCEPT !.cd[d] = TRUE] EXCEPT !.lk.read_wait = a]
      BY <1>5, <1>6, <2>1, <2>2 DEF Queued, States
    <3>2. QED
      BY <1>5, <2>2, <3>1 DEF States
  <2>3. CASE ~IsRead(ty)
    <3>1. s2 = [[s1 EXCEPT !.cd[d] = TRUE] EXCEPT !.lk.write_wait = b]
      BY <1>5, <1>6, <2>1, <2>3 DEF Queued, States
    <3>2. QED
      BY <1>5, <2>3, <3>1 DEF States
  <2>4. QED
    BY <2>2, <2>3
<1>11. s2.ty = [s.ty EXCEPT ![d] = ty] /\ s2.cd = [s.cd EXCEPT ![d] = TRUE]
  BY <1>2, <1>5, <1>10
<1>12. /\ s2.lk.read = s.lk.read /\ s2.lk.write = s.lk.write
       /\ s2.lk.read_wait = IF IsRead(ty) THEN a ELSE s.lk.read_wait
       /\ s2.lk.write_wait = IF IsRead(ty) THEN s.lk.write_wait ELSE b
       /\ s2.lk.read_no_write_count = s.lk.read_no_write_count
       /\ s2.lk \in LockRecord(D)
  BY <1>2, <1>7, <1>10 DEF LockRecord
<1>13. s2 \in States(D)
  <2>1. s2.ty \in [Data -> Types]
    BY <1>2, <1>11 DEF Types
  <2>2. s2.cd \in [Data -> BOOLEAN]
    BY <1>2, <1>11
  <2>3. QED
    BY <1>10, <1>12, <2>1, <2>2 DEF States
<1>14. /\ \A e \in Data : e # d => s2.ty[e] = s.ty[e] /\ s2.cd[e] = s.cd[e]
       /\ s2.ty[d] = ty /\ s2.cd[d] = TRUE
  BY <1>2, <1>11
<1>15. NoneTwice(s2)
  BY <1>1, <1>7, <1>12 DEF NoneTwice
<1>16. Placed(s, s2, d, ty, TRUE)
  <2>1. /\ ToSet(s2.lk.read) = ToSet(s.lk.read)
        /\ ToSet(s2.lk.write) = ToSet(s.lk.write)
        /\ ToSet(s2.lk.read_wait) =
             ToSet(s.lk.read_wait) \cup (IF IsRead(ty) THEN {d} ELSE {})
        /\ ToSet(s2.lk.write_wait) =
             ToSet(s.lk.write_wait) \cup (IF IsRead(ty) THEN {} ELSE {d})
    BY <1>7, <1>12
  <2>2. QED
    BY <1>3, <1>8, <1>9, <1>14, <2>1 DEF Placed
<1>17. \A e \in ToSet(s.lk.write) \cup ToSet(s.lk.read) : s2.ty[e] = s.ty[e]
  <2>1. ToSet(s.lk.write) \subseteq Data /\ ToSet(s.lk.read) \subseteq Data
    BY <1>2, HeadFacts
  <2>2. QED
    BY <1>3, <1>14, <2>1
<1>18. NoInsertReaders(s2) = NoInsertReaders(s)
  BY <1>12, <1>17 DEF NoInsertReaders
<1>19. Consistent(s2, D)
  BY <1>1, <1>12, <1>13, <1>15, <1>16, <1>18, PlacedFacts
<1>20. Tolerant(s2)
  BY <1>1, <1>12, <1>17, SameActive
<1>21. NoneForgotten(s2)
  BY <1>1, <1>7, <1>12 DEF NoneForgotten
<1>22. QED
  BY <1>14, <1>19, <1>20, <1>21 DEF TableInv, Set

\* A read request becomes active, if the writers of other threads tolerate it.
LEMMA ReadGranted ==
  ASSUME NEW D \in SUBSET Data, NEW s, TableInv(s, D), NEW d \in D,
         s.ty[d] = TL_UNLOCK, NEW ty \in LockType, IsRead(ty),
         MayRead(s, d, ty),
         NEW s2, s2 = Granted(Requested(s, d, ty), d, ty)
  PROVE  TableInv(s2, D) /\ Set(s, s2, d, ty, FALSE)
<1>1. /\ Consistent(s, D) /\ Tolerant(s) /\ NoneForgotten(s) /\ s \in States(D)
      /\ NoneTwice(s) /\ s.lk.read_no_write_count = Cardinality(NoInsertReaders(s))
  BY DEF TableInv, Consistent
<1>2. /\ s.lk \in LockRecord(D)
      /\ s.lk.read \in Seq(D) /\ s.lk.read_wait \in Seq(D)
      /\ s.lk.write \in Seq(D) /\ s.lk.write_wait \in Seq(D)
      /\ s.lk.read_no_write_count \in Nat
      /\ s.ty \in [Data -> Types] /\ s.cd \in [Data -> BOOLEAN] /\ d \in Data
  BY <1>1, Parts
<1>3. /\ d \notin ToSet(s.lk.read) /\ d \notin ToSet(s.lk.read_wait)
      /\ d \notin ToSet(s.lk.write) /\ d \notin ToSet(s.lk.write_wait)
  BY <1>1, Unused
<1>4. PICK s1 : s1 = Requested(s, d, ty)
  OBVIOUS
<1>5. /\ s1 \in States(D) /\ s1.lk = s.lk
      /\ s1.ty = [s.ty EXCEPT ![d] = ty] /\ s1.cd = [s.cd EXCEPT ![d] = FALSE]
  BY <1>1, <1>4, RequestedFacts
<1>6. PICK a, n : /\ a = Append(s.lk.read, d)
                  /\ n = s.lk.read_no_write_count
                           + (IF ty = TL_READ_NO_INSERT THEN 1 ELSE 0)
  OBVIOUS
<1>7. /\ a \in Seq(D) /\ ToSet(a) = ToSet(s.lk.read) \cup {d} /\ IsInjective(a)
      /\ a # <<>> /\ n \in Nat
  <2>1. IsInjective(s.lk.read)
    BY <1>1 DEF NoneTwice
  <2>2. QED
    BY <1>2, <1>3, <1>6, <2>1, AppendFacts
<1>8. ty \in ReadTypes /\ ty \notin WriteTypes
  BY DEF ReadTypes, WriteTypes
<1>9. /\ s2.ty = s1.ty /\ s2.cd = s1.cd
      /\ s2.lk = [s.lk EXCEPT !.read = a, !.read_no_write_count = n]
      /\ s2 = [lk |-> s2.lk, ty |-> s2.ty, cd |-> s2.cd]
  <2>1. s2 = Granted(s1, d, ty)
    BY <1>4
  <2>2. s2 = [s1 EXCEPT !.lk.read = a, !.lk.read_no_write_count = n]
    BY <1>5, <1>6, <2>1 DEF Granted, States
  <2>3. QED
    BY <1>5, <2>2 DEF States
<1>10. s2.ty = [s.ty EXCEPT ![d] = ty] /\ s2.cd = [s.cd EXCEPT ![d] = FALSE]
  BY <1>2, <1>5, <1>9
<1>11. /\ s2.lk.read = a /\ s2.lk.write = s.lk.write
       /\ s2.lk.read_wait = s.lk.read_wait /\ s2.lk.write_wait = s.lk.write_wait
       /\ s2.lk.read_no_write_count = n
       /\ s2.lk \in LockRecord(D)
  BY <1>2, <1>7, <1>9 DEF LockRecord
<1>12. s2 \in States(D)
  BY <1>5, <1>9, <1>11 DEF States
<1>13. /\ \A e \in Data : e # d => s2.ty[e] = s.ty[e] /\ s2.cd[e] = s.cd[e]
       /\ s2.ty[d] = ty /\ s2.cd[d] = FALSE
  BY <1>2, <1>10
<1>14. NoneTwice(s2)
  BY <1>1, <1>7, <1>11 DEF NoneTwice
<1>15. Placed(s, s2, d, ty, FALSE)
  <2>1. /\ ToSet(s2.lk.read) = ToSet(s.lk.read) \cup {d}
        /\ ToSet(s2.lk.write) = ToSet(s.lk.write)
        /\ ToSet(s2.lk.read_wait) = ToSet(s.lk.read_wait)
        /\ ToSet(s2.lk.write_wait) = ToSet(s.lk.write_wait)
    BY <1>7, <1>11
  <2>2. QED
    BY <1>3, <1>8, <1>13, <2>1 DEF Placed
<1>16. \A e \in ToSet(s.lk.write) \cup ToSet(s.lk.read) : s2.ty[e] = s.ty[e]
  <2>1. ToSet(s.lk.write) \subseteq Data /\ ToSet(s.lk.read) \subseteq Data
    BY <1>2, HeadFacts
  <2>2. QED
    BY <1>3, <1>13, <2>1
<1>17. n = Cardinality(NoInsertReaders(s2))
  <2>1. NoInsertReaders(s2) = NoInsertReaders(s)
                                \cup (IF ty = TL_READ_NO_INSERT THEN {d} ELSE {})
    BY <1>7, <1>11, <1>13, <1>16 DEF NoInsertReaders
  <2>2. IsFiniteSet(NoInsertReaders(s))
    <3>1. IsFiniteSet(ToSet(s.lk.read))
      BY <1>2, CountFacts
    <3>2. QED
      BY <3>1, FS_Subset DEF NoInsertReaders
  <2>3. d \notin NoInsertReaders(s)
    BY <1>3 DEF NoInsertReaders
  <2>4. Cardinality(NoInsertReaders(s) \cup {d}) = Cardinality(NoInsertReaders(s)) + 1
    BY <2>2, <2>3, FS_AddElement
  <2>5. CASE ty = TL_READ_NO_INSERT
    BY <1>1, <1>6, <2>1, <2>4, <2>5
  <2>6. CASE ty # TL_READ_NO_INSERT
    <3>1. NoInsertReaders(s2) = NoInsertReaders(s)
      BY <2>1, <2>6
    <3>2. n = s.lk.read_no_write_count
      BY <1>2, <1>6, <2>6
    <3>3. QED
      BY <1>1, <3>1, <3>2
  <2>7. QED
    BY <2>5, <2>6
<1>18. Consistent(s2, D)
  BY <1>1, <1>11, <1>12, <1>14, <1>15, <1>17, PlacedFacts
<1>19. Tolerant(s2)
  BY <1>1, <1>7, <1>11, <1>13, <1>16, ReaderTolerated
<1>20. NoneForgotten(s2)
  BY <1>1, <1>7, <1>11 DEF NoneForgotten
<1>21. QED
  BY <1>13, <1>18, <1>19, <1>20 DEF TableInv, Set

\* A write request becomes active, if the locks in use of other threads and it
\* tolerate each other and it is not stronger than the other writers.
LEMMA WriteGranted ==
  ASSUME NEW D \in SUBSET Data, NEW s, TableInv(s, D), NEW d \in D,
         s.ty[d] = TL_UNLOCK, NEW ty \in LockType, ~IsRead(ty),
         MayWrite(s, d, ty),
         NEW s2, s2 = Granted(Requested(s, d, ty), d, ty)
  PROVE  TableInv(s2, D) /\ Set(s, s2, d, ty, FALSE)
<1>1. /\ Consistent(s, D) /\ Tolerant(s) /\ NoneForgotten(s) /\ s \in States(D)
      /\ NoneTwice(s) /\ s.lk.read_no_write_count = Cardinality(NoInsertReaders(s))
  BY DEF TableInv, Consistent
<1>2. /\ s.lk \in LockRecord(D)
      /\ s.lk.read \in Seq(D) /\ s.lk.read_wait \in Seq(D)
      /\ s.lk.write \in Seq(D) /\ s.lk.write_wait \in Seq(D)
      /\ s.ty \in [Data -> Types] /\ s.cd \in [Data -> BOOLEAN] /\ d \in Data
  BY <1>1, Parts
<1>3. /\ d \notin ToSet(s.lk.read) /\ d \notin ToSet(s.lk.read_wait)
      /\ d \notin ToSet(s.lk.write) /\ d \notin ToSet(s.lk.write_wait)
  BY <1>1, Unused
<1>4. PICK s1 : s1 = Requested(s, d, ty)
  OBVIOUS
<1>5. /\ s1 \in States(D) /\ s1.lk = s.lk
      /\ s1.ty = [s.ty EXCEPT ![d] = ty] /\ s1.cd = [s.cd EXCEPT ![d] = FALSE]
  BY <1>1, <1>4, RequestedFacts
<1>6. PICK a : a = Append(s.lk.write, d)
  OBVIOUS
<1>7. /\ a \in Seq(D) /\ ToSet(a) = ToSet(s.lk.write) \cup {d} /\ IsInjective(a)
      /\ a # <<>>
  <2>1. IsInjective(s.lk.write)
    BY <1>1 DEF NoneTwice
  <2>2. QED
    BY <1>2, <1>3, <1>6, <2>1, AppendFacts
<1>8. ty \notin ReadTypes /\ ty \in WriteTypes
  BY DEF ReadTypes, WriteTypes
<1>9. /\ s2.ty = s1.ty /\ s2.cd = s1.cd
      /\ s2.lk = [s.lk EXCEPT !.write = a]
      /\ s2 = [lk |-> s2.lk, ty |-> s2.ty, cd |-> s2.cd]
  <2>1. s2 = Granted(s1, d, ty)
    BY <1>4
  <2>2. s2 = [s1 EXCEPT !.lk.write = a]
    BY <1>5, <1>6, <2>1 DEF Granted, States
  <2>3. QED
    BY <1>5, <2>2 DEF States
<1>10. s2.ty = [s.ty EXCEPT ![d] = ty] /\ s2.cd = [s.cd EXCEPT ![d] = FALSE]
  BY <1>2, <1>5, <1>9
<1>11. /\ s2.lk.read = s.lk.read /\ s2.lk.write = a
       /\ s2.lk.read_wait = s.lk.read_wait /\ s2.lk.write_wait = s.lk.write_wait
       /\ s2.lk.read_no_write_count = s.lk.read_no_write_count
       /\ s2.lk \in LockRecord(D)
  BY <1>2, <1>7, <1>9 DEF LockRecord
<1>12. s2 \in States(D)
  BY <1>5, <1>9, <1>11 DEF States
<1>13. /\ \A e \in Data : e # d => s2.ty[e] = s.ty[e] /\ s2.cd[e] = s.cd[e]
       /\ s2.ty[d] = ty /\ s2.cd[d] = FALSE
  BY <1>2, <1>10
<1>14. NoneTwice(s2)
  BY <1>1, <1>7, <1>11 DEF NoneTwice
<1>15. Placed(s, s2, d, ty, FALSE)
  <2>1. /\ ToSet(s2.lk.read) = ToSet(s.lk.read)
        /\ ToSet(s2.lk.write) = ToSet(s.lk.write) \cup {d}
        /\ ToSet(s2.lk.read_wait) = ToSet(s.lk.read_wait)
        /\ ToSet(s2.lk.write_wait) = ToSet(s.lk.write_wait)
    BY <1>7, <1>11
  <2>2. QED
    BY <1>3, <1>8, <1>13, <2>1 DEF Placed
<1>16. \A e \in ToSet(s.lk.write) \cup ToSet(s.lk.read) : s2.ty[e] = s.ty[e]
  <2>1. ToSet(s.lk.write) \subseteq Data /\ ToSet(s.lk.read) \subseteq Data
    BY <1>2, HeadFacts
  <2>2. QED
    BY <1>3, <1>13, <2>1
<1>17. NoInsertReaders(s2) = NoInsertReaders(s)
  BY <1>11, <1>16 DEF NoInsertReaders
<1>18. Consistent(s2, D)
  BY <1>1, <1>11, <1>12, <1>14, <1>15, <1>17, PlacedFacts
<1>19. Tolerant(s2)
  <2>1. s2.lk.write = Append(s.lk.write, d) /\ s2.lk.read = s.lk.read
    BY <1>6, <1>11
  <2>2. MayWrite(s, d, s2.ty[d])
    BY <1>13
  <2>3. QED
    BY <1>1, <1>2, <1>16, <2>1, <2>2, WriterTolerated
<1>20. NoneForgotten(s2)
  BY <1>1, <1>7, <1>11 DEF NoneForgotten
<1>21. QED
  BY <1>13, <1>18, <1>19, <1>20 DEF TableInv, Set

\* A thread that writes as INSERT DELAYED has no other lock.
DelayedAlone(s) ==
  \A w, x \in ToSet(s.lk.write) :
    s.ty[w] = TL_WRITE_DELAYED /\ Owner(w) = Owner(x) => w = x

\* The write locks its thread already has are at least as strong as the request
\* d with type ty.
OldLocksStronger(s, d, ty) ==
  \A o \in ToSet(s.lk.write) :
    Owner(o) = Owner(d) =>
      \/ s.ty[o] >= TL_WRITE_LOW_PRIORITY
      \/ s.ty[o] >= ty /\ s.ty[o] # TL_WRITE_DELAYED

\* From s to s1 only the type of d, which is on no list, has changed.
KeepsTypes(s, s1, d, D) ==
  /\ s1.lk = s.lk
  /\ \A e \in Data : e # d => s1.ty[e] = s.ty[e]
  /\ \A e \in ToSet(s.lk.write) : s1.ty[e] = s.ty[e] /\ s.ty[e] \in WriteTypes
  /\ s.lk.write \in Seq(D)
  /\ s.lk.write # <<>> => Head(s.lk.write) \in ToSet(s.lk.write)

\* The types of the active locks are not changed by the request.
LEMMA RequestKeepsTypes ==
  ASSUME NEW D \in SUBSET Data, NEW s, TableInv(s, D), NEW d \in D,
         s.ty[d] = TL_UNLOCK, NEW ty \in LockType
  PROVE  KeepsTypes(s, Requested(s, d, ty), d, D)
<1>0. PICK s1 : s1 = Requested(s, d, ty)
  OBVIOUS
<1>1. Consistent(s, D) /\ s \in States(D) /\ Apart(s)
  BY DEF TableInv, Consistent
<1>2. s.lk.write \in Seq(D) /\ s.ty \in [Data -> Types] /\ d \in Data
  BY <1>1, Parts
<1>3. /\ s1 \in States(D) /\ s1.lk = s.lk
      /\ s1.ty = [s.ty EXCEPT ![d] = ty] /\ s1.cd = [s.cd EXCEPT ![d] = FALSE]
  BY <1>0, <1>1, RequestedFacts
<1>4. d \notin ToSet(s.lk.write)
  BY <1>1, Unused
<1>5. ToSet(s.lk.write) \subseteq D
  BY <1>2, HeadFacts
<1>6. \A e \in Data : e # d => s1.ty[e] = s.ty[e]
  BY <1>2, <1>3
<1>7. \A e \in ToSet(s.lk.write) : s1.ty[e] = s.ty[e] /\ s.ty[e] \in WriteTypes
  BY <1>1, <1>4, <1>5, <1>6 DEF Apart
<1>8. s.lk.write # <<>> => Head(s.lk.write) \in ToSet(s.lk.write)
  BY <1>2, HeadFacts
<1>9. QED
  BY <1>0, <1>2, <1>3, <1>6, <1>7, <1>8 DEF KeepsTypes

\* The first writer is the strongest.
LEMMA HeadIsStrongest ==
  ASSUME NEW D, NEW s, FirstIsStrongest(s), s.lk.write \in Seq(D),
         s.lk.write # <<>>, NEW w \in ToSet(s.lk.write),
         \A e \in ToSet(s.lk.write) : s.ty[e] \in WriteTypes
  PROVE  \/ s.ty[Head(s.lk.write)] >= s.ty[w]
         \/ s.ty[Head(s.lk.write)] >= TL_WRITE_LOW_PRIORITY
<1>1. 1 \in DOMAIN s.lk.write /\ Head(s.lk.write) = s.lk.write[1]
  BY HeadFacts
<1>2. PICK i \in DOMAIN s.lk.write : w = s.lk.write[i]
  BY DEF ToSet
<1>3. i \in Nat /\ i >= 1
  BY LenProperties
<1>4. CASE i = 1
  <2>1. s.ty[w] \in WriteTypes
    OBVIOUS
  <2>2. QED
    BY <1>1, <1>2, <1>4, <2>1, TypeNumbers
<1>5. CASE i # 1
  BY <1>1, <1>2, <1>3, <1>5 DEF FirstIsStrongest
<1>6. QED
  BY <1>4, <1>5

\* What thr_lock asks before it gives a read lock is enough.
LEMMA CanReadFacts ==
  ASSUME NEW D \in SUBSET Data, NEW s, TableInv(s, D), NEW d \in D,
         s.ty[d] = TL_UNLOCK, NEW ty \in LockType, IsRead(ty), DelayedAlone(s),
         NEW s1, s1 = Requested(s, d, ty), CanRead(s1, Owner(d), ty)
  PROVE  MayRead(s, d, ty)
<1>1. Tolerant(s)
  BY DEF TableInv
<1>2. /\ s1.lk = s.lk
      /\ \A e \in ToSet(s.lk.write) : s1.ty[e] = s.ty[e] /\ s.ty[e] \in WriteTypes
      /\ s.lk.write \in Seq(D)
      /\ s.lk.write # <<>> => Head(s.lk.write) \in ToSet(s.lk.write)
  <2>1. KeepsTypes(s, s1, d, D)
    BY RequestKeepsTypes
  <2>2. QED
    BY <2>1 DEF KeepsTypes
<1>3. SUFFICES ASSUME NEW w \in ToSet(s.lk.write), Owner(w) # Owner(d)
               PROVE  /\ s.ty[w] <= TL_WRITE_DELAYED
                      /\ ~(s.ty[w] = TL_WRITE_CONCURRENT_INSERT
                           /\ ty = TL_READ_NO_INSERT)
  BY DEF MayRead
<1>4. s.lk.write # <<>>
  BY <1>2, HeadFacts
<1>5. PICK h : h = Head(s.lk.write)
  OBVIOUS
<1>6. h \in ToSet(s.lk.write) /\ s.ty[h] \in WriteTypes /\ s.ty[w] \in WriteTypes
  BY <1>2, <1>4, <1>5
<1>7. \/ Owner(h) = Owner(d)
      \/ /\ s.ty[h] <= TL_WRITE_DELAYED
         /\ ty <= TL_READ_HIGH_PRIORITY \/ s.ty[h] # TL_WRITE_CONCURRENT_INSERT
  BY <1>2, <1>4, <1>5, <1>6 DEF CanRead
<1>8. CASE Owner(h) # Owner(w)
  <2>1. s.ty[w] = TL_WRITE_ALLOW_WRITE
    BY <1>1, <1>6, <1>8 DEF Tolerant, WritersTolerate
  <2>2. QED
    BY <2>1, TypeNumbers
<1>9. CASE Owner(h) = Owner(w)
  <2>1. /\ s.ty[h] <= TL_WRITE_DELAYED
        /\ ty <= TL_READ_HIGH_PRIORITY \/ s.ty[h] # TL_WRITE_CONCURRENT_INSERT
    BY <1>3, <1>7, <1>9
  <2>2. s.ty[h] >= s.ty[w] \/ s.ty[h] >= TL_WRITE_LOW_PRIORITY
    BY <1>1, <1>2, <1>4, <1>5, HeadIsStrongest DEF Tolerant
  <2>3. s.ty[h] = TL_WRITE_DELAYED => h = w
    BY <1>6, <1>9 DEF DelayedAlone
  <2>4. QED
    BY <1>6, <2>1, <2>2, <2>3, TypeNumbers
<1>10. QED
  BY <1>8, <1>9

\* What thr_lock asks before it gives a write lock is enough.
LEMMA CanWriteFacts ==
  ASSUME NEW D \in SUBSET Data, NEW s, TableInv(s, D), NEW d \in D,
         s.ty[d] = TL_UNLOCK, NEW ty \in LockType, ~IsRead(ty),
         OldLocksStronger(s, d, ty),
         NEW s1, s1 = Requested(s, d, ty), CanWrite(s1, Owner(d), ty)
  PROVE  MayWrite(s, d, ty)
<1>1. Tolerant(s) /\ Consistent(s, D)
  BY DEF TableInv
<1>2. /\ s1.lk = s.lk
      /\ \A e \in ToSet(s.lk.write) : s1.ty[e] = s.ty[e] /\ s.ty[e] \in WriteTypes
      /\ s.lk.write \in Seq(D)
      /\ s.lk.write # <<>> => Head(s.lk.write) \in ToSet(s.lk.write)
  <2>1. KeepsTypes(s, s1, d, D)
    BY RequestKeepsTypes
  <2>2. QED
    BY <2>1 DEF KeepsTypes
<1>3. ty \in WriteTypes
  BY DEF WriteTypes, ReadTypes
<1>4. CASE s.lk.write = <<>>
  <2>1. ToSet(s.lk.write) = {}
    BY <1>2, <1>4, HeadFacts
  <2>2. s.lk.read = <<>> \/ StartsWithReaders(s1, ty)
    BY <1>2, <1>4 DEF CanWrite
  <2>3. CASE s.lk.read = <<>>
    <3>1. ToSet(s.lk.read) = {}
      BY <1>1, <2>3, Parts, HeadFacts DEF Consistent
    <3>2. QED
      BY <2>1, <3>1 DEF MayWrite
  <2>4. CASE StartsWithReaders(s1, ty)
    <3>1. /\ ty <= TL_WRITE_DELAYED
          /\ ty = TL_WRITE_CONCURRENT_INSERT => s.lk.read_no_write_count = 0
      BY <1>2, <2>4 DEF StartsWithReaders, InsertsConcurrently
    <3>2. s.lk.read_no_write_count = 0 => NoInsertReaders(s) = {}
      <4>1. IsFiniteSet(ToSet(s.lk.read))
        BY <1>1, Parts, CountFacts DEF Consistent
      <4>2. IsFiniteSet(NoInsertReaders(s))
        BY <4>1, FS_Subset DEF NoInsertReaders
      <4>3. QED
        BY <1>1, <4>2, FS_EmptySet DEF Consistent
    <3>3. QED
      BY <2>1, <3>1, <3>2 DEF MayWrite, NoInsertReaders
  <2>5. QED
    BY <2>2, <2>3, <2>4
<1>5. ASSUME s.lk.write # <<>>, ty = TL_WRITE_ALLOW_WRITE,
             s1.ty[Head(s.lk.write)] = TL_WRITE_ALLOW_WRITE
      PROVE  MayWrite(s, d, ty)
  <2>1. ASSUME NEW w \in ToSet(s.lk.write) PROVE s.ty[w] = TL_WRITE_ALLOW_WRITE
    <3>1. s.ty[Head(s.lk.write)] = TL_WRITE_ALLOW_WRITE /\ s.ty[w] \in WriteTypes
      BY <1>2, <1>5
    <3>2. \/ s.ty[Head(s.lk.write)] >= s.ty[w]
          \/ s.ty[Head(s.lk.write)] >= TL_WRITE_LOW_PRIORITY
      BY <1>1, <1>2, <1>5, HeadIsStrongest DEF Tolerant
    <3>3. QED
      BY <3>1, <3>2, TypeNumbers
  <2>2. QED
    BY <1>5, <2>1, TypeNumbers DEF MayWrite
<1>6. ASSUME s.lk.write # <<>>, HasOldLock(s.lk.write, Owner(d))
      PROVE  MayWrite(s, d, ty)
  <2>1. PICK o \in ToSet(s.lk.write) : Owner(o) = Owner(d)
    BY <1>6 DEF HasOldLock
  <2>2. /\ s.ty[o] \in WriteTypes
        /\ \/ s.ty[o] >= TL_WRITE_LOW_PRIORITY
           \/ s.ty[o] >= ty /\ s.ty[o] # TL_WRITE_DELAYED
    BY <1>2, <2>1 DEF OldLocksStronger
  <2>3. ASSUME NEW w \in ToSet(s.lk.write)
        PROVE  /\ Owner(w) # Owner(d) => /\ s.ty[w] = TL_WRITE_ALLOW_WRITE
                                         /\ ty = TL_WRITE_ALLOW_WRITE
               /\ s.ty[w] >= ty \/ s.ty[w] >= TL_WRITE_LOW_PRIORITY
    <3>1. CASE Owner(w) = Owner(d)
      BY <3>1 DEF OldLocksStronger
    <3>2. CASE Owner(w) # Owner(d)
      <4>1. s.ty[w] = TL_WRITE_ALLOW_WRITE /\ s.ty[o] = TL_WRITE_ALLOW_WRITE
        BY <1>1, <2>1, <3>2 DEF Tolerant, WritersTolerate
      <4>2. QED
        BY <1>3, <2>2, <4>1, TypeNumbers
    <3>3. QED
      BY <3>1, <3>2
  <2>4. ASSUME NEW e \in ToSet(s.lk.read), Owner(d) # Owner(e)
        PROVE  /\ ty <= TL_WRITE_DELAYED
               /\ ~(ty = TL_WRITE_CONCURRENT_INSERT /\ s.ty[e] = TL_READ_NO_INSERT)
    <3>1. /\ s.ty[o] <= TL_WRITE_DELAYED
          /\ ~(s.ty[o] = TL_WRITE_CONCURRENT_INSERT /\ s.ty[e] = TL_READ_NO_INSERT)
      BY <1>1, <2>1, <2>4 DEF Tolerant, ReadersTolerate
    <3>2. QED
      BY <1>3, <2>2, <3>1, TypeNumbers
  <2>5. QED
    BY <2>3, <2>4 DEF MayWrite
<1>7. QED
  BY <1>2, <1>4, <1>5, <1>6 DEF CanWrite

\* Whether thr_lock gives a lock at once.
AtOnce(s, t, ty) == IF IsRead(ty) THEN CanRead(s, t, ty) ELSE CanWrite(s, t, ty)

\* The table is in order after the request has been made active, or has been
\* put in the queue, whichever thr_lock does.
InOrderAfter(s, s1, d, ty, D) ==
  /\ AtOnce(s1, Owner(d), ty) =>
       /\ TableInv(Granted(s1, d, ty), D)
       /\ Set(s, Granted(s1, d, ty), d, ty, FALSE)
  /\ \/ ~AtOnce(s1, Owner(d), ty)
     \/ ty = TL_WRITE_DELAYED /\ (s1.lk.write # <<>> \/ s1.lk.read # <<>>)
     => /\ TableInv(Queued(s1, d, ty), D)
        /\ Set(s, Queued(s1, d, ty), d, ty, TRUE)

\* thr_lock either makes the request active or puts it in the queue, and the
\* table is in order afterwards.
LEMMA LockFacts ==
  ASSUME NEW D \in SUBSET Data, NEW s, TableInv(s, D), NEW d \in D,
         s.ty[d] = TL_UNLOCK, NEW ty \in LockType, DelayedAlone(s),
         ~IsRead(ty) => OldLocksStronger(s, d, ty),
         NEW s1, s1 = Requested(s, d, ty)
  PROVE  InOrderAfter(s, s1, d, ty, D)
<1>1. s1.lk = s.lk
  <2>1. KeepsTypes(s, s1, d, D)
    BY RequestKeepsTypes
  <2>2. QED
    BY <2>1 DEF KeepsTypes
<1>2. ASSUME AtOnce(s1, Owner(d), ty), IsRead(ty)
      PROVE  /\ TableInv(Granted(s1, d, ty), D)
             /\ Set(s, Granted(s1, d, ty), d, ty, FALSE)
  <2>1. CanRead(s1, Owner(d), ty)
    BY <1>2 DEF AtOnce
  <2>2. MayRead(s, d, ty)
    BY <1>2, <2>1, CanReadFacts
  <2>3. QED
    BY <1>2, <2>2, ReadGranted
<1>3. ASSUME AtOnce(s1, Owner(d), ty), ~IsRead(ty)
      PROVE  /\ TableInv(Granted(s1, d, ty), D)
             /\ Set(s, Granted(s1, d, ty), d, ty, FALSE)
  <2>1. CanWrite(s1, Owner(d), ty)
    BY <1>3 DEF AtOnce
  <2>2. MayWrite(s, d, ty)
    BY <1>3, <2>1, CanWriteFacts
  <2>3. QED
    BY <1>3, <2>2, WriteGranted
<1>4. ASSUME \/ ~AtOnce(s1, Owner(d), ty)
             \/ ty = TL_WRITE_DELAYED /\ (s1.lk.write # <<>> \/ s1.lk.read # <<>>)
      PROVE  /\ TableInv(Queued(s1, d, ty), D)
             /\ Set(s, Queued(s1, d, ty), d, ty, TRUE)
  <2>1. NoneForgotten(s)
    BY DEF TableInv
  <2>2. CASE IsRead(ty)
    <3>1. ty # TL_WRITE_DELAYED
      BY <2>2, TypeNumbers DEF IsRead
    <3>2. ~CanRead(s1, Owner(d), ty)
      BY <1>4, <2>2, <3>1 DEF AtOnce
    <3>3. s.lk.write = <<>> => s.lk.write_wait # <<>>
      BY <1>1, <3>2 DEF CanRead
    <3>4. s.lk.write = <<>> =>
            s.lk.read # <<>> /\ (IsRead(ty) => s.lk.write_wait # <<>>)
      BY <2>1, <3>3 DEF NoneForgotten
    <3>5. QED
      BY <3>4, QueuedFacts
  <2>3. CASE ~IsRead(ty)
    <3>1. \/ ~CanWrite(s1, Owner(d), ty)
          \/ s.lk.write # <<>> \/ s.lk.read # <<>>
      BY <1>1, <1>4, <2>3 DEF AtOnce
    <3>2. s.lk.write = <<>> =>
            s.lk.read # <<>> /\ (IsRead(ty) => s.lk.write_wait # <<>>)
      BY <1>1, <2>1, <2>3, <3>1 DEF CanWrite, NoneForgotten
    <3>3. QED
      BY <3>2, QueuedFacts
  <2>4. QED
    BY <2>2, <2>3
<1>5. QED
  BY <1>2, <1>3, <1>4 DEF InOrderAfter
-----------------------------------------------------------------------------
(* INSERT DELAYED *)

\* The lock data d gets the type n.
Retype(s, d, n) == [s EXCEPT !.ty[d] = n]

\* From s to s2 that has happened, and the lists agree with the data.
Retyped(s, s2, d, n, D) ==
  /\ Consistent(s2, D)
  /\ s2.lk = s.lk /\ s2.cd = s.cd /\ s2.ty = [s.ty EXCEPT ![d] = n]

\* The type of a writer may be changed in place.
LEMMA RetypedFacts ==
  ASSUME NEW D \in SUBSET Data, NEW s, Consistent(s, D), NEW d \in D,
         s.ty[d] \in WriteTypes, NEW n \in WriteTypes,
         NEW s2, s2 = Retype(s, d, n)
  PROVE  Retyped(s, s2, d, n, D)
<1>1. /\ s \in States(D) /\ NoneTwice(s) /\ Apart(s) /\ Listed(s, D)
      /\ s.lk.read_no_write_count = Cardinality(NoInsertReaders(s))
  BY DEF Consistent
<1>2. /\ s.lk \in LockRecord(D) /\ s.ty \in [Data -> Types]
      /\ s.cd \in [Data -> BOOLEAN] /\ d \in Data /\ s.lk.read \in Seq(D)
  BY <1>1, Parts
<1>3. /\ s2.lk = s.lk /\ s2.cd = s.cd /\ s2.ty = [s.ty EXCEPT ![d] = n]
      /\ s2 = [lk |-> s2.lk, ty |-> s2.ty, cd |-> s2.cd]
  BY <1>1 DEF States, Retype
<1>4. n \in LockType /\ n \in Types /\ n \notin ReadTypes
  BY DEF WriteTypes, Types
<1>5. s2 \in States(D)
  <2>1. s2.ty \in [Data -> Types]
    BY <1>2, <1>3, <1>4
  <2>2. QED
    BY <1>2, <1>3, <2>1 DEF States
<1>6. NoneTwice(s2)
  BY <1>1, <1>3 DEF NoneTwice
<1>7. /\ d \notin ToSet(s.lk.read) /\ d \notin ToSet(s.lk.read_wait)
      /\ d \in ToSet(s.lk.write) <=> ~s.cd[d]
      /\ d \in ToSet(s.lk.write_wait) <=> s.cd[d]
  <2>1. ReadTypes \cap WriteTypes = {} /\ TL_UNLOCK \notin WriteTypes
    BY TypeNumbers
  <2>2. d \notin ToSet(s.lk.read) /\ d \notin ToSet(s.lk.read_wait)
    BY <1>1, <2>1 DEF Apart
  <2>3. d \in ToSet(s.lk.write) \cup ToSet(s.lk.write_wait)
    BY <1>1, <2>1, <2>2 DEF Listed
  <2>4. /\ d \in ToSet(s.lk.write) => ~s.cd[d]
        /\ d \in ToSet(s.lk.write_wait) => s.cd[d]
    BY <1>1 DEF Apart
  <2>5. QED
    BY <2>2, <2>3, <2>4
<1>8. /\ \A e \in Data : e # d => s2.ty[e] = s.ty[e] /\ s2.cd[e] = s.cd[e]
      /\ s2.ty[d] = n /\ s2.cd[d] = s.cd[d]
  BY <1>2, <1>3
<1>9. Placed(s, s2, d, n, s.cd[d])
  <2>1. /\ ToSet(s2.lk.read) = ToSet(s.lk.read)
        /\ ToSet(s2.lk.write) = ToSet(s.lk.write)
        /\ ToSet(s2.lk.read_wait) = ToSet(s.lk.read_wait)
        /\ ToSet(s2.lk.write_wait) = ToSet(s.lk.write_wait)
    BY <1>3
  <2> HIDE DEF WriteTypes
  <2>2. QED
    BY <1>4, <1>7, <1>8, <2>1 DEF Placed
<1>10. NoInsertReaders(s2) = NoInsertReaders(s)
  <2>1. ToSet(s.lk.read) \subseteq Data
    BY <1>2, HeadFacts
  <2>2. \A e \in ToSet(s.lk.read) : s2.ty[e] = s.ty[e]
    BY <1>7, <1>8, <2>1
  <2>3. QED
    BY <1>3, <2>2 DEF NoInsertReaders
<1>11. PICK c \in BOOLEAN : Placed(s, s2, d, n, c)
  <2>1. s.cd[d] \in BOOLEAN
    BY <1>2
  <2>2. QED
    BY <1>9, <2>1
<1>12. s2.lk.read_no_write_count = Cardinality(NoInsertReaders(s2))
  BY <1>1, <1>3, <1>10
<1>13. Consistent(s2, D)
  BY <1>4, <1>5, <1>6, <1>11, <1>12, PlacedFacts
<1>14. QED
  BY <1>3, <1>13 DEF Retyped

\* The lock of the only writer, whom nobody reads beside, may become any write
\* lock.
LEMMA UpgradedInPlace ==
  ASSUME NEW D \in SUBSET Data, NEW s, TableInv(s, D), NEW d \in D,
         s.ty[d] \in WriteTypes, ~s.cd[d], NEW n \in WriteTypes,
         s.lk.read = <<>>, \A w \in ToSet(s.lk.write) : w = d,
         NEW s2, s2 = Retype(s, d, n)
  PROVE  TableInv(s2, D) /\ Set(s, s2, d, n, FALSE)
<1>1. Consistent(s, D) /\ s \in States(D) /\ NoneTwice(s) /\ NoneForgotten(s)
  BY DEF TableInv, Consistent
<1>2. /\ Consistent(s2, D)
      /\ s2.lk = s.lk /\ s2.cd = s.cd /\ s2.ty = [s.ty EXCEPT ![d] = n]
  <2>1. Retyped(s, s2, d, n, D)
    BY <1>1, RetypedFacts
  <2>2. QED
    BY <2>1 DEF Retyped
<1>3. /\ s.ty \in [Data -> Types] /\ s.cd \in [Data -> BOOLEAN] /\ d \in Data
      /\ s.lk.read \in Seq(D) /\ s.lk.write \in Seq(D)
  BY <1>1, Parts
<1>4. Set(s, s2, d, n, FALSE)
  BY <1>2, <1>3 DEF Set
<1>5. ToSet(s.lk.read) = {}
  BY <1>3, HeadFacts
<1>6. FirstIsStrongest(s2)
  <2>1. \A i, j \in DOMAIN s.lk.write : i = j
    <3>1. \A i \in DOMAIN s.lk.write : s.lk.write[i] = d
      BY DEF ToSet
    <3>2. IsInjective(s.lk.write)
      BY <1>1 DEF NoneTwice
    <3>3. QED
      BY <3>1, <3>2 DEF IsInjective
  <2>2. \A i \in DOMAIN s.lk.write : i \in Nat
    BY <1>3, LenProperties
  <2>3. QED
    BY <1>2, <2>1, <2>2 DEF FirstIsStrongest
<1>7. WritersTolerate(s2)
  BY <1>2 DEF WritersTolerate
<1>8. ReadersTolerate(s2)
  BY <1>2, <1>5 DEF ReadersTolerate
<1>9. NoneForgotten(s2)
  BY <1>1, <1>2 DEF NoneForgotten
<1>10. QED
  BY <1>2, <1>4, <1>6, <1>7, <1>8, <1>9 DEF TableInv, Tolerant

\* The type of a waiting writer may change.
LEMMA UpgradedInQueue ==
  ASSUME NEW D \in SUBSET Data, NEW s, TableInv(s, D), NEW d \in D,
         s.ty[d] \in WriteTypes, s.cd[d], NEW n \in WriteTypes,
         NEW s2, s2 = Retype(s, d, n)
  PROVE  TableInv(s2, D) /\ Set(s, s2, d, n, TRUE)
<1>1. /\ Consistent(s, D) /\ s \in States(D) /\ Apart(s)
      /\ Tolerant(s) /\ NoneForgotten(s)
  BY DEF TableInv, Consistent
<1>2. /\ Consistent(s2, D)
      /\ s2.lk = s.lk /\ s2.cd = s.cd /\ s2.ty = [s.ty EXCEPT ![d] = n]
  <2>1. Retyped(s, s2, d, n, D)
    BY <1>1, RetypedFacts
  <2>2. QED
    BY <2>1 DEF Retyped
<1>3. /\ s.ty \in [Data -> Types] /\ s.cd \in [Data -> BOOLEAN] /\ d \in Data
      /\ s.lk.read \in Seq(D) /\ s.lk.write \in Seq(D)
  BY <1>1, Parts
<1>4. Set(s, s2, d, n, TRUE)
  <2>1. s.cd[d] = TRUE
    BY <1>3
  <2>2. QED
    BY <1>2, <1>3, <2>1 DEF Set
<1>5. d \notin ToSet(s.lk.read) /\ d \notin ToSet(s.lk.write)
  BY <1>1 DEF Apart
<1>6. ToSet(s.lk.read) \subseteq Data /\ ToSet(s.lk.write) \subseteq Data
  BY <1>3, HeadFacts
<1>7. \A e \in ToSet(s.lk.write) \cup ToSet(s.lk.read) : s2.ty[e] = s.ty[e]
  BY <1>2, <1>3, <1>5, <1>6
<1>8. Tolerant(s2)
  <2>1. s2.lk.write = s.lk.write /\ s2.lk.read = s.lk.read
    BY <1>2
  <2>2. QED
    BY <1>1, <1>7, <2>1, SameActive
<1>9. NoneForgotten(s2)
  BY <1>1, <1>2 DEF NoneForgotten
<1>10. QED
  BY <1>2, <1>4, <1>8, <1>9 DEF TableInv

\* From s to s2 the only writer d has gone back to the head of the queue with
\* type n.
Requeued(s, s2, d, n, D) ==
  /\ Consistent(s2, D)
  /\ Set(s, s2, d, n, TRUE)
  /\ s2.lk.write = <<>> /\ s2.lk.write_wait # <<>>
  /\ s2.lk.read = <<>> <=> s.lk.read = <<>>
  /\ s2.lk.read_wait = <<>> <=> s.lk.read_wait = <<>>

\* The only writer of a table goes back to the queue.
LEMMA BackToQueueFacts ==
  ASSUME NEW D \in SUBSET Data, NEW s, TableInv(s, D), NEW d \in D,
         s.ty[d] \in WriteTypes, ~s.cd[d], NEW n \in WriteTypes,
         \A w \in ToSet(s.lk.write) : w = d,
         NEW s2, s2 = BackToQueue(Retype(s, d, n), d)
  PROVE  Requeued(s, s2, d, n, D)
<1>1. Consistent(s, D) /\ s \in States(D) /\ Apart(s) /\ Listed(s, D)
  BY DEF TableInv, Consistent
<1>2. PICK s0 : s0 = Retype(s, d, n)
  OBVIOUS
<1>3. /\ Consistent(s0, D)
      /\ s0.lk = s.lk /\ s0.cd = s.cd /\ s0.ty = [s.ty EXCEPT ![d] = n]
  <2>1. Retyped(s, s0, d, n, D)
    BY <1>1, <1>2, RetypedFacts
  <2>2. QED
    BY <2>1 DEF Retyped
<1>4. PICK s1 : s1 = Unlink(s0, d)
  OBVIOUS
<1>5. Unlinked(s0, s1, d, D)
  BY <1>3, <1>4, UnlinkFacts
<1>6. /\ s.ty \in [Data -> Types] /\ s.cd \in [Data -> BOOLEAN] /\ d \in Data
      /\ s.lk.read \in Seq(D) /\ s.lk.read_wait \in Seq(D)
      /\ s.lk.write \in Seq(D) /\ s.lk.write_wait \in Seq(D)
  BY <1>1, Parts
<1>7. /\ d \notin ToSet(s.lk.read) /\ d \notin ToSet(s.lk.read_wait)
      /\ d \notin ToSet(s.lk.write_wait)
  <2>1. s.ty[d] \notin ReadTypes
    BY DEF WriteTypes
  <2>2. QED
    BY <1>1, <2>1 DEF Apart
<1>8. /\ s1 \in States(D) /\ NoneTwice(s1)
      /\ s1.lk.read \in Seq(D) /\ ToSet(s1.lk.read) = ToSet(s.lk.read)
      /\ s1.lk.read_wait \in Seq(D) /\ ToSet(s1.lk.read_wait) = ToSet(s.lk.read_wait)
      /\ s1.lk.write \in Seq(D) /\ ToSet(s1.lk.write) = {}
      /\ s1.lk.write_wait \in Seq(D)
      /\ ToSet(s1.lk.write_wait) = ToSet(s.lk.write_wait)
      /\ s1.ty = s0.ty /\ s1.cd = s.cd
      /\ s1.lk.read_no_write_count = s.lk.read_no_write_count
  BY <1>3, <1>5, <1>7 DEF Unlinked
<1>9. PICK b : b = <<d>> \o s1.lk.write_wait
  OBVIOUS
<1>10. /\ b \in Seq(D) /\ b # <<>> /\ IsInjective(b)
       /\ ToSet(b) = ToSet(s.lk.write_wait) \cup {d}
  <2>1. <<d>> \in Seq(D) /\ ToSet(<<d>>) = {d} /\ IsInjective(<<d>>)
    BY SingleFacts
  <2>2. IsInjective(s1.lk.write_wait)
    BY <1>8 DEF NoneTwice
  <2>3. /\ b \in Seq(D) /\ ToSet(b) = {d} \cup ToSet(s1.lk.write_wait)
        /\ IsInjective(b)
    <3>1. ToSet(<<d>>) \cap ToSet(s1.lk.write_wait) = {}
      BY <1>7, <1>8, <2>1
    <3>2. PICK a : a = <<d>>
      OBVIOUS
    <3>3. a \in Seq(D) /\ ToSet(a) = {d} /\ IsInjective(a)
          /\ ToSet(a) \cap ToSet(s1.lk.write_wait) = {} /\ b = a \o s1.lk.write_wait
      BY <1>9, <2>1, <3>1, <3>2
    <3>4. /\ a \o s1.lk.write_wait \in Seq(D)
          /\ ToSet(a \o s1.lk.write_wait) = ToSet(a) \cup ToSet(s1.lk.write_wait)
          /\ IsInjective(a \o s1.lk.write_wait)
      BY <1>8, <2>2, <3>3, ConcatFacts
    <3>5. QED
      BY <3>3, <3>4
  <2>4. b # <<>>
    BY <2>3, HeadFacts
  <2>5. QED
    BY <1>8, <2>3, <2>4
<1>11. /\ s2.lk = [s1.lk EXCEPT !.write_wait = b]
       /\ s2.ty = s0.ty /\ s2.cd = [s.cd EXCEPT ![d] = TRUE]
       /\ s2 = [lk |-> s2.lk, ty |-> s2.ty, cd |-> s2.cd]
  <2>1. s2 = [s1 EXCEPT !.lk.write_wait = b, !.cd[d] = TRUE]
    BY <1>2, <1>4, <1>8, <1>9 DEF BackToQueue, States
  <2>2. QED
    BY <1>8, <2>1 DEF States
<1>12. /\ s2.lk.read = s1.lk.read /\ s2.lk.read_wait = s1.lk.read_wait
       /\ s2.lk.write = s1.lk.write /\ s2.lk.write_wait = b
       /\ s2.lk.read_no_write_count = s1.lk.read_no_write_count
       /\ s2.lk \in LockRecord(D)
  <2>1. s1.lk \in LockRecord(D)
    BY <1>8, Parts
  <2>2. QED
    BY <1>10, <1>11, <2>1 DEF LockRecord
<1>13. s2 \in States(D)
  <2>1. s2.ty \in [Data -> Types]
    BY <1>8, <1>11, Parts
  <2>2. s2.cd \in [Data -> BOOLEAN]
    BY <1>6, <1>11
  <2>3. QED
    BY <1>11, <1>12, <2>1, <2>2 DEF States
<1>14. /\ \A e \in Data : e # d => s2.ty[e] = s.ty[e] /\ s2.cd[e] = s.cd[e]
       /\ s2.ty[d] = n /\ s2.cd[d] = TRUE
  BY <1>3, <1>6, <1>11
<1>15. NoneTwice(s2)
  BY <1>8, <1>10, <1>12 DEF NoneTwice
<1>16. n \in LockType /\ n \notin ReadTypes
  BY DEF WriteTypes
<1>17. Placed(s, s2, d, n, TRUE)
  <2>1. /\ ToSet(s2.lk.read) = ToSet(s.lk.read)
        /\ ToSet(s2.lk.write) = {} /\ ToSet(s.lk.write) \ {d} = {}
        /\ ToSet(s2.lk.read_wait) = ToSet(s.lk.read_wait)
        /\ ToSet(s2.lk.write_wait) = ToSet(s.lk.write_wait) \cup {d}
    BY <1>8, <1>10, <1>12
  <2>2. QED
    BY <1>7, <1>14, <1>16, <2>1 DEF Placed
<1>18. NoInsertReaders(s2) = NoInsertReaders(s)
  <2>1. ToSet(s.lk.read) \subseteq Data
    BY <1>6, HeadFacts
  <2>2. \A e \in ToSet(s.lk.read) : s2.ty[e] = s.ty[e]
    BY <1>7, <1>14, <2>1
  <2>3. QED
    BY <1>8, <1>12, <2>2 DEF NoInsertReaders
<1>19. s2.lk.read_no_write_count = Cardinality(NoInsertReaders(s2))
  BY <1>1, <1>8, <1>12, <1>18 DEF Consistent
<1>20. Consistent(s2, D)
  BY <1>1, <1>13, <1>15, <1>16, <1>17, <1>19, PlacedFacts
<1>21. /\ s2.lk.write = <<>> /\ s2.lk.write_wait # <<>>
       /\ s2.lk.read = <<>> <=> s.lk.read = <<>>
       /\ s2.lk.read_wait = <<>> <=> s.lk.read_wait = <<>>
  <2>1. \A x \in Seq(D) : x = <<>> <=> ToSet(x) = {}
    BY HeadFacts
  <2>2. QED
    BY <1>6, <1>8, <1>10, <1>12, <2>1
<1>22. QED
  BY <1>14, <1>20, <1>21 DEF Requeued, Set

\* thr_upgrade_write_delay_lock while others read: it waits until they are done.
LEMMA UpgradedBehindReaders ==
  ASSUME NEW D \in SUBSET Data, NEW s, TableInv(s, D), NEW d \in D,
         s.ty[d] \in WriteTypes, ~s.cd[d], NEW n \in WriteTypes,
         \A w \in ToSet(s.lk.write) : w = d, s.lk.read # <<>>,
         NEW s2, s2 = BackToQueue(Retype(s, d, n), d)
  PROVE  TableInv(s2, D) /\ Set(s, s2, d, n, TRUE)
<1>1. Requeued(s, s2, d, n, D)
  BY BackToQueueFacts
<1>2. Tolerant(s2)
  BY <1>1, NobodyWrites DEF Requeued
<1>3. NoneForgotten(s2)
  BY <1>1 DEF Requeued, NoneForgotten
<1>4. QED
  BY <1>1, <1>2, <1>3 DEF Requeued, TableInv

\* From s to s3 the lock d has got type n, and waits of others may have ended.
Rescheduled(s, s3, d, n, D) ==
  /\ TableInv(s3, D)
  /\ \A e \in Data : e # d => s3.ty[e] = s.ty[e] /\ (s3.cd[e] => s.cd[e])
  /\ s3.ty[d] = n
  /\ \A e \in Data \ D : s3.ty[e] = s.ty[e] /\ s3.cd[e] = s.cd[e]

\* thr_reschedule_write_lock: the waiting readers start.
LEMMA RescheduledFacts ==
  ASSUME NEW D \in SUBSET Data, NEW s, TableInv(s, D), NEW d \in D,
         s.ty[d] \in WriteTypes, ~s.cd[d], NEW n \in WriteTypes,
         n # TL_WRITE_CONCURRENT_INSERT,
         \A w \in ToSet(s.lk.write) : w = d, s.lk.read_wait # <<>>,
         NEW s2, s2 = BackToQueue(Retype(s, d, n), d),
         NEW s3, s3 = FreeAllReadLocks(s2, FALSE)
  PROVE  Rescheduled(s, s3, d, n, D)
<1>1. Requeued(s, s2, d, n, D)
  BY BackToQueueFacts
<1>2. Consistent(s2, D) /\ d \in Data
  BY <1>1 DEF Requeued
<1>3. Freed(s2, s3, D, FALSE)
  BY <1>2, FreeFacts
<1>4. WokenUp(s2, s3, D)
  BY <1>1, <1>3, ReadersStart DEF Requeued
<1>5. s3.ty = s2.ty
  BY <1>3 DEF Freed
<1>6. /\ \A e \in Data : e # d => s2.ty[e] = s.ty[e] /\ s2.cd[e] = s.cd[e]
      /\ s2.ty[d] = n
  BY <1>1 DEF Requeued, Set
<1>7. /\ \A e \in Data : s3.cd[e] => s2.cd[e]
      /\ \A e \in Data \ D : s3.cd[e] = s2.cd[e]
  BY <1>4 DEF WokenUp, Woke
<1>8. \A e \in Data \ D : e # d
  OBVIOUS
<1>9. QED
  BY <1>2, <1>4, <1>5, <1>6, <1>7, <1>8 DEF WokenUp, Rescheduled

-----------------------------------------------------------------------------
(* One table changes *)

\* A list of elements of Y.
LEMMA ListOver ==
  ASSUME NEW X, NEW s \in Seq(X), NEW Y, ToSet(s) \subseteq Y
  PROVE  s \in Seq(Y)
<1>1. Len(s) \in Nat /\ DOMAIN s = 1..Len(s) /\ s \in [1..Len(s) -> X]
  BY LenProperties
<1>2. \A i \in 1..Len(s) : s[i] \in Y
  BY <1>1 DEF ToSet
<1>3. s \in [1..Len(s) -> Y]
  BY <1>1, <1>2
<1>4. QED
  BY <1>1, <1>3, SeqDef

\* A table is in order as long as its lists and the lock data on them stay the
\* same and its other lock data are TL_UNLOCK.
LEMMA FrameFacts ==
  ASSUME NEW D \in SUBSET Data, NEW E \in SUBSET Data,
         NEW s, TableInv(s, D), NEW s2, s2.lk = s.lk,
         s2 = [lk |-> s2.lk, ty |-> s2.ty, cd |-> s2.cd],
         s2.ty \in [Data -> Types], s2.cd \in [Data -> BOOLEAN],
         \A d \in D : s2.ty[d] = s.ty[d] /\ s2.cd[d] = s.cd[d],
         \A d \in D \ E : s.ty[d] = TL_UNLOCK,
         \A d \in E \ D : s2.ty[d] = TL_UNLOCK /\ ~s2.cd[d]
  PROVE  TableInv(s2, E)
<1>1. /\ Consistent(s, D) /\ s \in States(D) /\ NoneTwice(s) /\ Apart(s)
      /\ Listed(s, D) /\ Tolerant(s) /\ NoneForgotten(s)
      /\ s.lk.read_no_write_count = Cardinality(NoInsertReaders(s))
  BY DEF TableInv, Consistent
<1>2. /\ s.lk \in LockRecord(D)
      /\ s.lk.read \in Seq(D) /\ s.lk.read_wait \in Seq(D)
      /\ s.lk.write \in Seq(D) /\ s.lk.write_wait \in Seq(D)
  BY <1>1, Parts
<1>3. /\ ToSet(s.lk.read) \subseteq D /\ ToSet(s.lk.read_wait) \subseteq D
      /\ ToSet(s.lk.write) \subseteq D /\ ToSet(s.lk.write_wait) \subseteq D
  BY <1>2, HeadFacts
<1>4. /\ ToSet(s.lk.read) \subseteq E /\ ToSet(s.lk.read_wait) \subseteq E
      /\ ToSet(s.lk.write) \subseteq E /\ ToSet(s.lk.write_wait) \subseteq E
  <2>1. ASSUME NEW d \in D \ E
        PROVE  /\ d \notin ToSet(s.lk.read) /\ d \notin ToSet(s.lk.read_wait)
               /\ d \notin ToSet(s.lk.write) /\ d \notin ToSet(s.lk.write_wait)
    BY <1>1, Unused
  <2>2. QED
    BY <1>3, <2>1
<1>5. /\ s.lk.read \in Seq(E) /\ s.lk.read_wait \in Seq(E)
      /\ s.lk.write \in Seq(E) /\ s.lk.write_wait \in Seq(E)
  BY <1>2, <1>4, ListOver
<1>6. s2.lk \in LockRecord(E)
  BY <1>2, <1>5 DEF LockRecord
<1>7. s2 \in States(E)
  BY <1>6 DEF States
<1>8. NoneTwice(s2)
  BY <1>1 DEF NoneTwice
<1>9. Apart(s2)
  BY <1>1, <1>3 DEF Apart
<1>10. Listed(s2, E)
  <2>1. ASSUME NEW d \in E
        PROVE  /\ s2.ty[d] # TL_UNLOCK =>
                    d \in ToSet(s2.lk.read) \cup ToSet(s2.lk.read_wait)
                          \cup ToSet(s2.lk.write) \cup ToSet(s2.lk.write_wait)
               /\ s2.cd[d] => d \in ToSet(s2.lk.read_wait)
                                    \cup ToSet(s2.lk.write_wait)
    <3>1. CASE d \in D
      BY <1>1, <3>1 DEF Listed
    <3>2. CASE d \notin D
      BY <3>2
    <3>3. QED
      BY <3>1, <3>2
  <2>2. QED
    BY <2>1 DEF Listed
<1>11. NoInsertReaders(s2) = NoInsertReaders(s)
  BY <1>3 DEF NoInsertReaders
<1>12. Consistent(s2, E)
  BY <1>1, <1>7, <1>8, <1>9, <1>10, <1>11 DEF Consistent
<1>13. Tolerant(s2)
  <2>1. \A d \in ToSet(s.lk.write) \cup ToSet(s.lk.read) : s2.ty[d] = s.ty[d]
    BY <1>3
  <2>2. s2.lk.write = s.lk.write /\ s2.lk.read = s.lk.read
    OBVIOUS
  <2>3. QED
    BY <1>1, <2>1, <2>2, SameActive
<1>14. NoneForgotten(s2)
  BY <1>1 DEF NoneForgotten
<1>15. QED
  BY <1>12, <1>13, <1>14 DEF TableInv

\* The lock data of different tables are different, and all are lock data.
LEMMA DataOfFacts ==
  ASSUME NEW l \in Table, NEW k \in Table
  PROVE  /\ DataOf(l) \in SUBSET Data
         /\ l # k => DataOf(l) \cap DataOf(k) = {}
BY DEF DataOf

\* A step that changes one table and its lock data leaves the others in order.
LEMMA TablesStep ==
  ASSUME SmallTypes, TablesInv, NEW l \in Table, NEW s2, Become(l, s2),
         UNCHANGED locks, TableInv(s2, DataOf(l)),
         \A d \in Data \ DataOf(l) : s2.ty[d] = type[d] /\ s2.cd[d] = cond[d]
  PROVE  /\ lock' \in [Table -> LockRecord(Data)]
         /\ type' \in [Data -> Types] /\ cond' \in [Data -> BOOLEAN]
         /\ TablesInv'
<1>1. /\ s2 \in States(DataOf(l)) /\ lock \in [Table -> LockRecord(Data)]
      /\ type \in [Data -> Types] /\ cond \in [Data -> BOOLEAN]
  BY DEF TableInv, Consistent, SmallTypes
<1>2. /\ s2.lk \in LockRecord(DataOf(l)) /\ s2.ty \in [Data -> Types]
      /\ s2.cd \in [Data -> BOOLEAN]
  BY <1>1, Parts
<1>3. s2 = [lk |-> s2.lk, ty |-> s2.ty, cd |-> s2.cd]
  BY <1>1 DEF States
<1>4. lock' = [lock EXCEPT ![l] = s2.lk] /\ type' = s2.ty /\ cond' = s2.cd
  BY DEF Become
<1>5. DataOf(l) \in SUBSET Data
  BY DataOfFacts
<1>6. \A D \in SUBSET Data : LockRecord(D) \subseteq LockRecord(Data)
  <2>1. \A D \in SUBSET Data : Seq(D) \subseteq Seq(Data)
    <3>1. ASSUME NEW D \in SUBSET Data, NEW x \in Seq(D) PROVE x \in Seq(Data)
      BY HeadFacts, ListOver
    <3>2. QED
      BY <3>1
  <2>2. QED
    BY <2>1 DEF LockRecord
<1>7. lock' \in [Table -> LockRecord(Data)]
  BY <1>1, <1>2, <1>4, <1>5, <1>6
<1>8. \A k \in Table : DataOf(k)' = DataOf(k)
  BY DEF DataOf, TableOf
<1>9. ASSUME NEW k \in Table PROVE TableInv(State(k)', DataOf(k)')
  <2>1. State(k)' = [lk |-> lock'[k], ty |-> s2.ty, cd |-> s2.cd]
    BY <1>4 DEF State
  <2>2. CASE k = l
    <3>1. State(k)' = s2
      BY <1>1, <1>3, <1>4, <2>1, <2>2
    <3>2. QED
      BY <1>8, <2>2, <3>1
  <2>3. CASE k # l
    <3>1. TableInv(State(k), DataOf(k))
      BY DEF TablesInv
    <3>2. DataOf(k) \in SUBSET Data /\ DataOf(l) \cap DataOf(k) = {}
      BY <2>3, DataOfFacts
    <3>3. PICK s, s3 : s = State(k) /\ s3 = State(k)'
      OBVIOUS
    <3>4. /\ s3.lk = s.lk /\ s3.ty = s2.ty /\ s3.cd = s2.cd
          /\ s3 = [lk |-> s3.lk, ty |-> s3.ty, cd |-> s3.cd]
          /\ s.ty = type /\ s.cd = cond
      BY <1>1, <1>4, <2>1, <2>3, <3>3 DEF State
    <3>5. \A d \in DataOf(k) : s3.ty[d] = s.ty[d] /\ s3.cd[d] = s.cd[d]
      BY <3>2, <3>4
    <3>6. TableInv(s3, DataOf(k))
      BY <1>2, <3>1, <3>2, <3>3, <3>4, <3>5, FrameFacts
    <3>7. QED
      BY <1>8, <3>3, <3>6
  <2>4. QED
    BY <2>2, <2>3
<1>10. TablesInv'
  BY <1>9 DEF TablesInv
<1>11. QED
  BY <1>2, <1>4, <1>7, <1>10

-----------------------------------------------------------------------------
(* What the steps of one thread mean for the others *)

\* A step ends the wait of lock data d at most, makes a concurrent insert a full
\* write lock or takes d off its list.
Easing(d) ==
  /\ cond'[d] => cond[d]
  /\ \/ type'[d] = type[d]
     \/ type[d] = TL_WRITE_CONCURRENT_INSERT /\ type'[d] = TL_WRITE
     \/ type'[d] = TL_UNLOCK /\ ~cond'[d]

\* A thread whose lock data are at most eased, and which goes nowhere or ends a
\* wait that is over, remains in order.
LEMMA ThreadStep ==
  ASSUME SmallTypes, NEW u \in Thread, ThreadInv(u),
         locks'[u] = locks[u], pos'[u] = pos[u],
         new_lock_type'[u] = new_lock_type[u],
         \A i \in 1..MaxLocks : Easing(<<u, i>>),
         \/ pc'[u] = pc[u]
         \/ /\ pc[u] # "idle"
            /\ pc'[u] \in {"held", "giveup", "unlock", "upgrade"}
            /\ pc[u] \in {"wait", "upwait"} => ~cond'[<<u, pos[u]>>]
  PROVE  ThreadInv(u)'
<1>1. /\ ArrayInv(u) /\ Progress(u)
      /\ \A i \in DOMAIN locks[u] : TypeFits(u, i) /\ Waits(u, i)
      /\ \A i \in (1..MaxLocks) \ DOMAIN locks[u] :
           type[<<u, i>>] = TL_UNLOCK /\ ~cond[<<u, i>>]
  BY DEF ThreadInv
<1>2. ArrayInv(u)'
  BY <1>1 DEF ArrayInv
<1>3. DOMAIN locks[u] \subseteq 1..MaxLocks
  <2>1. /\ locks[u] \in Seq([table : Table, type : LockType])
        /\ Len(locks[u]) <= MaxLocks
    BY <1>1 DEF ArrayInv
  <2>2. DOMAIN locks[u] = 1..Len(locks[u]) /\ Len(locks[u]) \in Nat
    BY <2>1, LenProperties
  <2>3. QED
    BY <2>1, <2>2, DataFacts
<1>4. /\ TL_UNLOCK # TL_WRITE_CONCURRENT_INSERT /\ TL_UNLOCK # TL_WRITE
      /\ TL_WRITE_DELAYED # TL_WRITE_CONCURRENT_INSERT
      /\ TL_WRITE_DELAYED # TL_UNLOCK /\ TL_WRITE # TL_WRITE_CONCURRENT_INSERT
      /\ TL_WRITE_LOW_PRIORITY # TL_WRITE_CONCURRENT_INSERT
  BY TypeNumbers
<1>5. DelayedTypes \subseteq {TL_WRITE, TL_WRITE_LOW_PRIORITY}
  BY ThrLockAssumption
<1>6. ASSUME NEW i \in DOMAIN locks[u] PROVE TypeFits(u, i)'
  <2>1. TypeFits(u, i) /\ Easing(<<u, i>>)
    BY <1>1, <1>3
  <2>2. CASE type'[<<u, i>>] = type[<<u, i>>]
    BY <2>1, <2>2 DEF TypeFits
  <2>3. CASE type[<<u, i>>] = TL_WRITE_CONCURRENT_INSERT /\ type'[<<u, i>>] = TL_WRITE
    BY <1>4, <1>5, <2>1, <2>3 DEF TypeFits
  <2>4. CASE type'[<<u, i>>] = TL_UNLOCK
    BY <2>4 DEF TypeFits
  <2>5. QED
    BY <2>1, <2>2, <2>3, <2>4 DEF Easing
<1>7. ASSUME NEW i \in DOMAIN locks[u] PROVE Waits(u, i)'
  <2>1. SUFFICES ASSUME cond'[<<u, i>>]
                 PROVE  \/ pc'[u] \in {"wait", "upwait"} /\ i = pos'[u]
                        \/ type'[<<u, i>>] = TL_WRITE_DELAYED
    BY DEF Waits
  <2>2. Easing(<<u, i>>) /\ Waits(u, i)
    BY <1>1, <1>3
  <2>3. cond[<<u, i>>]
    BY <2>1, <2>2 DEF Easing
  <2>4. CASE type[<<u, i>>] = TL_WRITE_DELAYED
    BY <1>4, <2>1, <2>2, <2>4 DEF Easing
  <2>5. CASE pc[u] \in {"wait", "upwait"} /\ i = pos[u]
    BY <2>1, <2>5
  <2>6. QED
    BY <2>2, <2>3, <2>4, <2>5 DEF Waits
<1>8. ASSUME NEW i \in 1..MaxLocks, type[<<u, i>>] = TL_UNLOCK
      PROVE  type'[<<u, i>>] = TL_UNLOCK
  <2>1. Easing(<<u, i>>)
    OBVIOUS
  <2>2. QED
    BY <1>4, <1>8, <2>1 DEF Easing
<1>9. \A i \in (1..MaxLocks) \ DOMAIN locks[u] :
        type'[<<u, i>>] = TL_UNLOCK /\ ~cond'[<<u, i>>]
  <2>1. ASSUME NEW i \in (1..MaxLocks) \ DOMAIN locks[u]
        PROVE  type'[<<u, i>>] = TL_UNLOCK /\ ~cond'[<<u, i>>]
    <3>1. Easing(<<u, i>>) /\ type[<<u, i>>] = TL_UNLOCK /\ ~cond[<<u, i>>]
      BY <1>1
    <3>2. QED
      BY <1>8, <3>1 DEF Easing
  <2>2. QED
    BY <2>1
<1>10. Progress(u)'
  <2>1. /\ (pc'[u] = "idle") <=> (locks'[u] = <<>>)
        /\ pc'[u] # "idle" => pos'[u] \in DOMAIN locks'[u]
    BY <1>1 DEF Progress
  <2>2. ASSUME pc'[u] = "lock", NEW i \in DOMAIN locks'[u], i >= pos'[u]
        PROVE  type'[<<u, i>>] = TL_UNLOCK
    <3>1. pc[u] = "lock" /\ i \in DOMAIN locks[u] /\ i >= pos[u]
      BY <2>2
    <3>2. QED
      BY <1>1, <1>3, <1>8, <3>1 DEF Progress
  <2>3. ASSUME pc'[u] = "wait", NEW i \in DOMAIN locks'[u], i > pos'[u]
        PROVE  type'[<<u, i>>] = TL_UNLOCK
    <3>1. pc[u] = "wait" /\ i \in DOMAIN locks[u] /\ i > pos[u]
      BY <2>3
    <3>2. QED
      BY <1>1, <1>3, <1>8, <3>1 DEF Progress
  <2>4. QED
    BY <2>1, <2>2, <2>3 DEF Progress
<1>11. \A i \in DOMAIN locks'[u] : TypeFits(u, i)' /\ Waits(u, i)'
  BY <1>6, <1>7
<1>12. QED
  BY <1>2, <1>9, <1>10, <1>11 DEF ThreadInv

\* A thread of which nothing changes remains in order.
LEMMA ThreadFrame ==
  ASSUME SmallTypes, NEW u \in Thread, ThreadInv(u),
         locks'[u] = locks[u], pos'[u] = pos[u],
         new_lock_type'[u] = new_lock_type[u], pc'[u] = pc[u],
         \A i \in 1..MaxLocks : /\ type'[<<u, i>>] = type[<<u, i>>]
                                /\ cond'[<<u, i>>] = cond[<<u, i>>]
  PROVE  ThreadInv(u)'
<1>1. \A i \in 1..MaxLocks : Easing(<<u, i>>)
  BY DEF Easing
<1>2. QED
  BY <1>1, ThreadStep

\* An element of the array of a thread is a lock data of its table.
LEMMA DataAt ==
  ASSUME IInv, NEW t \in Thread, NEW i \in DOMAIN locks[t]
  PROVE  /\ i \in 1..MaxLocks /\ <<t, i>> \in Data
         /\ locks[t][i] \in [table : Table, type : LockType]
         /\ TableOf(<<t, i>>) \in Table /\ TableOf(<<t, i>>) = locks[t][i].table
         /\ <<t, i>> \in DataOf(TableOf(<<t, i>>))
         /\ Owner(<<t, i>>) = t
<1>1. /\ locks[t] \in Seq([table : Table, type : LockType])
      /\ Len(locks[t]) <= MaxLocks
  BY DEF IInv, ThreadInv, ArrayInv
<1>2. /\ DOMAIN locks[t] = 1..Len(locks[t]) /\ Len(locks[t]) \in Nat
      /\ locks[t][i] \in [table : Table, type : LockType]
  <2>1. DOMAIN locks[t] = 1..Len(locks[t]) /\ Len(locks[t]) \in Nat
    BY <1>1, LenProperties
  <2>2. QED
    BY <1>1, <2>1, ElementOfSeq
<1>3. i \in 1..MaxLocks
  BY <1>1, <1>2, DataFacts
<1>4. <<t, i>> \in Data
  BY <1>3 DEF Data
<1>5. TableOf(<<t, i>>) = locks[t][i].table /\ Owner(<<t, i>>) = t
  BY DEF TableOf, Owner
<1>6. <<t, i>> \in DataOf(TableOf(<<t, i>>))
  BY <1>4 DEF DataOf
<1>7. QED
  BY <1>2, <1>3, <1>4, <1>5, <1>6

\* What holds in a state of the table and its lock data.
LEMMA AtTable ==
  ASSUME IInv, NEW l \in Table
  PROVE  /\ TableInv(State(l), DataOf(l)) /\ DataOf(l) \in SUBSET Data
         /\ State(l).lk = lock[l] /\ State(l).ty = type /\ State(l).cd = cond
BY DataOfFacts DEF IInv, TablesInv, State

\* A step of the table l that eases its lock data.
LEMMA EasedStep ==
  ASSUME IInv, NEW l \in Table, NEW s2, Become(l, s2), UNCHANGED locks,
         TableInv(s2, DataOf(l)), Eased(State(l), s2, DataOf(l))
  PROVE  /\ lock' \in [Table -> LockRecord(Data)]
         /\ type' \in [Data -> Types] /\ cond' \in [Data -> BOOLEAN]
         /\ TablesInv'
         /\ \A d \in Data : Easing(d)
<1>1. State(l).ty = type /\ State(l).cd = cond
  BY AtTable
<1>2. /\ \A d \in Data \ DataOf(l) : s2.ty[d] = type[d] /\ s2.cd[d] = cond[d]
      /\ \A d \in Data :
           /\ s2.cd[d] => cond[d]
           /\ \/ s2.ty[d] = type[d]
              \/ type[d] = TL_WRITE_CONCURRENT_INSERT /\ s2.ty[d] = TL_WRITE
              \/ s2.ty[d] = TL_UNLOCK /\ ~s2.cd[d]
  BY <1>1 DEF Eased
<1>3. type' = s2.ty /\ cond' = s2.cd
  BY DEF Become
<1>4. \A d \in Data : Easing(d)
  BY <1>2, <1>3 DEF Easing
<1>5. SmallTypes /\ TablesInv
  BY DEF IInv
<1>6. /\ lock' \in [Table -> LockRecord(Data)]
      /\ type' \in [Data -> Types] /\ cond' \in [Data -> BOOLEAN]
      /\ TablesInv'
  BY <1>2, <1>5, TablesStep
<1>7. QED
  BY <1>4, <1>6

\* Nothing changes for the tables.
LEMMA TablesFrame ==
  ASSUME IInv, UNCHANGED <<lock, type, cond, locks>>
  PROVE  /\ lock' \in [Table -> LockRecord(Data)]
         /\ type' \in [Data -> Types] /\ cond' \in [Data -> BOOLEAN]
         /\ TablesInv'
         /\ \A d \in Data : Easing(d)
<1>1. /\ lock' \in [Table -> LockRecord(Data)]
      /\ type' \in [Data -> Types] /\ cond' \in [Data -> BOOLEAN]
  BY DEF IInv, SmallTypes
<1>2. \A l \in Table : State(l)' = State(l) /\ DataOf(l)' = DataOf(l)
  BY DEF State, DataOf, TableOf
<1>3. TablesInv'
  BY <1>2 DEF IInv, TablesInv
<1>4. \A d \in Data : Easing(d)
  BY DEF Easing
<1>5. QED
  BY <1>1, <1>3, <1>4

\* Where thread t may go when its wait is over or it lets go of its locks.
GoesOn(t) ==
  /\ pc' \in [Thread -> PC]
  /\ \A u \in Thread : u # t => pc'[u] = pc[u]
  /\ \/ pc'[t] = pc[t]
     \/ /\ pc[t] # "idle"
        /\ pc'[t] \in {"held", "giveup", "unlock", "upgrade"}
        /\ pc[t] \in {"wait", "upwait"} => ~cond'[<<t, pos[t]>>]

\* A step that eases lock data and moves at most thread t.
LEMMA EasyStep ==
  ASSUME IInv, NEW t \in Thread, GoesOn(t),
         UNCHANGED <<locks, pos, new_lock_type>>, abort' \in [Thread -> BOOLEAN],
         lock' \in [Table -> LockRecord(Data)],
         type' \in [Data -> Types], cond' \in [Data -> BOOLEAN],
         TablesInv', \A d \in Data : Easing(d)
  PROVE  IInv'
<1>1. SmallTypes /\ TablesInv /\ \A u \in Thread : ThreadInv(u)
  BY DEF IInv
<1>2. SmallTypes'
  BY <1>1 DEF SmallTypes, GoesOn
<1>3. ASSUME NEW u \in Thread PROVE ThreadInv(u)'
  <2>1. \A i \in 1..MaxLocks : Easing(<<u, i>>)
    BY DEF Data
  <2>2. locks'[u] = locks[u] /\ pos'[u] = pos[u]
        /\ new_lock_type'[u] = new_lock_type[u] /\ ThreadInv(u)
    BY <1>1
  <2>3. \/ pc'[u] = pc[u]
        \/ /\ pc[u] # "idle"
           /\ pc'[u] \in {"held", "giveup", "unlock", "upgrade"}
           /\ pc[u] \in {"wait", "upwait"} => ~cond'[<<u, pos[u]>>]
    BY DEF GoesOn
  <2>4. QED
    BY <1>1, <2>1, <2>2, <2>3, ThreadStep
<1>4. QED
  BY <1>2, <1>3 DEF IInv

\* A thread that is not idle has a position in its array.
LEMMA Position ==
  ASSUME IInv, NEW t \in Thread, pc[t] # "idle"
  PROVE  pos[t] \in DOMAIN locks[t]
BY DEF IInv, ThreadInv, Progress

\* thr_unlock keeps everything in order.
LEMMA UnlockStep ==
  ASSUME IInv, NEW t \in Thread, Unlock(t)
  PROVE  IInv'
<1>1. PICK i \in ToUnlock(t), cannot \in BOOLEAN :
        Become(TableOf(<<t, i>>), Unlocked(State(TableOf(<<t, i>>)), <<t, i>>, cannot))
  BY DEF Unlock
<1>2. PICK l : l = TableOf(<<t, i>>)
  OBVIOUS
<1>3. i \in DOMAIN locks[t]
  <2>1. locks[t] \in Seq([table : Table, type : LockType])
    BY DEF IInv, SmallTypes
  <2>2. DOMAIN locks[t] = 1..Len(locks[t])
    BY <2>1, LenProperties
  <2>3. i \in 1..Len(locks[t])
    BY DEF ToUnlock
  <2>4. QED
    BY <2>2, <2>3
<1>4. l \in Table /\ <<t, i>> \in DataOf(l)
  BY <1>2, <1>3, DataAt
<1>5. PICK s, s2 : s = State(l) /\ s2 = Unlocked(s, <<t, i>>, cannot)
  OBVIOUS
<1>6. /\ TableInv(s, DataOf(l)) /\ DataOf(l) \in SUBSET Data
      /\ s.ty = type /\ s.cd = cond
  BY <1>4, <1>5, AtTable
<1>7. s.cd[<<t, i>>] => s.ty[<<t, i>>] # TL_READ_NO_INSERT
  <2>1. Waits(t, i)
    BY <1>3 DEF IInv, ThreadInv
  <2>2. pc[t] \in {"unlock", "giveup"}
    BY DEF Unlock
  <2>3. cond[<<t, i>>] => type[<<t, i>>] = TL_WRITE_DELAYED
    BY <2>1, <2>2 DEF Waits
  <2>4. QED
    BY <1>6, <2>3, TypeNumbers
<1>8. TableInv(s2, DataOf(l)) /\ Eased(s, s2, DataOf(l))
  BY <1>4, <1>5, <1>6, <1>7, UnlockedFacts
<1>9. Become(l, s2) /\ UNCHANGED locks
  BY <1>1, <1>2, <1>5 DEF Unlock
<1>10. /\ lock' \in [Table -> LockRecord(Data)]
       /\ type' \in [Data -> Types] /\ cond' \in [Data -> BOOLEAN]
       /\ TablesInv' /\ \A d \in Data : Easing(d)
  BY <1>4, <1>5, <1>8, <1>9, EasedStep
<1>11. GoesOn(t) /\ UNCHANGED <<locks, pos, new_lock_type>>
       /\ abort' \in [Thread -> BOOLEAN]
  BY DEF Unlock, GoesOn, IInv, SmallTypes
<1>12. QED
  BY <1>10, <1>11, EasyStep

\* A request that gives up.
LEMMA GiveUpStep ==
  ASSUME IInv, NEW t \in Thread, GiveUp(t)
  PROVE  IInv'
<1>1. PICK d, l : d = <<t, pos[t]>> /\ l = TableOf(d)
  OBVIOUS
<1>2. cond[d] /\ \E cannot \in BOOLEAN : Become(l, LeaveQueue(State(l), d, cannot))
  BY <1>1 DEF GiveUp
<1>3. PICK cannot \in BOOLEAN : Become(l, LeaveQueue(State(l), d, cannot))
  BY <1>2
<1>4. pos[t] \in DOMAIN locks[t]
  BY Position DEF GiveUp
<1>5. l \in Table /\ d \in DataOf(l)
  BY <1>1, <1>4, DataAt
<1>6. PICK s, s2 : s = State(l) /\ s2 = LeaveQueue(s, d, cannot)
  OBVIOUS
<1>7. /\ TableInv(s, DataOf(l)) /\ DataOf(l) \in SUBSET Data
      /\ s.ty = type /\ s.cd = cond
  BY <1>5, <1>6, AtTable
<1>8. s.cd[d]
  BY <1>2, <1>7
<1>9. TableInv(s2, DataOf(l)) /\ Eased(s, s2, DataOf(l)) /\ ~s2.cd[d]
  BY <1>5, <1>6, <1>7, <1>8, LeaveQueueFacts
<1>10. Become(l, s2) /\ UNCHANGED locks
  BY <1>3, <1>6 DEF GiveUp
<1>11. /\ lock' \in [Table -> LockRecord(Data)]
       /\ type' \in [Data -> Types] /\ cond' \in [Data -> BOOLEAN]
       /\ TablesInv' /\ \A e \in Data : Easing(e)
  BY <1>5, <1>6, <1>9, <1>10, EasedStep
<1>12. ~cond'[<<t, pos[t]>>]
  BY <1>1, <1>9, <1>10 DEF Become
<1>13. GoesOn(t)
  BY <1>12 DEF GiveUp, Goto, GoesOn, IInv, SmallTypes, PC
<1>14. UNCHANGED <<locks, pos, new_lock_type>> /\ abort' \in [Thread -> BOOLEAN]
  BY DEF GiveUp, IInv, SmallTypes
<1>15. QED
  BY <1>11, <1>13, <1>14, EasyStep

\* The requests of a thread are aborted.
LEMMA AbortStep ==
  ASSUME IInv, NEW t \in Thread, NEW l \in Table, AbortLocksForThread(t, l)
  PROVE  IInv'
<1>1. PICK s : s = State(l)
  OBVIOUS
<1>2. PICK cannot \in BOOLEAN : Become(l, WakeUpWaiters(Aborted(s, t), cannot))
  <2>1. \E cannot \in BOOLEAN : Become(l, WakeUpWaiters(Aborted(State(l), t), cannot))
    BY Zenon DEF AbortLocksForThread, Aborted, RequestsOf
  <2>2. QED
    BY <1>1, <2>1
<1>3. PICK s2 : s2 = WakeUpWaiters(Aborted(s, t), cannot)
  OBVIOUS
<1>4. TableInv(s, DataOf(l)) /\ DataOf(l) \in SUBSET Data
  BY <1>1, AtTable
<1>5. TableInv(s2, DataOf(l)) /\ Eased(s, s2, DataOf(l))
  BY <1>3, <1>4, AbortFacts
<1>6. Become(l, s2) /\ UNCHANGED locks
  BY <1>2, <1>3 DEF AbortLocksForThread
<1>7. /\ lock' \in [Table -> LockRecord(Data)]
      /\ type' \in [Data -> Types] /\ cond' \in [Data -> BOOLEAN]
      /\ TablesInv' /\ \A e \in Data : Easing(e)
  BY <1>1, <1>5, <1>6, EasedStep
<1>8. GoesOn(t) /\ UNCHANGED <<locks, pos, new_lock_type>>
      /\ abort' \in [Thread -> BOOLEAN]
  BY DEF AbortLocksForThread, GoesOn, IInv, SmallTypes
<1>9. QED
  BY <1>7, <1>8, EasyStep

\* KILL and the start of unlocking.
LEMMA KillAndBeginStep ==
  ASSUME IInv, NEW t \in Thread, Kill(t) \/ BeginUnlock(t)
  PROVE  IInv'
<1>1. UNCHANGED <<lock, type, cond, locks, pos, new_lock_type>>
  BY DEF Kill, BeginUnlock
<1>2. /\ lock' \in [Table -> LockRecord(Data)]
      /\ type' \in [Data -> Types] /\ cond' \in [Data -> BOOLEAN]
      /\ TablesInv' /\ \A e \in Data : Easing(e)
  BY <1>1, TablesFrame
<1>3. GoesOn(t) /\ abort' \in [Thread -> BOOLEAN]
  BY DEF Kill, BeginUnlock, Goto, GoesOn, IInv, SmallTypes, PC
<1>4. QED
  BY <1>1, <1>2, <1>3, EasyStep

\* Thread t has got or queued its request at pos[t] and goes on.
LEMMA AdvancedThread ==
  ASSUME NEW t \in Thread, SmallTypes, ThreadInv(t), pc[t] \in {"lock", "wait"},
         locks'[t] = locks[t], new_lock_type'[t] = new_lock_type[t],
         \A i \in 1..MaxLocks :
           i # pos[t] => /\ type'[<<t, i>>] = type[<<t, i>>]
                         /\ cond'[<<t, i>>] = cond[<<t, i>>],
         NEW p, p = pos[t], TypeFits(t, p)',
         cond'[<<t, pos[t]>>] =>
           type'[<<t, pos[t]>>] = TL_WRITE_DELAYED \/ pc'[t] = "wait",
         \/ pc'[t] = "held" /\ pos'[t] = pos[t]
         \/ pc'[t] = "wait" /\ pos'[t] = pos[t]
         \/ /\ pc'[t] = "lock" /\ pos'[t] = pos[t] + 1
            /\ pos[t] + 1 \in DOMAIN locks[t]
  PROVE  ThreadInv(t)'
<1>1. /\ ArrayInv(t) /\ Progress(t)
      /\ \A i \in DOMAIN locks[t] : TypeFits(t, i) /\ Waits(t, i)
      /\ \A i \in (1..MaxLocks) \ DOMAIN locks[t] :
           type[<<t, i>>] = TL_UNLOCK /\ ~cond[<<t, i>>]
  BY DEF ThreadInv
<1>2. ArrayInv(t)'
  BY <1>1 DEF ArrayInv
<1>3. DOMAIN locks[t] \subseteq 1..MaxLocks /\ DOMAIN locks[t] \subseteq Nat
  <2>1. /\ locks[t] \in Seq([table : Table, type : LockType])
        /\ Len(locks[t]) <= MaxLocks
    BY <1>1 DEF ArrayInv
  <2>2. DOMAIN locks[t] = 1..Len(locks[t]) /\ Len(locks[t]) \in Nat
    BY <2>1, LenProperties
  <2>3. QED
    BY <2>1, <2>2, DataFacts
<1>4. pos[t] \in DOMAIN locks[t] /\ locks[t] # <<>>
  BY <1>1 DEF Progress
<1>5. ASSUME NEW i \in DOMAIN locks[t] PROVE TypeFits(t, i)'
  <2>1. CASE i = pos[t]
    BY <2>1
  <2>2. CASE i # pos[t]
    <3>1. TypeFits(t, i) /\ type'[<<t, i>>] = type[<<t, i>>]
      BY <1>1, <1>3, <2>2
    <3>2. QED
      BY <3>1 DEF TypeFits
  <2>3. QED
    BY <2>1, <2>2
<1>6. ASSUME NEW i \in DOMAIN locks[t] PROVE Waits(t, i)'
  <2>1. SUFFICES ASSUME cond'[<<t, i>>]
                 PROVE  \/ pc'[t] \in {"wait", "upwait"} /\ i = pos'[t]
                        \/ type'[<<t, i>>] = TL_WRITE_DELAYED
    BY DEF Waits
  <2>2. CASE i = pos[t]
    BY <2>1, <2>2
  <2>3. CASE i # pos[t]
    <3>1. /\ Waits(t, i) /\ type'[<<t, i>>] = type[<<t, i>>]
          /\ cond'[<<t, i>>] = cond[<<t, i>>]
      BY <1>1, <1>3, <2>3
    <3>2. QED
      BY <2>1, <2>3, <3>1 DEF Waits
  <2>4. QED
    BY <2>2, <2>3
<1>7. \A i \in (1..MaxLocks) \ DOMAIN locks[t] :
        type'[<<t, i>>] = TL_UNLOCK /\ ~cond'[<<t, i>>]
  BY <1>1, <1>4
<1>8. ASSUME NEW i \in DOMAIN locks[t], i > pos[t] PROVE type'[<<t, i>>] = TL_UNLOCK
  <2>1. i # pos[t] /\ i >= pos[t] /\ i \in 1..MaxLocks
    BY <1>3, <1>4, <1>8
  <2>2. type[<<t, i>>] = TL_UNLOCK
    BY <1>1, <1>8, <2>1 DEF Progress
  <2>3. QED
    BY <2>1, <2>2
<1>9. Progress(t)'
  <2>1. /\ pc'[t] # "idle" /\ locks'[t] # <<>> /\ pos'[t] \in DOMAIN locks'[t]
    BY <1>4
  <2>2. ASSUME pc'[t] = "lock", NEW i \in DOMAIN locks'[t], i >= pos'[t]
        PROVE  type'[<<t, i>>] = TL_UNLOCK
    <3>1. i \in DOMAIN locks[t] /\ i > pos[t]
      BY <1>3, <1>4, <2>2
    <3>2. QED
      BY <1>8, <3>1
  <2>3. ASSUME pc'[t] = "wait", NEW i \in DOMAIN locks'[t], i > pos'[t]
        PROVE  type'[<<t, i>>] = TL_UNLOCK
    <3>1. i \in DOMAIN locks[t] /\ i > pos[t]
      BY <2>3
    <3>2. QED
      BY <1>8, <3>1
  <2>4. QED
    BY <2>1, <2>2, <2>3 DEF Progress
<1>10. \A i \in DOMAIN locks'[t] : TypeFits(t, i)' /\ Waits(t, i)'
  BY <1>5, <1>6
<1>11. QED
  BY <1>2, <1>7, <1>9, <1>10 DEF ThreadInv

\* Where Advance leads.
LEMMA AdvanceFacts ==
  ASSUME IInv, NEW t \in Thread, pc[t] # "idle", Advance(t)
  PROVE  /\ \/ pc'[t] = "held" /\ pos'[t] = pos[t]
            \/ /\ pc'[t] = "lock" /\ pos'[t] = pos[t] + 1
               /\ pos[t] + 1 \in DOMAIN locks[t]
         /\ pc' \in [Thread -> PC] /\ pos' \in [Thread -> 1..MaxLocks]
         /\ \A u \in Thread : u # t => pc'[u] = pc[u] /\ pos'[u] = pos[u]
<1>1. /\ pos[t] \in DOMAIN locks[t] /\ pos \in [Thread -> 1..MaxLocks]
      /\ pc \in [Thread -> PC]
      /\ locks[t] \in Seq([table : Table, type : LockType])
  BY Position DEF IInv, SmallTypes
<1>2. DOMAIN locks[t] = 1..Len(locks[t]) /\ Len(locks[t]) \in Nat
  BY <1>1, LenProperties
<1>3. CASE pos[t] = Len(locks[t])
  BY <1>1, <1>3 DEF Advance, Goto, PC
<1>4. CASE pos[t] # Len(locks[t])
  <2>1. pos[t] + 1 \in DOMAIN locks[t]
    BY <1>1, <1>2, <1>4
  <2>2. pos[t] + 1 \in 1..MaxLocks
    BY <2>1, DataAt
  <2>3. QED
    BY <1>1, <1>4, <2>1, <2>2 DEF Advance, Goto, PC
<1>5. QED
  BY <1>3, <1>4

\* A wait that is over.
LEMMA WokenStep ==
  ASSUME IInv, NEW t \in Thread, Woken(t)
  PROVE  IInv'
<1>1. /\ pc[t] \in {"wait", "upwait"} /\ ~cond[<<t, pos[t]>>]
      /\ UNCHANGED <<lock, type, cond, abort, locks, new_lock_type>>
  BY DEF Woken
<1>2. /\ lock' \in [Table -> LockRecord(Data)]
      /\ type' \in [Data -> Types] /\ cond' \in [Data -> BOOLEAN]
      /\ TablesInv' /\ \A e \in Data : Easing(e)
  BY <1>1, TablesFrame
<1>3. ASSUME NEW p \in {"held", "giveup", "unlock"}, Goto(t, p), UNCHANGED pos
      PROVE  IInv'
  <2>1. GoesOn(t)
    BY <1>1, <1>3 DEF Goto, GoesOn, IInv, SmallTypes, PC
  <2>2. abort' \in [Thread -> BOOLEAN]
    BY <1>1 DEF IInv, SmallTypes
  <2>3. QED
    BY <1>1, <1>2, <1>3, <2>1, <2>2, EasyStep
<1>4. ASSUME pc[t] = "wait", Advance(t)
      PROVE  IInv'
  <2>1. /\ \/ pc'[t] = "held" /\ pos'[t] = pos[t]
           \/ /\ pc'[t] = "lock" /\ pos'[t] = pos[t] + 1
              /\ pos[t] + 1 \in DOMAIN locks[t]
        /\ pc' \in [Thread -> PC] /\ pos' \in [Thread -> 1..MaxLocks]
        /\ \A u \in Thread : u # t => pc'[u] = pc[u] /\ pos'[u] = pos[u]
    BY <1>4, AdvanceFacts
  <2>2. SmallTypes'
    BY <1>1, <1>2, <2>1 DEF IInv, SmallTypes
  <2>3. SmallTypes /\ \A u \in Thread : ThreadInv(u)
    BY DEF IInv
  <2>4. ASSUME NEW u \in Thread, u # t PROVE ThreadInv(u)'
    BY <1>1, <2>1, <2>3, <2>4, ThreadFrame
  <2>5. ThreadInv(t)'
    <3>1. PICK p : p = pos[t]
      OBVIOUS
    <3>2. TypeFits(t, p)
      BY <1>4, <3>1, Position DEF IInv, ThreadInv
    <3>3. TypeFits(t, p)'
      BY <1>1, <3>2 DEF TypeFits
    <3>4. QED
      BY <1>1, <1>4, <2>1, <2>3, <3>1, <3>3, AdvancedThread
  <2>6. QED
    BY <1>2, <2>2, <2>4, <2>5 DEF IInv
<1>5. QED
  BY <1>1, <1>3, <1>4 DEF Woken

\* A lock data of table l is an element for l of the array of its thread.
LEMMA DataOfElement ==
  ASSUME IInv, NEW l \in Table, NEW d \in DataOf(l)
  PROVE  /\ d[1] \in Thread /\ d[2] \in DOMAIN locks[d[1]] /\ d = <<d[1], d[2]>>
         /\ locks[d[1]][d[2]].table = l /\ Owner(d) = d[1]
         /\ TypeFits(d[1], d[2]) /\ ArrayInv(d[1]) /\ Progress(d[1])
<1>1. /\ d \in Data /\ d[2] \in DOMAIN locks[d[1]] /\ locks[d[1]][d[2]].table = l
  BY DEF DataOf, TableOf
<1>2. d[1] \in Thread /\ d = <<d[1], d[2]>>
  BY <1>1 DEF Data
<1>3. ThreadInv(d[1])
  BY <1>2 DEF IInv
<1>4. TypeFits(d[1], d[2]) /\ ArrayInv(d[1]) /\ Progress(d[1])
  BY <1>1, <1>3 DEF ThreadInv
<1>5. QED
  BY <1>1, <1>2, <1>4 DEF Owner

\* A thread that has a lock of INSERT DELAYED has no other.
LEMMA DelayedHasOne ==
  ASSUME IInv, NEW l \in Table, NEW d \in DataOf(l), type[d] = TL_WRITE_DELAYED
  PROVE  /\ Len(locks[d[1]]) = 1 /\ d[2] = 1
         /\ locks[d[1]][1].type = TL_WRITE_DELAYED
<1>1. PICK t, i : t = d[1] /\ i = d[2]
  OBVIOUS
<1>2. /\ t \in Thread /\ i \in DOMAIN locks[t] /\ d = <<t, i>>
      /\ TypeFits(t, i) /\ ArrayInv(t)
  BY <1>1, DataOfElement
<1>3. DelayedTypes \subseteq {TL_WRITE, TL_WRITE_LOW_PRIORITY}
  BY ThrLockAssumption
<1>4. type[<<t, i>>] \notin {TL_UNLOCK, TL_WRITE, TL_WRITE_LOW_PRIORITY}
  BY <1>2, TypeNumbers
<1>5. locks[t][i].type = TL_WRITE_DELAYED
  BY <1>2, <1>3, <1>4 DEF TypeFits
<1>6. Len(locks[t]) = 1 /\ locks[t] \in Seq([table : Table, type : LockType])
  BY <1>2, <1>5 DEF ArrayInv
<1>7. DOMAIN locks[t] = 1..Len(locks[t])
  BY <1>6, LenProperties
<1>8. i = 1
  BY <1>2, <1>6, <1>7
<1>9. QED
  BY <1>1, <1>5, <1>6, <1>8

\* The same, of the active writers.
LEMMA DelayedIsAlone ==
  ASSUME IInv, NEW l \in Table
  PROVE  DelayedAlone(State(l))
<1>1. /\ State(l).lk = lock[l] /\ State(l).ty = type
      /\ State(l) \in States(DataOf(l))
  BY AtTable DEF TableInv, Consistent
<1>2. ToSet(State(l).lk.write) \subseteq DataOf(l)
  BY <1>1, Parts, HeadFacts
<1>3. SUFFICES ASSUME NEW w \in ToSet(State(l).lk.write),
                      NEW x \in ToSet(State(l).lk.write),
                      type[w] = TL_WRITE_DELAYED, Owner(w) = Owner(x)
               PROVE  w = x
  BY <1>1 DEF DelayedAlone
<1>4. w \in DataOf(l) /\ x \in DataOf(l)
  BY <1>2
<1>5. w[1] = x[1]
  BY <1>3 DEF Owner
<1>6. Len(locks[w[1]]) = 1 /\ w[2] = 1
  BY <1>3, <1>4, DelayedHasOne
<1>7. x[2] \in DOMAIN locks[x[1]] /\ x = <<x[1], x[2]>> /\ ArrayInv(x[1])
  BY <1>4, DataOfElement
<1>8. w = <<w[1], w[2]>>
  BY <1>4, DataOfElement
<1>9. locks[x[1]] \in Seq([table : Table, type : LockType])
  BY <1>7 DEF ArrayInv
<1>10. DOMAIN locks[x[1]] = 1..Len(locks[x[1]])
  BY <1>9, LenProperties
<1>11. x[2] = 1
  <2>1. Len(locks[x[1]]) = 1
    BY <1>5, <1>6
  <2>2. PICK j : j = x[2]
    OBVIOUS
  <2>3. j \in 1..1
    BY <1>7, <1>10, <2>1, <2>2
  <2>4. QED
    BY <2>2, <2>3
<1>12. QED
  BY <1>5, <1>6, <1>7, <1>8, <1>11

\* The locks a thread already has on the table of its next request come before
\* it in the array.
LEMMA OlderLocks ==
  ASSUME IInv, NEW t \in Thread, pc[t] = "lock", NEW l,
         l = TableOf(<<t, pos[t]>>),
         NEW o \in DataOf(l), Owner(o) = t, type[o] # TL_UNLOCK
  PROVE  /\ locks[t][o[2]].type \in LockType /\ locks[t][pos[t]].type \in LockType
         /\ locks[t][o[2]].type >= locks[t][pos[t]].type
         /\ locks[t][o[2]].type # TL_WRITE_DELAYED
         /\ TypeFits(t, o[2]) /\ o = <<t, o[2]>>
         /\ locks[t][o[2]].table = l
         /\ \/ type[o] = locks[t][o[2]].type
            \/ type[o] \in {TL_WRITE, TL_WRITE_LOW_PRIORITY}
<1>1. pos[t] \in DOMAIN locks[t] /\ l \in Table
  BY Position, DataAt
<1>2. PICK i : i = o[2]
  OBVIOUS
<1>3. /\ i \in DOMAIN locks[t] /\ o = <<t, i>> /\ locks[t][i].table = l
      /\ TypeFits(t, i) /\ ArrayInv(t) /\ Progress(t)
  BY <1>1, <1>2, DataOfElement DEF Owner
<1>4. locks[t] \in Seq([table : Table, type : LockType])
  BY <1>3 DEF ArrayInv
<1>5. DOMAIN locks[t] = 1..Len(locks[t]) /\ Len(locks[t]) \in Nat
  BY <1>4, LenProperties
<1>6. i < pos[t]
  <2>1. i \in Nat /\ pos[t] \in Nat
    BY <1>1, <1>3, <1>5
  <2>2. ~(i >= pos[t])
    BY <1>3 DEF Progress
  <2>3. QED
    BY <2>1, <2>2
<1>7. locks[t][pos[t]].table = l
  BY DEF TableOf
<1>8. locks[t][i].type >= locks[t][pos[t]].type
  BY <1>1, <1>3, <1>6, <1>7 DEF ArrayInv
<1>9. locks[t][i].type # TL_WRITE_DELAYED
  <2>1. SUFFICES ASSUME locks[t][i].type = TL_WRITE_DELAYED PROVE FALSE
    OBVIOUS
  <2>2. Len(locks[t]) = 1
    BY <1>3, <2>1 DEF ArrayInv
  <2>3. QED
    BY <1>1, <1>3, <1>5, <1>6, <2>2
<1>10. locks[t][i].type \in LockType /\ locks[t][pos[t]].type \in LockType
  BY <1>1, <1>3, DataAt
<1>11. \/ type[o] = locks[t][i].type
       \/ type[o] \in {TL_WRITE, TL_WRITE_LOW_PRIORITY}
  BY <1>3, <1>9 DEF TypeFits
<1>12. QED
  BY <1>2, <1>3, <1>8, <1>9, <1>10, <1>11

\* Hence they are at least as strong.
LEMMA OldLocksAreStronger ==
  ASSUME IInv, NEW t \in Thread, pc[t] = "lock", NEW d, d = <<t, pos[t]>>,
         NEW l, l = TableOf(d), NEW cannot \in BOOLEAN, NEW ty,
         ty = TypeInUse(State(l), l, locks[t][pos[t]].type, cannot)
  PROVE  OldLocksStronger(State(l), d, ty)
<1>1. l \in Table
  BY Position, DataAt
<1>2. /\ State(l).lk = lock[l] /\ State(l).ty = type
      /\ State(l) \in States(DataOf(l)) /\ Apart(State(l))
  BY <1>1, AtTable DEF TableInv, Consistent
<1>3. State(l).lk.write \in Seq(DataOf(l))
  BY <1>2, Parts
<1>4. /\ ToSet(State(l).lk.write) \subseteq DataOf(l)
      /\ State(l).lk.write = <<>> <=> ToSet(State(l).lk.write) = {}
  BY <1>3, HeadFacts
<1>5. SUFFICES ASSUME NEW o \in ToSet(State(l).lk.write), Owner(o) = t
               PROVE  \/ type[o] >= TL_WRITE_LOW_PRIORITY
                      \/ type[o] >= ty /\ type[o] # TL_WRITE_DELAYED
  BY <1>2 DEF OldLocksStronger, Owner
<1>6. type[o] \in WriteTypes /\ type[o] # TL_UNLOCK
  BY <1>2, TypeNumbers DEF Apart
<1>7. PICK a, b : a = locks[t][o[2]].type /\ b = locks[t][pos[t]].type
  OBVIOUS
<1>8. /\ a \in LockType /\ b \in LockType /\ a >= b /\ a # TL_WRITE_DELAYED
      /\ TypeFits(t, o[2]) /\ o = <<t, o[2]>> /\ locks[t][o[2]].table = l
      /\ type[o] = a \/ type[o] \in {TL_WRITE, TL_WRITE_LOW_PRIORITY}
  BY <1>4, <1>5, <1>6, <1>7, OlderLocks
<1>9. CASE type[o] \in {TL_WRITE, TL_WRITE_LOW_PRIORITY}
  BY <1>9, TypeNumbers
<1>10. CASE type[o] = a
  <2>1. CASE ty = b
    BY <1>8, <1>10, <2>1
  <2>2. CASE ty # b
    <3>1. State(l).lk.write # <<>>
      BY <1>4, <1>5
    <3>2. b = TL_WRITE_CONCURRENT_INSERT /\ l \notin WithCheckStatus
      BY <1>7, <2>2, <3>1 DEF TypeInUse
    <3>3. a # TL_WRITE_CONCURRENT_INSERT
      BY <1>6, <1>7, <1>8, <1>10, <3>2, TypeNumbers DEF TypeFits
    <3>4. QED
      BY <1>8, <1>10, <3>2, <3>3, TypeNumbers
  <2>3. QED
    BY <2>1, <2>2
<1>11. QED
  BY <1>8, <1>9, <1>10

\* The cases of thr_lock.
LEMMA LockCases ==
  ASSUME NEW t \in Thread, Lock(t), NEW d, d = <<t, pos[t]>>,
         NEW l, l = TableOf(d), NEW s, s = State(l)
  PROVE  \E cannot, ty, s1 :
           /\ cannot \in BOOLEAN
           /\ ty = TypeInUse(s, l, locks[t][pos[t]].type, cannot)
           /\ s1 = Requested(s, d, ty)
           /\ \/ /\ ty = TL_WRITE_DELAYED /\ (s1.lk.write # <<>> \/ s1.lk.read # <<>>)
                 /\ Become(l, Queued(s1, d, ty)) /\ Advance(t)
              \/ /\ AtOnce(s1, t, ty)
                 /\ Become(l, Granted(s1, d, ty)) /\ Advance(t)
              \/ /\ ~AtOnce(s1, t, ty)
                 /\ Become(l, Queued(s1, d, ty)) /\ Goto(t, "wait") /\ UNCHANGED pos
<1>1. PICK cannot \in BOOLEAN :
        LET ty == TypeInUse(s, l, locks[t][pos[t]].type, cannot)
            s1 == Requested(s, d, ty)
        IN IF ty = TL_WRITE_DELAYED /\ (s1.lk.write # <<>> \/ s1.lk.read # <<>>)
           THEN Become(l, Queued(s1, d, ty)) /\ Advance(t)
           ELSE IF AtOnce(s1, t, ty)
           THEN Become(l, Granted(s1, d, ty)) /\ Advance(t)
           ELSE Become(l, Queued(s1, d, ty)) /\ Goto(t, "wait") /\ UNCHANGED pos
  BY Zenon DEF Lock, Requested, AtOnce
<1>2. PICK ty : ty = TypeInUse(s, l, locks[t][pos[t]].type, cannot)
  OBVIOUS
<1>3. PICK s1 : s1 = Requested(s, d, ty)
  OBVIOUS
<1>4. IF ty = TL_WRITE_DELAYED /\ (s1.lk.write # <<>> \/ s1.lk.read # <<>>)
      THEN Become(l, Queued(s1, d, ty)) /\ Advance(t)
      ELSE IF AtOnce(s1, t, ty)
      THEN Become(l, Granted(s1, d, ty)) /\ Advance(t)
      ELSE Become(l, Queued(s1, d, ty)) /\ Goto(t, "wait") /\ UNCHANGED pos
  BY <1>1, <1>2, <1>3, Zenon
<1>5. cannot \in BOOLEAN
  BY <1>1
<1>6. WITNESS cannot, ty, s1
<1>7. QED
  BY <1>2, <1>3, <1>4, <1>5, Zenon

\* thr_lock has given d the type ty, and it waits if c: all threads and tables
\* remain in order.
LEMMA LockedStep ==
  ASSUME IInv, NEW t \in Thread, Lock(t), NEW d, d = <<t, pos[t]>>,
         NEW l, l = TableOf(d), NEW cannot \in BOOLEAN, NEW ty,
         ty = TypeInUse(State(l), l, locks[t][pos[t]].type, cannot),
         NEW s2, NEW c \in BOOLEAN, TableInv(s2, DataOf(l)),
         Set(State(l), s2, d, ty, c), Become(l, s2),
         \/ Advance(t) /\ (c => ty = TL_WRITE_DELAYED)
         \/ Goto(t, "wait") /\ UNCHANGED pos
  PROVE  IInv'
<1>1. /\ pc[t] = "lock" /\ UNCHANGED <<abort, locks, new_lock_type>>
  BY DEF Lock
<1>2. pos[t] \in DOMAIN locks[t]
  BY <1>1, Position
<1>3. /\ l \in Table /\ d \in DataOf(l) /\ d \in Data
      /\ locks[t][pos[t]] \in [table : Table, type : LockType]
      /\ l = locks[t][pos[t]].table
  BY <1>2, DataAt
<1>4. State(l).ty = type /\ State(l).cd = cond
  BY <1>3, AtTable
<1>5. /\ \A e \in Data : e # d => s2.ty[e] = type[e] /\ s2.cd[e] = cond[e]
      /\ s2.ty[d] = ty /\ s2.cd[d] = c
  BY <1>4 DEF Set
<1>6. /\ lock' \in [Table -> LockRecord(Data)]
      /\ type' \in [Data -> Types] /\ cond' \in [Data -> BOOLEAN]
      /\ TablesInv'
  <2>1. \A e \in Data \ DataOf(l) : s2.ty[e] = type[e] /\ s2.cd[e] = cond[e]
    BY <1>3, <1>5
  <2>2. SmallTypes /\ TablesInv
    BY DEF IInv
  <2>3. QED
    BY <1>1, <1>3, <2>1, <2>2, TablesStep
<1>7. /\ \A e \in Data : e # d => type'[e] = type[e] /\ cond'[e] = cond[e]
      /\ type'[d] = ty /\ cond'[d] = c
  BY <1>5 DEF Become
<1>8. /\ \/ pc'[t] = "held" /\ pos'[t] = pos[t] /\ (c => ty = TL_WRITE_DELAYED)
         \/ pc'[t] = "wait" /\ pos'[t] = pos[t]
         \/ /\ pc'[t] = "lock" /\ pos'[t] = pos[t] + 1
            /\ pos[t] + 1 \in DOMAIN locks[t] /\ (c => ty = TL_WRITE_DELAYED)
      /\ pc' \in [Thread -> PC] /\ pos' \in [Thread -> 1..MaxLocks]
      /\ \A u \in Thread : u # t => pc'[u] = pc[u] /\ pos'[u] = pos[u]
  <2>1. CASE Advance(t) /\ (c => ty = TL_WRITE_DELAYED)
    <3>1. pc[t] # "idle"
      BY <1>1
    <3>2. QED
      BY <2>1, <3>1, AdvanceFacts
  <2>2. CASE Goto(t, "wait") /\ UNCHANGED pos
    BY <2>2 DEF Goto, IInv, SmallTypes, PC
  <2>3. QED
    BY <2>1, <2>2
<1>9. SmallTypes'
  BY <1>1, <1>6, <1>8 DEF IInv, SmallTypes
<1>10. SmallTypes /\ \A u \in Thread : ThreadInv(u)
  BY DEF IInv
<1>11. ASSUME NEW u \in Thread, u # t PROVE ThreadInv(u)'
  <2>1. \A i \in 1..MaxLocks : /\ type'[<<u, i>>] = type[<<u, i>>]
                               /\ cond'[<<u, i>>] = cond[<<u, i>>]
    BY <1>7, <1>11 DEF Data
  <2>2. QED
    BY <1>1, <1>8, <1>10, <1>11, <2>1, ThreadFrame
<1>12. ThreadInv(t)'
  <2>1. \A i \in 1..MaxLocks :
          i # pos[t] => /\ type'[<<t, i>>] = type[<<t, i>>]
                        /\ cond'[<<t, i>>] = cond[<<t, i>>]
    BY <1>7 DEF Data
  <2>2. PICK p : p = pos[t]
    OBVIOUS
  <2>3. TypeFits(t, p)'
    <3>1. PICK r : r = locks[t][p]
      OBVIOUS
    <3>2. \/ ty = r.type /\ (ty = TL_WRITE_CONCURRENT_INSERT =>
                               r.table \in WithCheckStatus)
          \/ /\ r.type = TL_WRITE_CONCURRENT_INSERT
             /\ ty = upgraded_insert_lock
      BY <1>3, <2>2, <3>1 DEF TypeInUse
    <3>3. upgraded_insert_lock \in {TL_WRITE, TL_WRITE_LOW_PRIORITY}
      BY ThrLockAssumption
    <3>4. type'[<<t, p>>] = ty /\ locks'[t][p] = r
      BY <1>1, <1>7, <2>2, <3>1
    <3>5. QED
      BY <3>2, <3>3, <3>4 DEF TypeFits
  <2>4. cond'[<<t, pos[t]>>] =>
          type'[<<t, pos[t]>>] = TL_WRITE_DELAYED \/ pc'[t] = "wait"
    BY <1>7, <1>8
  <2>5. /\ pc[t] \in {"lock", "wait"}
        /\ locks'[t] = locks[t] /\ new_lock_type'[t] = new_lock_type[t]
    BY <1>1
  <2>6. QED
    BY <1>8, <1>10, <2>1, <2>2, <2>3, <2>4, <2>5, AdvancedThread
<1>13. QED
  BY <1>6, <1>9, <1>11, <1>12 DEF IInv

\* thr_lock keeps everything in order.
LEMMA LockStep ==
  ASSUME IInv, NEW t \in Thread, Lock(t)
  PROVE  IInv'
<1>1. PICK d, l : d = <<t, pos[t]>> /\ l = TableOf(d)
  OBVIOUS
<1>2. PICK s : s = State(l)
  OBVIOUS
<1>3. pc[t] = "lock" /\ pos[t] \in DOMAIN locks[t]
  BY Position DEF Lock
<1>4. /\ l \in Table /\ d \in DataOf(l) /\ Owner(d) = t
      /\ locks[t][pos[t]] \in [table : Table, type : LockType]
  BY <1>1, <1>3, DataAt
<1>5. PICK cannot, ty, s1 :
        /\ cannot \in BOOLEAN
        /\ ty = TypeInUse(s, l, locks[t][pos[t]].type, cannot)
        /\ s1 = Requested(s, d, ty)
        /\ \/ /\ ty = TL_WRITE_DELAYED /\ (s1.lk.write # <<>> \/ s1.lk.read # <<>>)
              /\ Become(l, Queued(s1, d, ty)) /\ Advance(t)
           \/ /\ AtOnce(s1, t, ty)
              /\ Become(l, Granted(s1, d, ty)) /\ Advance(t)
           \/ /\ ~AtOnce(s1, t, ty)
              /\ Become(l, Queued(s1, d, ty)) /\ Goto(t, "wait") /\ UNCHANGED pos
  BY <1>1, <1>2, LockCases
<1>6. ty \in LockType
  <2>1. upgraded_insert_lock \in LockType
    BY ThrLockAssumption DEF LockType
  <2>2. QED
    BY <1>4, <1>5, <2>1 DEF TypeInUse
<1>7. /\ TableInv(s, DataOf(l)) /\ DataOf(l) \in SUBSET Data /\ s.ty = type
  BY <1>2, <1>4, AtTable
<1>8. s.ty[d] = TL_UNLOCK
  <2>1. Progress(t) /\ pos[t] \in Nat
    BY <1>3 DEF IInv, ThreadInv, SmallTypes
  <2>2. pos[t] >= pos[t]
    BY <2>1
  <2>3. QED
    BY <1>1, <1>3, <1>7, <2>1, <2>2 DEF Progress
<1>9. DelayedAlone(s)
  BY <1>2, <1>4, DelayedIsAlone
<1>10. OldLocksStronger(s, d, ty)
  BY <1>1, <1>2, <1>3, <1>5, OldLocksAreStronger
<1>11. InOrderAfter(s, s1, d, ty, DataOf(l))
  BY <1>4, <1>5, <1>6, <1>7, <1>8, <1>9, <1>10, LockFacts
<1>12. PICK g, q : g = Granted(s1, d, ty) /\ q = Queued(s1, d, ty)
  OBVIOUS
<1>13. CASE AtOnce(s1, t, ty) /\ Become(l, g) /\ Advance(t)
  <2>1. TableInv(g, DataOf(l)) /\ Set(s, g, d, ty, FALSE)
    BY <1>4, <1>11, <1>12, <1>13 DEF InOrderAfter
  <2>2. QED
    BY <1>1, <1>2, <1>5, <1>13, <2>1, LockedStep
<1>14. CASE /\ ty = TL_WRITE_DELAYED /\ (s1.lk.write # <<>> \/ s1.lk.read # <<>>)
            /\ Become(l, q) /\ Advance(t)
  <2>1. TableInv(q, DataOf(l)) /\ Set(s, q, d, ty, TRUE)
    BY <1>4, <1>11, <1>12, <1>14 DEF InOrderAfter
  <2>2. QED
    BY <1>1, <1>2, <1>5, <1>14, <2>1, LockedStep
<1>15. CASE ~AtOnce(s1, t, ty) /\ Become(l, q) /\ Goto(t, "wait") /\ UNCHANGED pos
  <2>1. TableInv(q, DataOf(l)) /\ Set(s, q, d, ty, TRUE)
    BY <1>4, <1>11, <1>12, <1>15 DEF InOrderAfter
  <2>2. QED
    BY <1>1, <1>2, <1>5, <1>15, <2>1, LockedStep
<1>16. QED
  BY <1>5, <1>12, <1>13, <1>14, <1>15

\* The handler of INSERT DELAYED has one lock.
LEMMA DelayedFacts ==
  ASSUME IInv, NEW t \in Thread, IsDelayed(t), NEW d, d = <<t, 1>>,
         NEW l, l = TableOf(d)
  PROVE  /\ Len(locks[t]) = 1 /\ DOMAIN locks[t] = {1}
         /\ locks[t][1].type = TL_WRITE_DELAYED
         /\ new_lock_type[t] \in DelayedTypes
         /\ l \in Table /\ d \in DataOf(l) /\ d \in Data
         /\ type[d] \in DelayedTypes \cup {TL_WRITE_DELAYED, TL_UNLOCK}
<1>1. PICK i \in 1..Len(locks[t]) : locks[t][i].type = TL_WRITE_DELAYED
  BY DEF IsDelayed
<1>2. ArrayInv(t) /\ \A j \in DOMAIN locks[t] : TypeFits(t, j)
  BY DEF IInv, ThreadInv
<1>3. DOMAIN locks[t] = 1..Len(locks[t])
  BY <1>2, LenProperties DEF ArrayInv
<1>4. Len(locks[t]) = 1 /\ new_lock_type[t] \in DelayedTypes
  BY <1>1, <1>2, <1>3 DEF ArrayInv
<1>5. i = 1 /\ DOMAIN locks[t] = {1}
  BY <1>1, <1>3, <1>4
<1>6. 1 \in DOMAIN locks[t] /\ TypeFits(t, 1)
  BY <1>2, <1>5
<1>7. l \in Table /\ d \in DataOf(l) /\ d \in Data
  BY <1>6, DataAt
<1>8. TL_WRITE_DELAYED # TL_WRITE_CONCURRENT_INSERT
  BY TypeNumbers
<1>9. type[d] \in DelayedTypes \cup {TL_WRITE_DELAYED, TL_UNLOCK}
  BY <1>1, <1>5, <1>6, <1>8 DEF TypeFits
<1>10. QED
  BY <1>1, <1>4, <1>5, <1>7, <1>9

\* While its lock is active nobody else writes.
LEMMA OnlyWriter ==
  ASSUME IInv, NEW t \in Thread, IsDelayed(t), NEW d, d = <<t, 1>>,
         NEW l, l = TableOf(d), type[d] # TL_UNLOCK, ~cond[d]
  PROVE  /\ type[d] \in WriteTypes
         /\ \A w \in ToSet(State(l).lk.write) : w = d
<1>1. /\ Len(locks[t]) = 1 /\ DOMAIN locks[t] = {1}
      /\ l \in Table /\ d \in DataOf(l) /\ d \in Data
      /\ type[d] \in DelayedTypes \cup {TL_WRITE_DELAYED, TL_UNLOCK}
  BY DelayedFacts
<1>2. DelayedTypes \subseteq {TL_WRITE, TL_WRITE_LOW_PRIORITY}
  BY ThrLockAssumption
<1>3. /\ type[d] \in WriteTypes /\ type[d] \notin ReadTypes
      /\ type[d] # TL_WRITE_ALLOW_WRITE
  <2>1. type[d] \in {TL_WRITE, TL_WRITE_LOW_PRIORITY, TL_WRITE_DELAYED}
    BY <1>1, <1>2
  <2>2. QED
    BY <2>1, TypeNumbers
<1>4. PICK s : s = State(l)
  OBVIOUS
<1>5. TableInv(s, DataOf(l)) /\ s.ty = type /\ s.cd = cond
  BY <1>1, <1>4, AtTable
<1>6. /\ s \in States(DataOf(l)) /\ Apart(s) /\ Listed(s, DataOf(l))
      /\ WritersTolerate(s)
  BY <1>5 DEF TableInv, Consistent, Tolerant
<1>7. d \in ToSet(s.lk.write)
  BY <1>1, <1>3, <1>5, <1>6 DEF Apart, Listed
<1>8. ToSet(s.lk.write) \subseteq DataOf(l)
  BY <1>6, Parts, HeadFacts
<1>9. ASSUME NEW w \in ToSet(s.lk.write) PROVE w = d
  <2>1. Owner(w) = Owner(d)
    BY <1>3, <1>5, <1>6, <1>7 DEF WritersTolerate
  <2>2. w[1] = t
    BY <2>1 DEF Owner
  <2>3. w[2] \in DOMAIN locks[w[1]] /\ w = <<w[1], w[2]>>
    BY <1>1, <1>8, DataOfElement
  <2>4. w[2] = 1
    BY <1>1, <2>2, <2>3
  <2>5. QED
    BY <2>2, <2>3, <2>4
<1>10. QED
  BY <1>3, <1>4, <1>9

\* What the handler of INSERT DELAYED may do with its lock.
LEMMA DelayedThread ==
  ASSUME IInv, NEW t \in Thread, IsDelayed(t), pc[t] # "idle",
         locks'[t] = locks[t], pos'[t] = pos[t], new_lock_type'[t] \in DelayedTypes,
         pc'[t] \in {"held", "upwait", "upgrade"},
         \A i \in 1..MaxLocks :
           i # 1 => type'[<<t, i>>] = type[<<t, i>>] /\ (cond'[<<t, i>>] => cond[<<t, i>>]),
         type'[<<t, 1>>] \in DelayedTypes \cup {TL_WRITE_DELAYED},
         cond'[<<t, 1>>] => type'[<<t, 1>>] = TL_WRITE_DELAYED \/ pc'[t] = "upwait"
  PROVE  ThreadInv(t)'
<1>1. /\ Len(locks[t]) = 1 /\ DOMAIN locks[t] = {1}
      /\ locks[t][1].type = TL_WRITE_DELAYED
  BY DelayedFacts
<1>2. /\ ArrayInv(t) /\ Progress(t)
      /\ \A i \in (1..MaxLocks) \ DOMAIN locks[t] :
           type[<<t, i>>] = TL_UNLOCK /\ ~cond[<<t, i>>]
  BY DEF IInv, ThreadInv
<1>3. ArrayInv(t)'
  BY <1>1, <1>2 DEF ArrayInv
<1>4. pos[t] = 1 /\ locks[t] # <<>>
  BY <1>1, <1>2 DEF Progress
<1>5. TypeFits(t, 1)'
  <2>1. TL_WRITE_DELAYED # TL_WRITE_CONCURRENT_INSERT
    BY TypeNumbers
  <2>2. QED
    BY <1>1, <2>1 DEF TypeFits
<1>6. Waits(t, 1)'
  BY <1>4 DEF Waits
<1>7. \A i \in (1..MaxLocks) \ DOMAIN locks'[t] :
        type'[<<t, i>>] = TL_UNLOCK /\ ~cond'[<<t, i>>]
  BY <1>1, <1>2
<1>8. Progress(t)'
  BY <1>1, <1>4 DEF Progress
<1>9. \A i \in DOMAIN locks'[t] : TypeFits(t, i)' /\ Waits(t, i)'
  BY <1>1, <1>5, <1>6
<1>10. QED
  BY <1>3, <1>7, <1>8, <1>9 DEF ThreadInv

\* From s to s2 the lock d of INSERT DELAYED may have changed, and waits of
\* others may have ended.
DelayedChange(s, s2, d, D) ==
  /\ \A e \in Data : e # d => s2.ty[e] = s.ty[e] /\ (s2.cd[e] => s.cd[e])
  /\ \A e \in Data \ D : s2.ty[e] = s.ty[e] /\ s2.cd[e] = s.cd[e]
  /\ s2.ty[d] \in DelayedTypes \cup {TL_WRITE_DELAYED}

\* Such a step keeps everything in order.
LEMMA DelayedStep ==
  ASSUME IInv, NEW t \in Thread, IsDelayed(t), pc[t] \in {"held", "upgrade"},
         NEW d, d = <<t, 1>>, NEW l, l = TableOf(d),
         NEW s2, TableInv(s2, DataOf(l)), Become(l, s2),
         DelayedChange(State(l), s2, d, DataOf(l)),
         UNCHANGED <<abort, locks, pos>>,
         NEW n \in DelayedTypes, new_lock_type' = [new_lock_type EXCEPT ![t] = n],
         NEW p \in {"held", "upwait", "upgrade"}, Goto(t, p),
         s2.cd[d] => s2.ty[d] = TL_WRITE_DELAYED \/ p = "upwait"
  PROVE  IInv'
<1>1. l \in Table /\ d \in DataOf(l) /\ d \in Data
  BY DelayedFacts
<1>2. State(l).ty = type /\ State(l).cd = cond
  BY <1>1, AtTable
<1>3. /\ \A e \in Data : e # d => s2.ty[e] = type[e] /\ (s2.cd[e] => cond[e])
      /\ \A e \in Data \ DataOf(l) : s2.ty[e] = type[e] /\ s2.cd[e] = cond[e]
      /\ s2.ty[d] \in DelayedTypes \cup {TL_WRITE_DELAYED}
  BY <1>2 DEF DelayedChange
<1>4. /\ lock' \in [Table -> LockRecord(Data)]
      /\ type' \in [Data -> Types] /\ cond' \in [Data -> BOOLEAN]
      /\ TablesInv'
  <2>1. SmallTypes /\ TablesInv
    BY DEF IInv
  <2>2. QED
    BY <1>1, <1>3, <2>1, TablesStep
<1>5. /\ \A e \in Data : e # d => type'[e] = type[e] /\ (cond'[e] => cond[e])
      /\ type'[d] \in DelayedTypes \cup {TL_WRITE_DELAYED}
      /\ cond'[d] => type'[d] = TL_WRITE_DELAYED \/ p = "upwait"
  BY <1>3 DEF Become
<1>6. /\ pc' \in [Thread -> PC] /\ pc'[t] = p
      /\ \A u \in Thread : u # t => pc'[u] = pc[u]
  BY DEF Goto, IInv, SmallTypes, PC
<1>7. /\ new_lock_type' \in [Thread -> DelayedTypes \cup {TL_UNLOCK}]
      /\ new_lock_type'[t] = n
      /\ \A u \in Thread : u # t => new_lock_type'[u] = new_lock_type[u]
  BY DEF IInv, SmallTypes
<1>8. SmallTypes'
  BY <1>4, <1>6, <1>7 DEF IInv, SmallTypes
<1>9. SmallTypes /\ \A u \in Thread : ThreadInv(u)
  BY DEF IInv
<1>10. ASSUME NEW u \in Thread, u # t PROVE ThreadInv(u)'
  <2>1. \A i \in 1..MaxLocks : Easing(<<u, i>>)
    BY <1>5, <1>10 DEF Data, Easing
  <2>2. QED
    BY <1>6, <1>7, <1>9, <1>10, <2>1, ThreadStep
<1>11. ThreadInv(t)'
  <2>1. \A i \in 1..MaxLocks :
          i # 1 => /\ type'[<<t, i>>] = type[<<t, i>>]
                   /\ cond'[<<t, i>>] => cond[<<t, i>>]
    BY <1>5 DEF Data
  <2>2. QED
    BY <1>5, <1>6, <1>7, <2>1, DelayedThread
<1>12. QED
  BY <1>4, <1>8, <1>10, <1>11 DEF IInv

\* What becomes of one lock data is such a change.
LEMMA SetIsChange ==
  ASSUME NEW s, NEW s2, NEW d, NEW D, d \in D, NEW n \in DelayedTypes,
         NEW c, Set(s, s2, d, n, c)
  PROVE  DelayedChange(s, s2, d, D) /\ s2.cd[d] = c
<1>1. \A e \in Data : e # d => s2.ty[e] = s.ty[e] /\ s2.cd[e] = s.cd[e]
  BY DEF Set
<1>2. \A e \in Data \ D : e # d
  OBVIOUS
<1>3. QED
  BY <1>1, <1>2 DEF Set, DelayedChange

\* thr_upgrade_write_delay_lock keeps everything in order.
LEMMA UpgradeStep ==
  ASSUME IInv, NEW t \in Thread, UpgradeWriteDelayLock(t)
  PROVE  IInv'
<1>1. PICK d, l, n : d = <<t, 1>> /\ l = TableOf(d) /\ n = new_lock_type[t]
  OBVIOUS
<1>2. /\ pc[t] \in {"held", "upgrade"} /\ IsDelayed(t)
      /\ UNCHANGED <<abort, locks, pos, new_lock_type>>
  BY DEF UpgradeWriteDelayLock
<1>3. /\ l \in Table /\ d \in DataOf(l) /\ n \in DelayedTypes
  BY <1>1, <1>2, DelayedFacts
<1>4. PICK s, s1 : s = State(l) /\ s1 = Retype(s, d, n)
  OBVIOUS
<1>5. \/ /\ type[d] = TL_UNLOCK
         /\ Goto(t, "unlock")
         /\ UNCHANGED <<lock, type, cond>>
      \/ /\ type[d] = TL_WRITE_DELAYED
         /\ ~cond[d] /\ s1.lk.read = <<>>
         /\ Become(l, s1) /\ Goto(t, "held")
      \/ /\ type[d] = TL_WRITE_DELAYED
         /\ ~cond[d] /\ s1.lk.read # <<>>
         /\ Become(l, BackToQueue(s1, d)) /\ Goto(t, "upwait")
      \/ /\ type[d] = TL_WRITE_DELAYED
         /\ cond[d] /\ Become(l, s1) /\ Goto(t, "upwait")
  BY <1>1, <1>4, Zenon DEF UpgradeWriteDelayLock, Retype
<1>6. /\ TableInv(s, DataOf(l)) /\ DataOf(l) \in SUBSET Data
      /\ s.ty = type /\ s.cd = cond
  BY <1>3, <1>4, AtTable
<1>7. n \in WriteTypes /\ TL_WRITE_DELAYED \in WriteTypes
      /\ TL_UNLOCK # TL_WRITE_DELAYED
  <2>1. n \in {TL_WRITE, TL_WRITE_LOW_PRIORITY}
    BY <1>3, ThrLockAssumption
  <2>2. QED
    BY <2>1, TypeNumbers
<1>8. s1.lk = s.lk
  BY <1>4, <1>6 DEF Retype, TableInv, Consistent, States
<1>9. new_lock_type' = [new_lock_type EXCEPT ![t] = n]
  BY <1>1, <1>2 DEF IInv, SmallTypes
<1>10. ASSUME NEW s2, NEW c \in BOOLEAN, NEW p \in {"held", "upwait"},
              TableInv(s2, DataOf(l)), Set(s, s2, d, n, c), Become(l, s2),
              Goto(t, p), c => p = "upwait"
       PROVE  IInv'
  <2>1. DelayedChange(s, s2, d, DataOf(l)) /\ s2.cd[d] = c
    BY <1>3, <1>10, SetIsChange
  <2>2. p \in {"held", "upwait", "upgrade"}
    OBVIOUS
  <2>3. s2.cd[d] => s2.ty[d] = TL_WRITE_DELAYED \/ p = "upwait"
    BY <1>10, <2>1
  <2>4. QED
    BY <1>1, <1>2, <1>3, <1>4, <1>9, <1>10, <2>1, <2>2, <2>3, DelayedStep
<1>11. CASE /\ Goto(t, "unlock")
            /\ UNCHANGED <<lock, type, cond>>
  <2>1. /\ lock' \in [Table -> LockRecord(Data)]
        /\ type' \in [Data -> Types] /\ cond' \in [Data -> BOOLEAN]
        /\ TablesInv' /\ \A e \in Data : Easing(e)
    BY <1>2, <1>11, TablesFrame
  <2>2. GoesOn(t) /\ abort' \in [Thread -> BOOLEAN]
    BY <1>2, <1>11 DEF Goto, GoesOn, IInv, SmallTypes, PC
  <2>3. QED
    BY <1>2, <2>1, <2>2, EasyStep
<1>12. ASSUME type[d] = TL_WRITE_DELAYED, ~cond[d]
       PROVE  /\ s.ty[d] \in WriteTypes /\ ~s.cd[d]
              /\ \A w \in ToSet(s.lk.write) : w = d
  <2>1. \A w \in ToSet(State(l).lk.write) : w = d
    BY <1>1, <1>2, <1>7, <1>12, OnlyWriter
  <2>2. QED
    BY <1>4, <1>6, <1>7, <1>12, <2>1
<1>13. CASE /\ type[d] = TL_WRITE_DELAYED
            /\ ~cond[d] /\ s1.lk.read = <<>>
            /\ Become(l, s1) /\ Goto(t, "held")
  <2>1. TableInv(s1, DataOf(l)) /\ Set(s, s1, d, n, FALSE)
    BY <1>3, <1>4, <1>6, <1>7, <1>8, <1>12, <1>13, UpgradedInPlace
  <2>2. QED
    BY <1>10, <1>13, <2>1
<1>14. CASE /\ type[d] = TL_WRITE_DELAYED
            /\ ~cond[d] /\ s1.lk.read # <<>>
            /\ Become(l, BackToQueue(s1, d)) /\ Goto(t, "upwait")
  <2>1. PICK s2 : s2 = BackToQueue(s1, d)
    OBVIOUS
  <2>2. TableInv(s2, DataOf(l)) /\ Set(s, s2, d, n, TRUE)
    BY <1>3, <1>4, <1>6, <1>7, <1>8, <1>12, <1>14, <2>1, UpgradedBehindReaders
  <2>3. QED
    BY <1>10, <1>14, <2>1, <2>2
<1>15. CASE /\ type[d] = TL_WRITE_DELAYED
            /\ cond[d] /\ Become(l, s1) /\ Goto(t, "upwait")
  <2>1. s.ty[d] \in WriteTypes /\ s.cd[d]
    BY <1>6, <1>7, <1>15
  <2>2. TableInv(s1, DataOf(l)) /\ Set(s, s1, d, n, TRUE)
    BY <1>3, <1>4, <1>6, <1>7, <2>1, UpgradedInQueue
  <2>3. QED
    BY <1>10, <1>15, <2>2
<1>16. QED
  BY <1>5, <1>11, <1>13, <1>14, <1>15

\* thr_reschedule_write_lock keeps everything in order.
LEMMA RescheduleStep ==
  ASSUME IInv, NEW t \in Thread, RescheduleWriteLock(t)
  PROVE  IInv'
<1>1. PICK d, l : d = <<t, 1>> /\ l = TableOf(d)
  OBVIOUS
<1>2. /\ pc[t] = "held" /\ IsDelayed(t) /\ UNCHANGED <<abort, locks, pos>>
      /\ Goto(t, "upgrade")
  BY DEF RescheduleWriteLock
<1>3. PICK s, s2, s3 : /\ s = State(l)
                       /\ s2 = BackToQueue(Retype(s, d, TL_WRITE_DELAYED), d)
                       /\ s3 = FreeAllReadLocks(s2, FALSE)
  OBVIOUS
<1>4. /\ type[d] >= TL_WRITE_LOW_PRIORITY
      /\ lock[l].read_wait # <<>>
      /\ new_lock_type' = [new_lock_type EXCEPT ![t] = type[d]]
      /\ Become(l, s3)
  BY <1>1, <1>3, Zenon DEF RescheduleWriteLock, Retype
<1>5. /\ l \in Table /\ d \in DataOf(l) /\ d \in Data
      /\ type[d] \in DelayedTypes \cup {TL_WRITE_DELAYED, TL_UNLOCK}
      /\ Len(locks[t]) = 1 /\ DOMAIN locks[t] = {1}
      /\ locks[t][1].type = TL_WRITE_DELAYED
  BY <1>1, <1>2, DelayedFacts
<1>6. /\ TableInv(s, DataOf(l)) /\ DataOf(l) \in SUBSET Data
      /\ s.ty = type /\ s.cd = cond /\ s.lk = lock[l]
  BY <1>3, <1>5, AtTable
<1>7. type[d] # TL_UNLOCK /\ type[d] # TL_WRITE_DELAYED
  BY <1>4, <1>5, TypeNumbers
<1>8. type[d] \in DelayedTypes
  BY <1>5, <1>7
<1>9. ~cond[d]
  <2>1. Waits(t, 1)
    BY <1>5 DEF IInv, ThreadInv
  <2>2. QED
    BY <1>1, <1>2, <1>7, <2>1 DEF Waits
<1>10. /\ type[d] \in WriteTypes
       /\ \A w \in ToSet(State(l).lk.write) : w = d
  BY <1>1, <1>2, <1>7, <1>9, OnlyWriter
<1>11. TL_WRITE_DELAYED \in WriteTypes
       /\ TL_WRITE_DELAYED # TL_WRITE_CONCURRENT_INSERT
  BY TypeNumbers
<1>12. /\ s.ty[d] \in WriteTypes /\ ~s.cd[d] /\ s.lk.read_wait # <<>>
       /\ \A w \in ToSet(s.lk.write) : w = d
  BY <1>3, <1>4, <1>6, <1>9, <1>10
<1>13. TableInv(s3, DataOf(l)) /\ DelayedChange(s, s3, d, DataOf(l))
       /\ s3.ty[d] = TL_WRITE_DELAYED
  <2>1. Rescheduled(s, s3, d, TL_WRITE_DELAYED, DataOf(l))
    BY <1>3, <1>5, <1>6, <1>11, <1>12, RescheduledFacts
  <2>2. QED
    BY <2>1 DEF DelayedChange, Rescheduled
<1>14. QED
  BY <1>1, <1>2, <1>3, <1>4, <1>8, <1>13, DelayedStep

-----------------------------------------------------------------------------
(* A thread without locks gets another array *)

\* The array a can be worked on by a thread with the upgrade type n.
GoodArray(a, n) ==
  /\ a \in Seq([table : Table, type : LockType])
  /\ Len(a) <= MaxLocks
  /\ \A i, j \in DOMAIN a :
       i < j /\ a[i].table = a[j].table => a[i].type >= a[j].type
  /\ \A i \in DOMAIN a :
       a[i].type = TL_WRITE_DELAYED => Len(a) = 1 /\ n \in DelayedTypes
  /\ n \in DelayedTypes \cup {TL_UNLOCK}

\* A thread none of whose lock data is in use has none that waits.
LEMMA NoneWaits ==
  ASSUME IInv, NEW t \in Thread,
         \A i \in DOMAIN locks[t] : type[<<t, i>>] = TL_UNLOCK
  PROVE  \A i \in 1..MaxLocks : type[<<t, i>>] = TL_UNLOCK /\ ~cond[<<t, i>>]
<1>1. SUFFICES ASSUME NEW i \in 1..MaxLocks
               PROVE  type[<<t, i>>] = TL_UNLOCK /\ ~cond[<<t, i>>]
  OBVIOUS
<1>2. CASE i \in DOMAIN locks[t]
  <2>1. PICK d, l : d = <<t, i>> /\ l = TableOf(d)
    OBVIOUS
  <2>2. l \in Table /\ d \in DataOf(l)
    BY <1>2, <2>1, DataAt
  <2>3. /\ Consistent(State(l), DataOf(l)) /\ DataOf(l) \in SUBSET Data
        /\ State(l).ty = type /\ State(l).cd = cond
    BY <2>2, AtTable DEF TableInv
  <2>4. PICK s : s = State(l)
    OBVIOUS
  <2>5. s.ty[d] = TL_UNLOCK
    BY <1>2, <2>1, <2>3, <2>4
  <2>6. ~s.cd[d]
    BY <2>2, <2>3, <2>4, <2>5, Unused
  <2>7. QED
    BY <2>1, <2>3, <2>4, <2>5, <2>6
<1>3. CASE i \notin DOMAIN locks[t]
  BY <1>3 DEF IInv, ThreadInv
<1>4. QED
  BY <1>2, <1>3

\* The tables remain in order when the array of a thread that uses none of its
\* lock data changes.
LEMMA ArrayTables ==
  ASSUME IInv, NEW t \in Thread, UNCHANGED <<lock, type, cond>>,
         \A i \in 1..MaxLocks : type[<<t, i>>] = TL_UNLOCK /\ ~cond[<<t, i>>],
         \A u \in Thread : u # t => locks'[u] = locks[u]
  PROVE  TablesInv'
<1>1. SUFFICES ASSUME NEW l \in Table
               PROVE  TableInv(State(l)', DataOf(l)')
  BY DEF TablesInv
<1>2. PICK s, D, E : s = State(l) /\ D = DataOf(l) /\ E = DataOf(l)'
  OBVIOUS
<1>3. State(l)' = s
  BY <1>2 DEF State
<1>4. /\ TableInv(s, D) /\ D \in SUBSET Data
      /\ s.ty = type /\ s.cd = cond
  BY <1>2, AtTable
<1>5. E \in SUBSET Data
  BY <1>2 DEF DataOf
<1>6. ASSUME NEW d \in (D \ E) \cup (E \ D)
      PROVE  type[d] = TL_UNLOCK /\ ~cond[d]
  <2>1. d \in Data
    BY <1>4, <1>5
  <2>2. PICK u \in Thread, i \in 1..MaxLocks : d = <<u, i>>
    BY <2>1 DEF Data
  <2>3. u = t
    <3>1. SUFFICES ASSUME u # t PROVE FALSE
      OBVIOUS
    <3>2. locks'[u] = locks[u]
      BY <3>1
    <3>3. d \in D <=> d \in E
      BY <1>2, <2>1, <2>2, <3>2 DEF DataOf, TableOf
    <3>4. QED
      BY <3>3
  <2>4. QED
    BY <2>2, <2>3
<1>7. /\ s \in States(D)
  BY <1>4 DEF TableInv, Consistent
<1>8. /\ s = [lk |-> s.lk, ty |-> s.ty, cd |-> s.cd]
      /\ s.ty \in [Data -> Types] /\ s.cd \in [Data -> BOOLEAN]
  BY <1>7 DEF States
<1>9. /\ \A d \in D \ E : s.ty[d] = TL_UNLOCK
      /\ \A d \in E \ D : s.ty[d] = TL_UNLOCK /\ ~s.cd[d]
  BY <1>4, <1>6
<1>10. TableInv(s, E)
  BY <1>4, <1>5, <1>8, <1>9, FrameFacts
<1>11. QED
  BY <1>2, <1>3, <1>10

\* Such a step keeps everything in order.
LEMMA ArrayStep ==
  ASSUME IInv, NEW t \in Thread, UNCHANGED <<lock, type, cond>>,
         \A i \in 1..MaxLocks : type[<<t, i>>] = TL_UNLOCK /\ ~cond[<<t, i>>],
         NEW a, NEW n, GoodArray(a, n), NEW label \in {"idle", "lock"},
         label = "idle" <=> a = <<>>,
         locks' = [locks EXCEPT ![t] = a], pos' = [pos EXCEPT ![t] = 1],
         abort' = [abort EXCEPT ![t] = FALSE],
         new_lock_type' = [new_lock_type EXCEPT ![t] = n],
         pc' = [pc EXCEPT ![t] = label]
  PROVE  IInv'
<1>1. SmallTypes /\ \A u \in Thread : ThreadInv(u)
  BY DEF IInv
<1>2. /\ locks'[t] = a /\ pos'[t] = 1 /\ new_lock_type'[t] = n /\ pc'[t] = label
      /\ \A u \in Thread : u # t =>
           /\ locks'[u] = locks[u] /\ pos'[u] = pos[u]
           /\ new_lock_type'[u] = new_lock_type[u] /\ pc'[u] = pc[u]
  BY <1>1 DEF SmallTypes
<1>3. TablesInv'
  BY <1>2, ArrayTables
<1>4. a \in Seq([table : Table, type : LockType]) /\ Len(a) <= MaxLocks
      /\ n \in DelayedTypes \cup {TL_UNLOCK}
  BY DEF GoodArray
<1>5. SmallTypes'
  <2>1. 1 \in 1..MaxLocks
    BY DataFacts
  <2>2. label \in PC
    BY DEF PC
  <2>3. QED
    BY <1>1, <1>4, <2>1, <2>2 DEF SmallTypes
<1>6. ASSUME NEW u \in Thread, u # t PROVE ThreadInv(u)'
  <2>1. \A i \in 1..MaxLocks : /\ type'[<<u, i>>] = type[<<u, i>>]
                               /\ cond'[<<u, i>>] = cond[<<u, i>>]
    OBVIOUS
  <2>2. QED
    BY <1>1, <1>2, <1>6, <2>1, ThreadFrame
<1>7. ThreadInv(t)'
  <2>1. ArrayInv(t)'
    BY <1>2 DEF ArrayInv, GoodArray
  <2>2. \A i \in 1..MaxLocks : type'[<<t, i>>] = TL_UNLOCK /\ ~cond'[<<t, i>>]
    OBVIOUS
  <2>3. /\ DOMAIN a = 1..Len(a) /\ Len(a) \in Nat
        /\ a # <<>> => Len(a) # 0
    BY <1>4, LenProperties, EmptySeq
  <2>4. DOMAIN a \subseteq 1..MaxLocks
    BY <1>4, <2>3, DataFacts
  <2>5. \A i \in DOMAIN locks'[t] : TypeFits(t, i)' /\ Waits(t, i)'
    BY <1>2, <2>2, <2>4 DEF TypeFits, Waits
  <2>6. Progress(t)'
    <3>1. label = "lock" => 1 \in DOMAIN a
      BY <2>3
    <3>2. /\ \A i \in DOMAIN locks'[t] : type'[<<t, i>>] = TL_UNLOCK
      BY <1>2, <2>2, <2>4
    <3>3. QED
      BY <1>2, <3>1, <3>2 DEF Progress
  <2>7. QED
    BY <2>1, <2>2, <2>5, <2>6 DEF ThreadInv
<1>8. QED
  BY <1>3, <1>5, <1>6, <1>7 DEF IInv

\* The start of thr_multi_lock, with the sorted array.
LEMMA MultiLockStep ==
  ASSUME IInv, NEW t \in Thread, MultiLock(t)
  PROVE  IInv'
<1>1. PICK r \in Requests :
        /\ locks' = [locks EXCEPT ![t] = SortLocks(r)]
        /\ \E n \in IF r[1].type = TL_WRITE_DELAYED THEN DelayedTypes
                                                    ELSE {TL_UNLOCK} :
             new_lock_type' = [new_lock_type EXCEPT ![t] = n]
  BY Zenon DEF MultiLock
<1>2. PICK n \in IF r[1].type = TL_WRITE_DELAYED THEN DelayedTypes
                                                 ELSE {TL_UNLOCK} :
        new_lock_type' = [new_lock_type EXCEPT ![t] = n]
  BY <1>1
<1>3. PICK a : a = SortLocks(r)
  OBVIOUS
<1>4. /\ pc[t] = "idle" /\ UNCHANGED <<lock, type, cond>>
      /\ pos' = [pos EXCEPT ![t] = 1] /\ abort' = [abort EXCEPT ![t] = FALSE]
      /\ pc' = [pc EXCEPT ![t] = "lock"]
  BY Zenon DEF MultiLock, Goto
<1>5. /\ r \in Seq([table : Table, type : LockType])
      /\ Len(r) \in 1..MaxLocks
      /\ \A i \in 1..Len(r) : r[i].type = TL_WRITE_DELAYED => Len(r) = 1
  BY ThrLockAssumption, DataFacts
<1>6. /\ a \in Seq([table : Table, type : LockType])
      /\ Len(a) = Len(r)
      /\ \A i \in DOMAIN a : \E j \in DOMAIN r : a[i] = r[j]
      /\ \A i, j \in DOMAIN a :
           i < j /\ a[i].table = a[j].table => a[i].type >= a[j].type
  BY <1>3, <1>5, SortLocksFacts
<1>7. DOMAIN r = 1..Len(r)
  BY <1>5, LenProperties
<1>8. \A i \in DOMAIN a :
        a[i].type = TL_WRITE_DELAYED => Len(a) = 1 /\ n \in DelayedTypes
  <2>1. SUFFICES ASSUME NEW i \in DOMAIN a, a[i].type = TL_WRITE_DELAYED
                 PROVE  Len(a) = 1 /\ n \in DelayedTypes
    OBVIOUS
  <2>2. PICK j \in 1..Len(r) : a[i] = r[j]
    BY <1>6, <1>7
  <2>3. Len(r) = 1
    BY <1>5, <2>1, <2>2
  <2>4. j = 1
    BY <2>3
  <2>5. r[1].type = TL_WRITE_DELAYED
    BY <2>1, <2>2, <2>4
  <2>6. QED
    BY <1>2, <1>6, <2>3, <2>5
<1>9. GoodArray(a, n)
  <2>1. Len(a) <= MaxLocks
    BY <1>5, <1>6, DataFacts
  <2>2. n \in DelayedTypes \cup {TL_UNLOCK}
    BY <1>2
  <2>3. QED
    BY <1>6, <1>8, <2>1, <2>2 DEF GoodArray
<1>10. a # <<>>
  BY <1>5, <1>6
<1>11. \A i \in 1..MaxLocks : type[<<t, i>>] = TL_UNLOCK /\ ~cond[<<t, i>>]
  <2>1. locks[t] = <<>>
    BY <1>4 DEF IInv, ThreadInv, Progress
  <2>2. QED
    BY <2>1, NoneWaits
<1>12. QED
  BY <1>1, <1>2, <1>3, <1>4, <1>9, <1>10, <1>11, ArrayStep

\* The end of thr_multi_unlock: nothing is locked any more.
LEMMA EndUnlockStep ==
  ASSUME IInv, NEW t \in Thread, EndUnlock(t)
  PROVE  IInv'
<1>1. /\ ToUnlock(t) = {} /\ UNCHANGED <<lock, type, cond>>
      /\ locks' = [locks EXCEPT ![t] = <<>>]
      /\ pos' = [pos EXCEPT ![t] = 1] /\ abort' = [abort EXCEPT ![t] = FALSE]
      /\ new_lock_type' = [new_lock_type EXCEPT ![t] = TL_UNLOCK]
      /\ pc' = [pc EXCEPT ![t] = "idle"]
  BY Zenon DEF EndUnlock, Goto
<1>2. locks[t] \in Seq([table : Table, type : LockType])
  BY DEF IInv, SmallTypes
<1>3. DOMAIN locks[t] = 1..Len(locks[t]) /\ Len(locks[t]) \in Nat
  BY <1>2, LenProperties
<1>4. PICK held : held = {i \in 1..Len(locks[t]) : type[<<t, i>>] # TL_UNLOCK}
  OBVIOUS
<1>5. held = {}
  <2>1. SUFFICES ASSUME held # {} PROVE FALSE
    OBVIOUS
  <2>2. held \in SUBSET Nat
    BY <1>3, <1>4
  <2>3. PICK i \in held : \A j \in held : i <= j
    BY <2>1, <2>2, Smallest
  <2>4. i \in ToUnlock(t)
    BY <1>4, <2>3 DEF ToUnlock
  <2>5. QED
    BY <1>1, <2>4
<1>6. \A i \in DOMAIN locks[t] : type[<<t, i>>] = TL_UNLOCK
  BY <1>3, <1>4, <1>5
<1>7. \A i \in 1..MaxLocks : type[<<t, i>>] = TL_UNLOCK /\ ~cond[<<t, i>>]
  BY <1>6, NoneWaits
<1>8. GoodArray(<<>>, TL_UNLOCK)
  BY DataFacts DEF GoodArray
<1>9. QED
  BY <1>1, <1>7, <1>8, ArrayStep

-----------------------------------------------------------------------------
(* The invariant *)

\* thr_lock_init and thr_lock_data_init.
LEMMA InitInv ==
  ASSUME Init
  PROVE  IInv
<1>1. 1 \in 1..MaxLocks
  BY DataFacts
<1>2. /\ \A d \in Data : type[d] = TL_UNLOCK /\ ~cond[d]
      /\ type \in [Data -> Types] /\ cond \in [Data -> BOOLEAN]
  BY DEF Init, Types
<1>3. /\ \A t \in Thread : locks[t] = <<>> /\ pos[t] = 1 /\ pc[t] = "idle"
      /\ locks \in [Thread -> Seq([table : Table, type : LockType])]
      /\ pos \in [Thread -> 1..MaxLocks] /\ pc \in [Thread -> PC]
      /\ new_lock_type \in [Thread -> DelayedTypes \cup {TL_UNLOCK}]
      /\ abort \in [Thread -> BOOLEAN]
  BY <1>1 DEF Init, PC
<1>4. PICK none : none = [read |-> <<>>, read_wait |-> <<>>, write |-> <<>>,
                          write_wait |-> <<>>, read_no_write_count |-> 0,
                          write_lock_count |-> 0]
  OBVIOUS
<1>5. \A l \in Table : lock[l] = none
  BY <1>4 DEF Init
<1>6. \A D : none \in LockRecord(D)
  BY <1>4, ThrLockAssumption DEF LockRecord
<1>7. lock \in [Table -> LockRecord(Data)]
  BY <1>4, <1>6 DEF Init
<1>8. SmallTypes
  BY <1>2, <1>3, <1>7 DEF SmallTypes
<1>9. ASSUME NEW t \in Thread PROVE ThreadInv(t)
  <2>1. locks[t] = <<>> /\ pc[t] = "idle"
    BY <1>3
  <2>2. \A i \in 1..MaxLocks : type[<<t, i>>] = TL_UNLOCK /\ ~cond[<<t, i>>]
    BY <1>2 DEF Data
  <2>3. ArrayInv(t)
    BY <2>1, DataFacts DEF ArrayInv
  <2>4. Progress(t)
    BY <2>1 DEF Progress
  <2>5. QED
    BY <2>1, <2>2, <2>3, <2>4 DEF ThreadInv
<1>10. ASSUME NEW l \in Table PROVE TableInv(State(l), DataOf(l))
  <2>1. DataOf(l) = {}
    BY <1>3 DEF DataOf, Data
  <2>2. PICK s : s = State(l)
    OBVIOUS
  <2>3. s.lk = none /\ s.ty = type /\ s.cd = cond /\ s \in States({})
    BY <1>2, <1>5, <1>6, <2>2 DEF State, States
  <2>4. /\ s.lk.read = <<>> /\ s.lk.read_wait = <<>>
        /\ s.lk.write = <<>> /\ s.lk.write_wait = <<>>
        /\ s.lk.read_no_write_count = 0
    BY <1>4, <2>3
  <2>5. ToSet(<<>>) = {} /\ IsInjective(<<>>)
    BY DEF ToSet, IsInjective
  <2>6. NoInsertReaders(s) = {}
    BY <2>4, <2>5 DEF NoInsertReaders
  <2>7. Consistent(s, {})
    <3>1. NoneTwice(s) /\ Apart(s) /\ Listed(s, {})
      BY <2>4, <2>5 DEF NoneTwice, Apart, Listed
    <3>2. s.lk.read_no_write_count = Cardinality(NoInsertReaders(s))
      BY <2>4, <2>6, FS_EmptySet
    <3>3. QED
      BY <2>3, <3>1, <3>2 DEF Consistent
  <2>8. Tolerant(s) /\ NoneForgotten(s)
    BY <2>4, <2>5 DEF Tolerant, FirstIsStrongest, WritersTolerate,
                      ReadersTolerate, NoneForgotten
  <2>9. QED
    BY <2>1, <2>2, <2>7, <2>8 DEF TableInv
<1>11. QED
  BY <1>8, <1>9, <1>10 DEF IInv, TablesInv

\* Every step keeps the lists, the lock data and the threads in order.
LEMMA NextInv ==
  ASSUME IInv, [Next]_vars
  PROVE  IInv'
<1>1. CASE UNCHANGED vars
  <2>1. UNCHANGED <<lock, type, cond, abort, locks, pos, new_lock_type, pc>>
    BY <1>1 DEF vars
  <2>2. TablesInv'
    BY <2>1, TablesFrame
  <2>3. SmallTypes'
    BY <2>1 DEF IInv, SmallTypes
  <2>4. ASSUME NEW u \in Thread PROVE ThreadInv(u)'
    BY <2>1, ThreadFrame DEF IInv
  <2>5. QED
    BY <2>2, <2>3, <2>4 DEF IInv
<1>2. CASE Next
  <2>1. PICK t \in Thread :
          \/ MultiLock(t) \/ Lock(t) \/ Woken(t) \/ GiveUp(t) \/ Kill(t)
          \/ BeginUnlock(t) \/ Unlock(t) \/ EndUnlock(t)
          \/ UpgradeWriteDelayLock(t) \/ RescheduleWriteLock(t)
          \/ \E l \in Table : AbortLocksForThread(t, l)
    BY <1>2, Zenon DEF Next
  <2>2. CASE MultiLock(t)
    BY <2>2, MultiLockStep
  <2>3. CASE Lock(t)
    BY <2>3, LockStep
  <2>4. CASE Woken(t)
    BY <2>4, WokenStep
  <2>5. CASE GiveUp(t)
    BY <2>5, GiveUpStep
  <2>6. CASE Kill(t) \/ BeginUnlock(t)
    BY <2>6, KillAndBeginStep
  <2>7. CASE Unlock(t)
    BY <2>7, UnlockStep
  <2>8. CASE EndUnlock(t)
    BY <2>8, EndUnlockStep
  <2>9. CASE UpgradeWriteDelayLock(t)
    BY <2>9, UpgradeStep
  <2>10. CASE RescheduleWriteLock(t)
    BY <2>10, RescheduleStep
  <2>11. CASE \E l \in Table : AbortLocksForThread(t, l)
    BY <2>11, AbortStep
  <2>12. QED
    BY <2>1, <2>2, <2>3, <2>4, <2>5, <2>6, <2>7, <2>8, <2>9, <2>10, <2>11
<1>3. QED
  BY <1>1, <1>2

\* The lists, the lock data and the threads are in order after every step.
THEOREM InOrderHolds == Spec => []IInv
<1>1. Init => IInv
  BY InitInv
<1>2. IInv /\ [Next]_vars => IInv'
  BY NextInv
<1>3. QED
  BY <1>1, <1>2, PTL DEF Spec

-----------------------------------------------------------------------------
(* What follows from it *)

\* Locks in use by different threads tolerate each other.
LEMMA InvExclusion ==
  ASSUME IInv
  PROVE  Exclusion
<1>1. SUFFICES ASSUME NEW l \in Table, NEW d \in ToSet(lock[l].write)
      PROVE /\ \A e \in ToSet(lock[l].write) :
                 Owner(d) # Owner(e) =>
                   type[d] = TL_WRITE_ALLOW_WRITE /\ type[e] = TL_WRITE_ALLOW_WRITE
            /\ \A e \in ToSet(lock[l].read) :
                 Owner(d) # Owner(e) =>
                   /\ type[d] <= TL_WRITE_DELAYED
                   /\ ~(type[d] = TL_WRITE_CONCURRENT_INSERT
                        /\ type[e] = TL_READ_NO_INSERT)
  BY DEF Exclusion
<1>2. PICK s : s = State(l)
  OBVIOUS
<1>3. /\ Tolerant(s) /\ s.lk = lock[l] /\ s.ty = type
  BY <1>2, AtTable DEF TableInv
<1>4. WritersTolerate(s) /\ ReadersTolerate(s)
  BY <1>3 DEF Tolerant
<1>5. ASSUME NEW e \in ToSet(lock[l].write), Owner(d) # Owner(e)
      PROVE  type[d] = TL_WRITE_ALLOW_WRITE /\ type[e] = TL_WRITE_ALLOW_WRITE
  BY <1>3, <1>4, <1>5 DEF WritersTolerate
<1>6. ASSUME NEW e \in ToSet(lock[l].read), Owner(d) # Owner(e)
      PROVE  /\ type[d] <= TL_WRITE_DELAYED
             /\ ~(type[d] = TL_WRITE_CONCURRENT_INSERT
                  /\ type[e] = TL_READ_NO_INSERT)
  BY <1>3, <1>4, <1>6 DEF ReadersTolerate
<1>7. QED
  BY <1>5, <1>6

\* Nobody waits for nothing.
LEMMA InvNoForgottenWaiter ==
  ASSUME IInv
  PROVE  NoForgottenWaiter
<1>1. ASSUME NEW l \in Table
      PROVE  lock[l].write = <<>> =>
               /\ lock[l].read = <<>> => lock[l].write_wait = <<>> /\ lock[l].read_wait = <<>>
               /\ lock[l].write_wait = <<>> => lock[l].read_wait = <<>>
  <2>1. PICK s : s = State(l)
    OBVIOUS
  <2>2. NoneForgotten(s) /\ s.lk = lock[l]
    BY <2>1, AtTable DEF TableInv
  <2>3. QED
    BY <2>2 DEF NoneForgotten
<1>2. QED
  BY <1>1 DEF NoForgottenWaiter

\* The lists of a table, with what is known of them.
LEMMA ListFacts ==
  ASSUME IInv, NEW l \in Table, NEW k \in 1..4
  PROVE  /\ Lists(l)[k] \in Seq(Data) /\ IsInjective(Lists(l)[k])
         /\ ToSet(Lists(l)[k]) \subseteq DataOf(l)
         /\ \A d \in ToSet(Lists(l)[k]) :
              /\ type[d] \in IF k \in {1, 2} THEN ReadTypes ELSE WriteTypes
              /\ cond[d] <=> k \in {2, 4}
<1>1. PICK s : s = State(l)
  OBVIOUS
<1>2. /\ Consistent(s, DataOf(l)) /\ DataOf(l) \in SUBSET Data
      /\ s.lk = lock[l] /\ s.ty = type /\ s.cd = cond
  BY <1>1, AtTable DEF TableInv
<1>3. s \in States(DataOf(l)) /\ NoneTwice(s) /\ Apart(s)
  BY <1>2 DEF Consistent
<1>4. PICK a, b, c, e : /\ a = lock[l].read /\ b = lock[l].read_wait
                        /\ c = lock[l].write /\ e = lock[l].write_wait
  OBVIOUS
<1>5. /\ a \in Seq(DataOf(l)) /\ b \in Seq(DataOf(l))
      /\ c \in Seq(DataOf(l)) /\ e \in Seq(DataOf(l))
  BY <1>2, <1>3, <1>4, Parts
<1>6. /\ \A d \in ToSet(a) : type[d] \in ReadTypes /\ ~cond[d]
      /\ \A d \in ToSet(b) : type[d] \in ReadTypes /\ cond[d]
      /\ \A d \in ToSet(c) : type[d] \in WriteTypes /\ ~cond[d]
      /\ \A d \in ToSet(e) : type[d] \in WriteTypes /\ cond[d]
  BY <1>2, <1>3, <1>4 DEF Apart
<1>7. IsInjective(a) /\ IsInjective(b) /\ IsInjective(c) /\ IsInjective(e)
  BY <1>2, <1>3, <1>4 DEF NoneTwice
<1>8. Lists(l)[1] = a /\ Lists(l)[2] = b /\ Lists(l)[3] = c /\ Lists(l)[4] = e
  BY <1>4 DEF Lists
<1>9. PICK q : q = Lists(l)[k]
  OBVIOUS
<1>10. k \in {1, 2, 3, 4}
  OBVIOUS
<1>11. q \in Seq(DataOf(l)) /\ IsInjective(q)
  BY <1>5, <1>7, <1>8, <1>9, <1>10
<1>12. ToSet(q) \subseteq DataOf(l)
  BY <1>11, HeadFacts
<1>13. q \in Seq(Data)
  <2>1. ToSet(q) \subseteq Data
    BY <1>2, <1>12
  <2>2. QED
    BY <1>11, <2>1, ListOver
<1>14. \A d \in ToSet(q) :
         /\ type[d] \in IF k \in {1, 2} THEN ReadTypes ELSE WriteTypes
         /\ cond[d] <=> k \in {2, 4}
  <2>1. CASE k = 1
    BY <1>6, <1>8, <1>9, <2>1
  <2>2. CASE k = 2
    BY <1>6, <1>8, <1>9, <2>2
  <2>3. CASE k = 3
    BY <1>6, <1>8, <1>9, <2>3
  <2>4. CASE k = 4
    BY <1>6, <1>8, <1>9, <2>4
  <2>5. QED
    BY <1>10, <2>1, <2>2, <2>3, <2>4
<1>15. QED
  BY <1>9, <1>11, <1>12, <1>13, <1>14

\* The lists a lock data is on.
On(d) == {x \in Table \X (1..4) : d \in ToSet(Lists(x[1])[x[2]])}

\* The list its type and condition tell.
PlaceOf(d) ==
  <<TableOf(d), IF type[d] \in ReadTypes THEN (IF cond[d] THEN 2 ELSE 1)
                                         ELSE (IF cond[d] THEN 4 ELSE 3)>>

\* A lock data is on no other list than this, and on none when it is TL_UNLOCK.
LEMMA OnlyPlace ==
  ASSUME IInv, NEW d \in Data, NEW x \in On(d)
  PROVE  /\ x = PlaceOf(d) /\ type[d] # TL_UNLOCK
         /\ cond[d] <=> x[2] \in {2, 4}
<1>1. PICK l \in Table, k \in 1..4 : x = <<l, k>> /\ d \in ToSet(Lists(l)[k])
  BY DEF On
<1>2. /\ d \in DataOf(l)
      /\ type[d] \in IF k \in {1, 2} THEN ReadTypes ELSE WriteTypes
      /\ cond[d] <=> k \in {2, 4}
  BY <1>1, ListFacts
<1>3. l = TableOf(d)
  BY <1>2 DEF DataOf
<1>4. /\ TL_UNLOCK \notin ReadTypes /\ TL_UNLOCK \notin WriteTypes
      /\ \A ty \in WriteTypes : ty \notin ReadTypes
  BY TypeNumbers
<1>5. type[d] # TL_UNLOCK /\ (type[d] \in ReadTypes <=> k \in {1, 2})
  BY <1>2, <1>4
<1>6. k = IF type[d] \in ReadTypes THEN (IF cond[d] THEN 2 ELSE 1)
                                   ELSE (IF cond[d] THEN 4 ELSE 3)
  <2>1. k \in {1, 2, 3, 4}
    OBVIOUS
  <2>2. QED
    BY <1>2, <1>5, <2>1
<1>7. x = PlaceOf(d)
  BY <1>1, <1>3, <1>6 DEF PlaceOf
<1>8. QED
  BY <1>1, <1>2, <1>5, <1>7

\* A lock data that is in use is on a list, and so is one that waits.
LEMMA HasPlace ==
  ASSUME IInv, NEW d \in Data, type[d] # TL_UNLOCK \/ cond[d]
  PROVE  On(d) # {}
<1>1. PICK t \in Thread, i \in 1..MaxLocks : d = <<t, i>>
  BY DEF Data
<1>2. i \in DOMAIN locks[t]
  BY <1>1 DEF IInv, ThreadInv
<1>3. PICK l : l = TableOf(d)
  OBVIOUS
<1>4. l \in Table /\ d \in DataOf(l)
  BY <1>1, <1>2, <1>3, DataAt
<1>5. PICK s : s = State(l)
  OBVIOUS
<1>6. Listed(s, DataOf(l)) /\ s.lk = lock[l] /\ s.ty = type /\ s.cd = cond
  BY <1>4, <1>5, AtTable DEF TableInv, Consistent
<1>7. d \in ToSet(lock[l].read) \cup ToSet(lock[l].read_wait)
            \cup ToSet(lock[l].write) \cup ToSet(lock[l].write_wait)
  BY <1>4, <1>6 DEF Listed
<1>8. /\ Lists(l)[1] = lock[l].read /\ Lists(l)[2] = lock[l].read_wait
      /\ Lists(l)[3] = lock[l].write /\ Lists(l)[4] = lock[l].write_wait
  BY DEF Lists
<1>9. PICK k \in 1..4 : d \in ToSet(Lists(l)[k])
  BY <1>7, <1>8
<1>10. <<l, k>> \in On(d)
  BY <1>4, <1>9 DEF On
<1>11. QED
  BY <1>10

\* The lists agree with the types and the conditions of the lock data.
LEMMA InvQueueMatchesData ==
  ASSUME IInv
  PROVE  QueueMatchesData
<1>1. SUFFICES ASSUME NEW d \in Data
               PROVE  /\ Cardinality(On(d)) <= 1
                      /\ cond[d] <=> {x \in On(d) : x[2] \in {2, 4}} # {}
                      /\ (type[d] = TL_UNLOCK) <=> On(d) = {}
                      /\ \A x \in On(d) : Cardinality(ToSet(Lists(x[1])[x[2]]))
                                            = Len(Lists(x[1])[x[2]])
  BY DEF QueueMatchesData, On
<1>2. \A x \in On(d) : /\ x = PlaceOf(d) /\ type[d] # TL_UNLOCK
                       /\ cond[d] <=> x[2] \in {2, 4}
  BY OnlyPlace
<1>3. type[d] # TL_UNLOCK \/ cond[d] => On(d) # {}
  BY HasPlace
<1>4. Cardinality(On(d)) <= 1
  <2>1. CASE On(d) = {}
    BY <2>1, FS_EmptySet
  <2>2. CASE On(d) # {}
    <3>1. On(d) = {PlaceOf(d)}
      BY <1>2, <2>2
    <3>2. Cardinality({PlaceOf(d)}) = 1
      BY FS_Singleton
    <3>3. QED
      BY <3>1, <3>2
  <2>3. QED
    BY <2>1, <2>2
<1>5. cond[d] <=> {x \in On(d) : x[2] \in {2, 4}} # {}
  BY <1>2, <1>3
<1>6. (type[d] = TL_UNLOCK) <=> On(d) = {}
  BY <1>2, <1>3
<1>7. ASSUME NEW x \in On(d)
      PROVE  Cardinality(ToSet(Lists(x[1])[x[2]])) = Len(Lists(x[1])[x[2]])
  <2>1. PICK l \in Table, k \in 1..4 : x[1] = l /\ x[2] = k
    BY DEF On
  <2>2. Lists(l)[k] \in Seq(Data) /\ IsInjective(Lists(l)[k])
    BY ListFacts
  <2>3. QED
    BY <2>1, <2>2, CountFacts
<1>8. QED
  BY <1>4, <1>5, <1>6, <1>7

\* The counter of TL_READ_NO_INSERT locks is exact, and hence bounded.
LEMMA InvNoWriteCount ==
  ASSUME IInv
  PROVE  /\ NoWriteCountExact
         /\ \A l \in Table : lock[l].read_no_write_count \in 0..Cardinality(Data)
<1>1. ASSUME NEW l \in Table
      PROVE  /\ lock[l].read_no_write_count =
                  Cardinality({d \in ToSet(lock[l].read) :
                                 type[d] = TL_READ_NO_INSERT})
             /\ lock[l].read_no_write_count \in 0..Cardinality(Data)
  <2>1. PICK s : s = State(l)
    OBVIOUS
  <2>2. /\ s.lk.read_no_write_count = Cardinality(NoInsertReaders(s))
        /\ s \in States(DataOf(l)) /\ DataOf(l) \in SUBSET Data
        /\ s.lk = lock[l] /\ s.ty = type
    BY <2>1, AtTable DEF TableInv, Consistent
  <2>3. s.lk.read \in Seq(DataOf(l)) /\ s.lk.read_no_write_count \in Nat
    BY <2>2, Parts
  <2>4. ToSet(s.lk.read) \subseteq DataOf(l)
    BY <2>3, HeadFacts
  <2>5. NoInsertReaders(s) \subseteq Data
    BY <2>2, <2>4 DEF NoInsertReaders
  <2>6. Cardinality(NoInsertReaders(s)) <= Cardinality(Data)
    BY <2>5, DataFacts, FS_Subset
  <2>7. QED
    BY <2>2, <2>3, <2>6, DataFacts DEF NoInsertReaders
<1>2. QED
  BY <1>1 DEF NoWriteCountExact

\* The lists hold lock data, and the fields have their types.
LEMMA InvTypeOK ==
  ASSUME IInv
  PROVE  TypeOK
<1>1. SmallTypes
  BY DEF IInv
<1>2. ASSUME NEW l \in Table
      PROVE  /\ \A i \in 1..4 : Lists(l)[i] \in Seq(Data)
             /\ lock[l].read_no_write_count \in 0..Cardinality(Data)
             /\ lock[l].write_lock_count \in 0..(max_write_lock_count + 1)
  <2>1. \A i \in 1..4 : Lists(l)[i] \in Seq(Data)
    BY ListFacts
  <2>2. lock[l].write_lock_count \in 0..(max_write_lock_count + 1)
    BY <1>1 DEF SmallTypes, LockRecord
  <2>3. QED
    BY <2>1, <2>2, InvNoWriteCount
<1>3. QED
  BY <1>1, <1>2 DEF TypeOK, SmallTypes, Types

\* The lock a thread already has on the table of its next request is at least
\* as strong.
LEMMA InvOldLockIsStronger ==
  ASSUME IInv
  PROVE  OldLockIsStronger
<1>1. SUFFICES ASSUME NEW t \in Thread, pc[t] = "lock",
                      NEW l, l = TableOf(<<t, pos[t]>>),
                      NEW ty, ty = locks[t][pos[t]].type, ~IsRead(ty),
                      HasOldLock(lock[l].write, t)
               PROVE  /\ ty <= type[Head(lock[l].write)]
                      /\ type[Head(lock[l].write)] # TL_WRITE_DELAYED
  BY DEF OldLockIsStronger
<1>2. l \in Table
  BY <1>1, Position, DataAt
<1>3. PICK s, w, h : s = State(l) /\ w = lock[l].write /\ h = Head(w)
  OBVIOUS
<1>4. /\ Tolerant(s) /\ Apart(s) /\ s \in States(DataOf(l))
      /\ s.lk = lock[l] /\ s.ty = type
  BY <1>2, <1>3, AtTable DEF TableInv, Consistent
<1>5. w \in Seq(DataOf(l)) /\ s.lk.write = w
  BY <1>3, <1>4, Parts
<1>6. PICK o \in ToSet(w) : Owner(o) = t
  BY <1>1, <1>3 DEF HasOldLock
<1>7. /\ ToSet(w) \subseteq DataOf(l) /\ w # <<>> /\ h \in ToSet(w)
  BY <1>3, <1>5, <1>6, HeadFacts
<1>8. \A d \in ToSet(w) : type[d] \in WriteTypes /\ type[d] # TL_UNLOCK
  BY <1>4, <1>5, TypeNumbers DEF Apart
<1>9. /\ locks[t][o[2]].type \in LockType /\ ty \in LockType
      /\ locks[t][o[2]].type >= ty
      /\ locks[t][o[2]].type # TL_WRITE_DELAYED
      /\ \/ type[o] = locks[t][o[2]].type
         \/ type[o] \in {TL_WRITE, TL_WRITE_LOW_PRIORITY}
  BY <1>1, <1>6, <1>7, <1>8, OlderLocks
<1>10. CASE Owner(h) = t
  <2>1. /\ locks[t][h[2]].type \in LockType
        /\ locks[t][h[2]].type >= ty
        /\ locks[t][h[2]].type # TL_WRITE_DELAYED
        /\ TypeFits(t, h[2]) /\ h = <<t, h[2]>>
        /\ \/ type[h] = locks[t][h[2]].type
           \/ type[h] \in {TL_WRITE, TL_WRITE_LOW_PRIORITY}
    BY <1>1, <1>7, <1>8, <1>10, OlderLocks
  <2>2. CASE type[h] = locks[t][h[2]].type
    <3>1. QED
      BY <1>3, <1>9, <2>1, <2>2, TypeNumbers
  <2>3. CASE type[h] # locks[t][h[2]].type
    <3>1. locks[t][h[2]].type = TL_WRITE_CONCURRENT_INSERT
          /\ type[h] \in {TL_WRITE, TL_WRITE_LOW_PRIORITY}
      BY <1>7, <1>8, <2>1, <2>3 DEF TypeFits
    <3>2. QED
      BY <1>3, <1>9, <2>1, <3>1, TypeNumbers
  <2>4. QED
    BY <2>2, <2>3
<1>11. CASE Owner(h) # t
  <2>1. type[h] = TL_WRITE_ALLOW_WRITE /\ type[o] = TL_WRITE_ALLOW_WRITE
    BY <1>4, <1>5, <1>6, <1>7, <1>11 DEF Tolerant, WritersTolerate
  <2>2. locks[t][o[2]].type = TL_WRITE_ALLOW_WRITE
    BY <1>9, <2>1, TypeNumbers
  <2>3. QED
    BY <1>3, <1>9, <2>1, <2>2, TypeNumbers
<1>12. QED
  BY <1>10, <1>11

-----------------------------------------------------------------------------
(* The theorems *)

\* Locks that different threads use on a table at the same time tolerate each
\* other: thr_lock, wake_up_waiters and the upgrades of INSERT DELAYED never
\* let a writer in next to somebody it excludes.
THEOREM ExclusionHolds == Spec => []Exclusion
<1>1. IInv => Exclusion
  BY InvExclusion
<1>2. QED
  BY <1>1, InOrderHolds, PTL

\* Nobody waits on a table that nobody uses, and no reader where nobody writes
\* or waits to write: whatever ends a lock or a wait wakes up those it kept
\* waiting.
THEOREM NoForgottenWaiterHolds == Spec => []NoForgottenWaiter
<1>1. IInv => NoForgottenWaiter
  BY InvNoForgottenWaiter
<1>2. QED
  BY <1>1, InOrderHolds, PTL

\* The lists of every THR_LOCK, the types and conditions of the lock data and
\* the counters agree, however grants, KILL, timeouts and
\* thr_abort_locks_for_thread interleave.
THEOREM ListsConsistentHolds == Spec => []ListsConsistent
<1>1. IInv => ListsConsistent
  BY InvTypeOK, InvQueueMatchesData, InvNoWriteCount DEF ListsConsistent
<1>2. QED
  BY <1>1, InOrderHolds, PTL

\* The assertion of thr_lock: sort_locks puts the strongest lock of each table
\* first, so a further write lock of the same thread needs no check.
THEOREM OldLockIsStrongerHolds == Spec => []OldLockIsStronger
<1>1. IInv => OldLockIsStronger
  BY InvOldLockIsStronger
<1>2. QED
  BY <1>1, InOrderHolds, PTL
=============================================================================
