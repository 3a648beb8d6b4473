---------------------------- MODULE MDLMapProofs ----------------------------
(***************************************************************************)
(* The registry of MDL_lock objects is safe for any number of threads,     *)
(* keys and addresses, any size of the cache and any width of the          *)
(* reference counters that has room for all threads.                       *)
(*                                                                         *)
(* The inductive invariant says for every object who can reach it: the     *)
(* hash, the cache, the holder of its m_rwlock, or the threads that have   *)
(* found it and are about to lock it, which m_ref_usage - m_ref_release    *)
(* counts modulo the width of the counters.                                *)
(***************************************************************************)
EXTENDS MDLMap, FiniteSetTheorems, TLAPS

\* The threads that have taken a reference to o and are about to lock it.
Waiters(o) == {t \in Thread : pc[t] = "wrlock" /\ ref[t] = o}

\* Where a thread has the m_rwlock of the object that it refers to.
Holding == {"owner", "empty", "unlock", "stale"}

HoldsLock(t) ==
  pc[t] \in Holding => ref[t] \in Live /\ m_rwlock[ref[t]] = t

WantOf(t) ==
  /\ pc[t] \in {"lookup", "owner"} => want[t] \in Key
  /\ pc[t] \in {"wrlock", "stale"} => want[t] \in MapKey
  /\ pc[t] \in {"idle", "empty", "unlock"} => want[t] = NULL

\* What is in the hash is found under its own key, and is of the right class.
HashEntry(k) ==
  m_locks[k] # NULL =>
    /\ m_locks[k] \in allocated
    /\ key[m_locks[k]] = k
    /\ ~m_is_destroyed[m_locks[k]]
    /\ m_locks[k] \notin unused
    /\ scoped[m_locks[k]] <=> k \in SchemaKey

CachedLock(o) == o \in allocated /\ ~m_is_destroyed[o] /\ ~scoped[o]

TicketAt(t, k) == ticket[t][k] = HomeOf(k) \/ ticket[t][k] = NULL

\* The object that find_or_insert has returned is that of the key; the one
\* that remove is called for is still in the hash and has no tickets.
FoundBy(t) ==
  /\ pc[t] = "owner" => ref[t] = HomeOf(want[t])
  /\ pc[t] = "empty" =>
       /\ key[ref[t]] \in Key
       /\ ref[t] = HomeOf(key[ref[t]])
       /\ \A u \in Thread, k \in Key : ticket[u][k] # ref[t]

\* As long as its version is the one that the thread has seen, an object that
\* was found in the hash is still there.
LookedUp(t) ==
  pc[t] = "wrlock" =>
    /\ ref[t] \in allocated
    /\ version[t] <= m_version[ref[t]]
    /\ version[t] = m_version[ref[t]] => m_locks[want[t]] = ref[t]

\* The object of t has been removed for good and nobody waits for it.
Doomed(t) ==
  /\ ref[t] \in allocated
  /\ m_is_destroyed[ref[t]]
  /\ \A u \in Thread : pc[u] = "wrlock" => ref[u] # ref[t]

\* A thread that has seen equal counters is the only one that will free its
\* object, and nobody has locked it meanwhile.
LastUserIs(t) ==
  /\ pc[t] \in {"unlock", "stale"} =>
       ref[t] \in allocated /\ (last[t] => Doomed(t))
  /\ pc[t] = "destroy" =>
       /\ Doomed(t)
       /\ m_rwlock[ref[t]] = NULL
       /\ \A u \in Thread \ {t} : pc[u] = "destroy" => ref[u] # ref[t]

\* usage = release + n, for counters that wrap around.
Balance(usage, release, n) ==
  \/ usage = release + n
  \/ usage + UintMax + 1 = release + n

\* An object that exists is in the hash or in the cache or has been removed.
AccountedFor(o) ==
  \/ m_is_destroyed[o]
  \/ o \in unused
  \/ key[o] \in MapKey /\ m_locks[key[o]] = o

\* Thread t frees object o, or will lock it and then see whether it must.
Frees(t, o) ==
  /\ ref[t] = o
  /\ \/ pc[t] \in {"wrlock", "destroy"}
     \/ pc[t] \in {"unlock", "stale"} /\ last[t]

\* Because of thread t the object of k will be removed from the hash.
Keeps(t, k) ==
  \/ ticket[t][k] = m_locks[k]
  \/ /\ ref[t] = m_locks[k]
     /\ \/ pc[t] \in {"owner", "empty"}
        \/ pc[t] = "wrlock" /\ version[t] = m_version[ref[t]]

Wants == \A t \in Thread : WantOf(t)
Holders == \A t \in Thread : HoldsLock(t)
Statics == \A s \in StaticKey : key[s] = s
Hash == \A k \in MapKey : HashEntry(k)
Cache == \A o \in unused : CachedLock(o)
Home == \A t \in Thread, k \in Key : TicketAt(t, k)
Found == \A t \in Thread : FoundBy(t)
Looking == \A t \in Thread : LookedUp(t)
LastUser == \A t \in Thread : LastUserIs(t)
Counted ==
  \A o \in Lock :
    Balance(m_ref_usage[o], m_ref_release[o], Cardinality(Waiters(o)))
Accounted == \A o \in allocated : AccountedFor(o)
Freed ==
  \A o \in allocated : m_is_destroyed[o] => \E t \in Thread : Frees(t, o)
InUse ==
  \A k \in MapKey : m_locks[k] # NULL => \E t \in Thread : Keeps(t, k)

IInv ==
  /\ TypeOK
  /\ Wants
  /\ Holders
  /\ Statics
  /\ Hash
  /\ Cache
  /\ Home
  /\ Found
  /\ Looking
  /\ LastUser
  /\ Counted
  /\ Accounted
  /\ Freed
  /\ InUse
-----------------------------------------------------------------------------
(* Values, counters and sets of threads *)

\* NULL is none of the values of the model, and the three kinds of keys and
\* the two kinds of objects are disjoint.
LEMMA Values ==
  /\ NULL \notin Thread /\ NULL \notin Key /\ NULL \notin Lock
  /\ NULL \notin Addr /\ NULL \notin MapKey
  /\ \A k \in StaticKey : k \notin MapKey /\ k \notin Addr
  /\ \A k \in ObjectKey : k \in MapKey /\ k \notin SchemaKey
  /\ \A k \in SchemaKey : k \in MapKey
  /\ \A k \in MapKey : k \in Key /\ k \notin StaticKey
  /\ \A k \in Key : k \notin StaticKey => k \in MapKey
  /\ Addr \subseteq Lock /\ StaticKey \subseteq Lock /\ StaticKey \subseteq Key
BY MDLMapAssumption DEF Key, MapKey, Lock

\* The number of threads that wait for an object, before and after one of
\* them comes or goes.
LEMMA WaiterCount ==
  ASSUME NEW o
  PROVE  /\ IsFiniteSet(Waiters(o))
         /\ Cardinality(Waiters(o)) \in 0..UintMax
         /\ Cardinality(Waiters(o)) = 0 <=> Waiters(o) = {}
         /\ \A t \in Thread \ Waiters(o) :
              /\ Cardinality(Waiters(o) \cup {t}) = Cardinality(Waiters(o)) + 1
              /\ Cardinality(Waiters(o) \cup {t}) <= UintMax
         /\ \A t \in Waiters(o) :
              Cardinality(Waiters(o) \ {t}) = Cardinality(Waiters(o)) - 1
<1>1. Waiters(o) \subseteq Thread
  BY DEF Waiters
<1>2. /\ IsFiniteSet(Waiters(o))
      /\ Cardinality(Waiters(o)) <= Cardinality(Thread)
  BY <1>1, MDLMapAssumption, FS_Subset
<1>3. Cardinality(Waiters(o)) \in Nat /\ Cardinality(Thread) \in Nat
  BY <1>2, MDLMapAssumption, FS_CardinalityType
<1>4. Cardinality(Waiters(o)) = 0 <=> Waiters(o) = {}
  BY <1>2, FS_EmptySet
<1>5. ASSUME NEW t \in Thread \ Waiters(o)
      PROVE  /\ Cardinality(Waiters(o) \cup {t}) = Cardinality(Waiters(o)) + 1
             /\ Cardinality(Waiters(o) \cup {t}) <= UintMax
  <2>1. Cardinality(Waiters(o) \cup {t}) = Cardinality(Waiters(o)) + 1
    BY <1>2, FS_AddElement
  <2>2. Waiters(o) \cup {t} \subseteq Thread
    BY <1>1
  <2>3. Cardinality(Waiters(o) \cup {t}) <= Cardinality(Thread)
    BY <2>2, MDLMapAssumption, FS_Subset
  <2> QED
    BY <1>3, <2>1, <2>3, MDLMapAssumption
<1>6. ASSUME NEW t \in Waiters(o)
      PROVE  Cardinality(Waiters(o) \ {t}) = Cardinality(Waiters(o)) - 1
  BY <1>2, FS_RemoveElement
<1> QED
  BY <1>2, <1>3, <1>4, <1>5, <1>6, MDLMapAssumption

\* A reference more or less, on counters that wrap around.
LEMMA BalanceFacts ==
  ASSUME NEW usage \in 0..UintMax, NEW release \in 0..UintMax,
         NEW n \in 0..UintMax, Balance(usage, release, n)
  PROVE  /\ usage = release <=> n = 0
         /\ n + 1 <= UintMax => Balance(Inc(usage), release, n + 1)
         /\ n > 0 => Balance(usage, Inc(release), n - 1)
         /\ Inc(usage) \in 0..UintMax /\ Inc(release) \in 0..UintMax
BY MDLMapAssumption DEF Balance, Inc

\* A counter stays a counter.
LEMMA IncType == \A n \in 0..UintMax : Inc(n) \in 0..UintMax
BY MDLMapAssumption DEF Inc

\* Nobody has come or gone.
LEMMA CountedFrame ==
  ASSUME Counted,
         UNCHANGED <<m_ref_usage, m_ref_release>>,
         \A u \in Thread : /\ pc[u] = "wrlock" <=> pc'[u] = "wrlock"
                           /\ pc[u] = "wrlock" => ref'[u] = ref[u]
  PROVE  Counted'
<1>1. ASSUME NEW o PROVE Waiters(o)' = Waiters(o)
  BY DEF Waiters
<1> QED
  BY <1>1 DEF Counted

\* TakeReference: a thread comes.
LEMMA CountedTake ==
  ASSUME TypeOK, Counted, NEW t \in Thread, NEW o \in Lock,
         pc[t] # "wrlock", pc'[t] = "wrlock", ref'[t] = o,
         \A u \in Thread \ {t} : pc'[u] = pc[u] /\ ref'[u] = ref[u],
         m_ref_usage'[o] = Inc(m_ref_usage[o]),
         \A p \in Lock \ {o} : m_ref_usage'[p] = m_ref_usage[p],
         m_ref_release' = m_ref_release
  PROVE  Counted'
<1>1. Waiters(o)' = Waiters(o) \cup {t} /\ t \notin Waiters(o)
  BY DEF Waiters
<1>2. ASSUME NEW p \in Lock, p # o PROVE Waiters(p)' = Waiters(p)
  BY <1>2 DEF Waiters
<1>3. Balance(Inc(m_ref_usage[o]), m_ref_release[o],
              Cardinality(Waiters(o) \cup {t}))
  <2>1. /\ Cardinality(Waiters(o) \cup {t}) = Cardinality(Waiters(o)) + 1
        /\ Cardinality(Waiters(o) \cup {t}) <= UintMax
        /\ Cardinality(Waiters(o)) \in 0..UintMax
    BY <1>1, WaiterCount
  <2>2. /\ m_ref_usage[o] \in 0..UintMax /\ m_ref_release[o] \in 0..UintMax
        /\ Balance(m_ref_usage[o], m_ref_release[o], Cardinality(Waiters(o)))
    BY DEF TypeOK, Counted
  <2> QED
    BY <2>1, <2>2, BalanceFacts
<1> QED
  BY <1>1, <1>2, <1>3 DEF Counted

\* The lock of an object by move_from_hash_to_lock_mutex: a thread goes, and
\* the counters tell it whether it was the last one.
LEMMA CountedRelease ==
  ASSUME TypeOK, Counted, NEW t \in Thread, NEW o \in Lock,
         pc[t] = "wrlock", ref[t] = o, pc'[t] # "wrlock",
         \A u \in Thread \ {t} : pc'[u] = pc[u] /\ ref'[u] = ref[u],
         m_ref_release'[o] = Inc(m_ref_release[o]),
         \A p \in Lock \ {o} : m_ref_release'[p] = m_ref_release[p],
         m_ref_usage' = m_ref_usage
  PROVE  /\ Counted'
         /\ Inc(m_ref_release[o]) \in 0..UintMax
         /\ NoReferences(o, Inc(m_ref_release[o])) <=>
              \A u \in Thread \ {t} : ~(pc[u] = "wrlock" /\ ref[u] = o)
<1>1. Waiters(o)' = Waiters(o) \ {t} /\ t \in Waiters(o)
  BY DEF Waiters
<1>2. ASSUME NEW p \in Lock, p # o PROVE Waiters(p)' = Waiters(p)
  BY <1>2 DEF Waiters
<1> DEFINE n == Cardinality(Waiters(o))
<1>3. /\ n \in 0..UintMax /\ n # 0
      /\ Cardinality(Waiters(o) \ {t}) = n - 1
  BY <1>1, WaiterCount
<1>4. /\ m_ref_usage[o] \in 0..UintMax /\ m_ref_release[o] \in 0..UintMax
      /\ Balance(m_ref_usage[o], m_ref_release[o], n)
  BY DEF TypeOK, Counted
<1> HIDE DEF n
<1>5. /\ Balance(m_ref_usage[o], Inc(m_ref_release[o]), n - 1)
      /\ Inc(m_ref_release[o]) \in 0..UintMax
      /\ n - 1 \in 0..UintMax
  <2>1. n > 0 /\ n - 1 \in 0..UintMax
    BY <1>3, MDLMapAssumption
  <2> QED
    BY <1>3, <1>4, <2>1, BalanceFacts
<1>6. m_ref_usage[o] = Inc(m_ref_release[o]) <=> n - 1 = 0
  <2> DEFINE m == n - 1
             r == Inc(m_ref_release[o])
  <2>1. m \in 0..UintMax /\ r \in 0..UintMax /\ Balance(m_ref_usage[o], r, m)
    BY <1>5
  <2> HIDE DEF m, r
  <2>2. m_ref_usage[o] = r <=> m = 0
    BY <1>4, <2>1, BalanceFacts
  <2> QED
    BY <2>2 DEF m, r
<1>7. n - 1 = 0 <=> Waiters(o) \ {t} = {}
  <2>1. IsFiniteSet(Waiters(o) \ {t})
    BY WaiterCount, FS_Subset
  <2> QED
    BY <1>3, <2>1, FS_EmptySet
<1>8. Counted'
  BY <1>1, <1>2, <1>3, <1>5 DEF Counted
<1> QED
  BY <1>5, <1>6, <1>7, <1>8 DEF NoReferences, Waiters

\* An object without waiters is one whose counters agree.
LEMMA CountedNone ==
  ASSUME TypeOK, Counted, NEW o \in Lock
  PROVE  NoReferences(o, m_ref_release[o]) <=>
           \A u \in Thread : ~(pc[u] = "wrlock" /\ ref[u] = o)
<1> DEFINE n == Cardinality(Waiters(o))
<1>1. n \in 0..UintMax /\ (n = 0 <=> Waiters(o) = {})
  BY WaiterCount
<1>2. /\ m_ref_usage[o] \in 0..UintMax /\ m_ref_release[o] \in 0..UintMax
      /\ Balance(m_ref_usage[o], m_ref_release[o], n)
  BY DEF TypeOK, Counted
<1> HIDE DEF n
<1>3. m_ref_usage[o] = m_ref_release[o] <=> n = 0
  BY <1>1, <1>2, BalanceFacts
<1> QED
  BY <1>1, <1>3 DEF NoReferences, Waiters
-----------------------------------------------------------------------------
(* One lemma per operation *)

\* A thread asks for a lock.
LEMMA RequestKeeps ==
  ASSUME IInv, NEW t \in Thread, NEW k \in Key, Request(t, k)
  PROVE  IInv'
<1>p. pc[t] = "idle" /\ left[t] > 0
  BY DEF Request
<1>1. /\ pc' = [pc EXCEPT ![t] = "lookup"]
      /\ want' = [want EXCEPT ![t] = k]
      /\ left' = [left EXCEPT ![t] = @ - 1]
      /\ UNCHANGED <<allocated, key, scoped, m_version, m_ref_usage,
                     m_ref_release, m_is_destroyed, m_rwlock,
                     m_locks, unused, ticket, ref, version, last>>
  BY DEF Request, Goto, object, counters, map, locals
<1>2. /\ pc'[t] = "lookup"
      /\ \A x \in Thread \ {t} : pc'[x] = pc[x]
      /\ want'[t] = k
      /\ \A x \in Thread \ {t} : want'[x] = want[x]
      /\ left'[t] = left[t] - 1
      /\ \A x \in Thread \ {t} : left'[x] = left[x]
  BY <1>1, <1>p DEF IInv, TypeOK
<1>3. /\ UNCHANGED <<allocated, key, scoped, m_version, m_ref_usage,
                     m_ref_release, m_is_destroyed, m_rwlock,
                     m_locks, unused, ticket, ref, version, last>>
  BY <1>1
<1>4. TypeOK'
  BY <1>1, <1>p, MDLMapAssumption DEF IInv, TypeOK, PC
<1>5. Statics' /\ Hash' /\ Cache' /\ Home' /\ Accounted'
  BY <1>3
     DEF IInv, Statics, Hash, HashEntry, Cache, CachedLock, Home, TicketAt,
         HomeOf, Accounted, AccountedFor
<1>6. Wants'
  <2>1. ASSUME NEW u \in Thread, u # t PROVE WantOf(u)'
    BY <2>1, <1>2, <1>3, <1>p, Values DEF IInv, TypeOK, Wants, WantOf
  <2>2. WantOf(t)'
    BY <1>2, <1>3, <1>p, Values DEF IInv, TypeOK, Wants, WantOf
  <2> QED
    BY <2>1, <2>2 DEF Wants
<1>7. Holders'
  <2>1. ASSUME NEW u \in Thread, u # t PROVE HoldsLock(u)'
    BY <2>1, <1>2, <1>3, <1>p, Values
       DEF IInv, TypeOK, Holders, HoldsLock, Holding, Live
  <2>2. HoldsLock(t)'
    BY <1>2, <1>3, <1>p, Values
       DEF IInv, TypeOK, Holders, HoldsLock, Holding, Live
  <2> QED
    BY <2>1, <2>2 DEF Holders
<1>8. Found'
  <2>1. ASSUME NEW u \in Thread, u # t PROVE FoundBy(u)'
    BY <2>1, <1>2, <1>3, <1>p, Values DEF IInv, TypeOK, Found, FoundBy, HomeOf
  <2>2. FoundBy(t)'
    BY <1>2, <1>3, <1>p, Values DEF IInv, TypeOK, Found, FoundBy, HomeOf
  <2> QED
    BY <2>1, <2>2 DEF Found
<1>9. Looking'
  <2>1. ASSUME NEW u \in Thread, u # t PROVE LookedUp(u)'
    BY <2>1, <1>2, <1>3, <1>p, Values DEF IInv, TypeOK, Looking, LookedUp
  <2>2. LookedUp(t)'
    BY <1>2, <1>3, <1>p, Values DEF IInv, TypeOK, Looking, LookedUp
  <2> QED
    BY <2>1, <2>2 DEF Looking
<1>10. LastUser'
  <2>1. ASSUME NEW u \in Thread, u # t PROVE LastUserIs(u)'
    BY <2>1, <1>2, <1>3, <1>p, Values
       DEF IInv, TypeOK, LastUser, LastUserIs, Doomed
  <2>2. LastUserIs(t)'
    BY <1>2, <1>3, <1>p, Values DEF IInv, TypeOK, LastUser, LastUserIs, Doomed
  <2> QED
    BY <2>1, <2>2 DEF LastUser
<1>11. Counted'
  BY <1>2, <1>3, <1>p, CountedFrame DEF IInv
<1>12. Freed'
  <2>1. ASSUME NEW u \in Thread, NEW q \in allocated, Frees(u, q)
        PROVE  Frees(u, q)'
    <3>1. CASE u # t
      BY <2>1, <3>1, <1>2, <1>3, <1>p, Values DEF IInv, TypeOK, Freed, Frees
    <3>2. CASE u = t
      BY <2>1, <3>2, <1>2, <1>3, <1>p, Values DEF IInv, TypeOK, Freed, Frees
    <3> QED
      BY <3>1, <3>2
  <2> QED
    BY <2>1, <1>3 DEF IInv, Freed
<1>13. InUse'
  <2>1. ASSUME NEW u \in Thread, NEW j \in MapKey,
               m_locks[j] # NULL, Keeps(u, j)
        PROVE  Keeps(u, j)'
    <3>1. CASE u # t
      BY <2>1, <3>1, <1>2, <1>3, <1>p, Values DEF IInv, TypeOK, InUse, Keeps
    <3>2. CASE u = t
      BY <2>1, <3>2, <1>2, <1>3, <1>p, Values DEF IInv, TypeOK, InUse, Keeps
    <3> QED
      BY <3>1, <3>2
  <2> QED
    BY <2>1, <1>3 DEF IInv, InUse
<1> QED
  BY <1>4, <1>5, <1>6, <1>7, <1>8, <1>9, <1>10, <1>11, <1>12, <1>13 DEF IInv

\* find_or_insert of GLOBAL or COMMIT.
LEMMA FindStaticKeeps ==
  ASSUME IInv, NEW t \in Thread, FindStatic(t)
  PROVE  IInv'
<1>p. PICK s \in StaticKey : s = want[t]
  BY DEF FindStatic
<1>q. pc[t] = "lookup" /\ m_rwlock[s] = NULL /\ s \in Lock
  BY <1>p, Values DEF FindStatic
<1>1. /\ m_rwlock' = [m_rwlock EXCEPT ![s] = t]
      /\ pc' = [pc EXCEPT ![t] = "owner"]
      /\ ref' = [ref EXCEPT ![t] = s]
      /\ UNCHANGED <<allocated, key, scoped, m_version, m_ref_usage,
                     m_ref_release, m_is_destroyed, m_locks, unused,
                     ticket, want, version, last, left>>
  BY <1>p DEF FindStatic, Goto, object, counters, map, locals
<1>2. /\ m_rwlock'[s] = t
      /\ \A x \in Lock \ {s} : m_rwlock'[x] = m_rwlock[x]
      /\ ref'[t] = s
      /\ \A x \in Thread \ {t} : ref'[x] = ref[x]
      /\ pc'[t] = "owner"
      /\ \A x \in Thread \ {t} : pc'[x] = pc[x]
  BY <1>1, <1>q DEF IInv, TypeOK
<1>3. /\ UNCHANGED <<allocated, key, scoped, m_version, m_ref_usage,
                     m_ref_release, m_is_destroyed, m_locks, unused,
                     ticket, want, version, last, left>>
  BY <1>1
<1>4. TypeOK'
  BY <1>1, <1>q, MDLMapAssumption DEF IInv, TypeOK, PC
<1>5. Statics' /\ Hash' /\ Cache' /\ Home' /\ Accounted'
  BY <1>3
     DEF IInv, Statics, Hash, HashEntry, Cache, CachedLock, Home, TicketAt,
         HomeOf, Accounted, AccountedFor
<1>6. Wants'
  <2>1. ASSUME NEW u \in Thread, u # t PROVE WantOf(u)'
    BY <2>1, <1>2, <1>3, <1>p, <1>q, Values DEF IInv, TypeOK, Wants, WantOf
  <2>2. WantOf(t)'
    BY <1>2, <1>3, <1>p, <1>q, Values DEF IInv, TypeOK, Wants, WantOf
  <2> QED
    BY <2>1, <2>2 DEF Wants
<1>7. Holders'
  <2>1. ASSUME NEW u \in Thread, u # t PROVE HoldsLock(u)'
    BY <2>1, <1>2, <1>3, <1>p, <1>q, Values
       DEF IInv, TypeOK, Holders, HoldsLock, Holding, Live
  <2>2. HoldsLock(t)'
    BY <1>2, <1>3, <1>p, <1>q, Values
       DEF IInv, TypeOK, Holders, HoldsLock, Holding, Live
  <2> QED
    BY <2>1, <2>2 DEF Holders
<1>8. Found'
  <2>1. ASSUME NEW u \in Thread, u # t PROVE FoundBy(u)'
    BY <2>1, <1>2, <1>3, <1>p, <1>q, Values
       DEF IInv, TypeOK, Found, FoundBy, HomeOf
  <2>2. FoundBy(t)'
    BY <1>2, <1>3, <1>p, <1>q, Values DEF IInv, TypeOK, Found, FoundBy, HomeOf
  <2> QED
    BY <2>1, <2>2 DEF Found
<1>9. Looking'
  <2>1. ASSUME NEW u \in Thread, u # t PROVE LookedUp(u)'
    BY <2>1, <1>2, <1>3, <1>p, <1>q, Values
       DEF IInv, TypeOK, Looking, LookedUp
  <2>2. LookedUp(t)'
    BY <1>2, <1>3, <1>p, <1>q, Values DEF IInv, TypeOK, Looking, LookedUp
  <2> QED
    BY <2>1, <2>2 DEF Looking
<1>10. LastUser'
  <2>1. ASSUME NEW u \in Thread, u # t PROVE LastUserIs(u)'
    <3>d. ASSUME Doomed(u) PROVE Doomed(u)'
      <4>1. /\ ref'[u] = ref[u] /\ ref[u] \in Lock /\ ref[u] \in allocated
            /\ m_is_destroyed[ref[u]]
        BY <2>1, <3>d, <1>2, <1>3, Values DEF Doomed, IInv, TypeOK
      <4>2. ref[u] \in allocated' /\ m_is_destroyed'[ref[u]]
        BY <4>1, <1>2, <1>3, <1>p, <1>q, Values DEF IInv, TypeOK
      <4>3. ASSUME NEW v \in Thread, pc'[v] = "wrlock"
            PROVE  ref'[v] # ref[u]
        <5>1. CASE v = t
          BY <4>1, <4>3, <5>1, <3>d, <1>2, <1>3, <1>p, <1>q, Values
             DEF Doomed, IInv, TypeOK
        <5>2. CASE v # t
          BY <4>3, <5>2, <3>d, <1>2, <1>3 DEF Doomed
        <5> QED
          BY <5>1, <5>2
      <4> QED
        BY <4>1, <4>2, <4>3 DEF Doomed
    <3>1. CASE pc[u] \in {"unlock", "stale"}
      <4>1. ref[u] \in allocated /\ (last[u] => Doomed(u)')
        BY <3>1, <3>d DEF IInv, LastUser, LastUserIs
      <4> QED
        BY <2>1, <3>1, <4>1, <1>2, <1>3, <1>p, <1>q, Values DEF LastUserIs
    <3>2. CASE pc[u] = "destroy"
      <4>1. /\ Doomed(u) /\ m_rwlock[ref[u]] = NULL
            /\ \A v \in Thread \ {u} : pc[v] = "destroy" => ref[v] # ref[u]
        BY <3>2 DEF IInv, LastUser, LastUserIs
      <4>2. m_rwlock'[ref[u]] = NULL
        BY <4>1, <1>2, <1>3, <1>p, <1>q, Values DEF IInv, TypeOK, Doomed
      <4> QED
        BY <2>1, <3>2, <3>d, <4>1, <4>2, <1>2, <1>3, <1>p, <1>q, Values
           DEF LastUserIs
    <3>3. CASE pc[u] \notin {"unlock", "stale", "destroy"}
      BY <2>1, <3>3, <1>2 DEF LastUserIs
    <3> QED
      BY <3>1, <3>2, <3>3
  <2>2. LastUserIs(t)'
    BY <1>2, <1>3, <1>p, <1>q, Values
       DEF IInv, TypeOK, LastUser, LastUserIs, Doomed
  <2> QED
    BY <2>1, <2>2 DEF LastUser
<1>11. Counted'
  BY <1>2, <1>3, <1>q, CountedFrame DEF IInv
<1>12. Freed'
  <2>1. ASSUME NEW u \in Thread, NEW q \in allocated, Frees(u, q)
        PROVE  Frees(u, q)'
    <3>1. CASE u # t
      BY <2>1, <3>1, <1>2, <1>3, <1>p, <1>q, Values
         DEF IInv, TypeOK, Freed, Frees
    <3>2. CASE u = t
      BY <2>1, <3>2, <1>2, <1>3, <1>p, <1>q, Values
         DEF IInv, TypeOK, Freed, Frees
    <3> QED
      BY <3>1, <3>2
  <2> QED
    BY <2>1, <1>3 DEF IInv, Freed
<1>13. InUse'
  <2>1. ASSUME NEW u \in Thread, NEW j \in MapKey,
               m_locks[j] # NULL, Keeps(u, j)
        PROVE  Keeps(u, j)'
    <3>1. CASE u # t
      BY <2>1, <3>1, <1>2, <1>3, <1>p, <1>q, Values
         DEF IInv, TypeOK, InUse, Keeps
    <3>2. CASE u = t
      BY <2>1, <3>2, <1>2, <1>3, <1>p, <1>q, Values
         DEF IInv, TypeOK, InUse, Keeps
    <3> QED
      BY <3>1, <3>2
  <2> QED
    BY <2>1, <1>3 DEF IInv, InUse
<1> QED
  BY <1>4, <1>5, <1>6, <1>7, <1>8, <1>9, <1>10, <1>11, <1>12, <1>13 DEF IInv

\* find_or_insert finds an object in the hash.
LEMMA FindKeeps ==
  ASSUME IInv, NEW t \in Thread, Find(t)
  PROVE  IInv'
<1>p. PICK k \in MapKey : k = want[t]
  BY DEF Find
<1>q. PICK o \in Lock : /\ o = m_locks[k] /\ pc[t] = "lookup"
                       /\ o \in Addr /\ o # NULL
  BY <1>p, Values DEF Find, IInv, TypeOK
<1>1. /\ m_ref_usage' = [m_ref_usage EXCEPT ![o] = Inc(m_ref_usage[o])]
      /\ pc' = [pc EXCEPT ![t] = "wrlock"]
      /\ ref' = [ref EXCEPT ![t] = o]
      /\ version' = [version EXCEPT ![t] = m_version[o]]
      /\ UNCHANGED <<allocated, key, scoped, m_version, m_ref_release,
                     m_is_destroyed, m_rwlock, m_locks, unused,
                     ticket, want, last, left>>
  BY <1>p, <1>q DEF Find, Goto, TakeReference, object, counters, map, locals
<1>2. /\ m_ref_usage'[o] = Inc(m_ref_usage[o])
      /\ \A x \in Lock \ {o} : m_ref_usage'[x] = m_ref_usage[x]
      /\ version'[t] = m_version[o]
      /\ \A x \in Thread \ {t} : version'[x] = version[x]
      /\ ref'[t] = o
      /\ \A x \in Thread \ {t} : ref'[x] = ref[x]
      /\ pc'[t] = "wrlock"
      /\ \A x \in Thread \ {t} : pc'[x] = pc[x]
  BY <1>1 DEF IInv, TypeOK
<1>3. /\ UNCHANGED <<allocated, key, scoped, m_version, m_ref_release,
                     m_is_destroyed, m_rwlock, m_locks, unused,
                     ticket, want, last, left>>
  BY <1>1
<1>4. TypeOK'
  <2>1. Inc(m_ref_usage[o]) \in 0..UintMax /\ m_version[o] \in Nat /\ k \in Key
    BY <1>p, <1>q, Values, IncType DEF IInv, TypeOK
  <2> QED
    BY <1>1, <1>q, <2>1 DEF IInv, TypeOK, PC
<1>5. Statics' /\ Hash' /\ Cache' /\ Home' /\ Accounted'
  BY <1>3
     DEF IInv, Statics, Hash, HashEntry, Cache, CachedLock, Home, TicketAt,
         HomeOf, Accounted, AccountedFor
<1>6. Wants'
  <2>1. ASSUME NEW u \in Thread, u # t PROVE WantOf(u)'
    BY <2>1, <1>2, <1>3, <1>p, <1>q, Values DEF IInv, TypeOK, Wants, WantOf
  <2>2. WantOf(t)'
    BY <1>2, <1>3, <1>p, <1>q, Values DEF IInv, TypeOK, Wants, WantOf
  <2> QED
    BY <2>1, <2>2 DEF Wants
<1>7. Holders'
  <2>1. ASSUME NEW u \in Thread, u # t PROVE HoldsLock(u)'
    BY <2>1, <1>2, <1>3, <1>p, <1>q, Values
       DEF IInv, TypeOK, Holders, HoldsLock, Holding, Live
  <2>2. HoldsLock(t)'
    BY <1>2, <1>3, <1>p, <1>q, Values
       DEF IInv, TypeOK, Holders, HoldsLock, Holding, Live
  <2> QED
    BY <2>1, <2>2 DEF Holders
<1>8. Found'
  <2>1. ASSUME NEW u \in Thread, u # t PROVE FoundBy(u)'
    BY <2>1, <1>2, <1>3, <1>p, <1>q, Values
       DEF IInv, TypeOK, Found, FoundBy, HomeOf
  <2>2. FoundBy(t)'
    BY <1>2, <1>3, <1>p, <1>q, Values DEF IInv, TypeOK, Found, FoundBy, HomeOf
  <2> QED
    BY <2>1, <2>2 DEF Found
<1>9. Looking'
  <2>1. ASSUME NEW u \in Thread, u # t PROVE LookedUp(u)'
    BY <2>1, <1>2, <1>3, <1>p, <1>q, Values
       DEF IInv, TypeOK, Looking, LookedUp, Hash, HashEntry
  <2>2. LookedUp(t)'
    BY <1>2, <1>3, <1>p, <1>q, Values
       DEF IInv, TypeOK, Looking, LookedUp, Hash, HashEntry
  <2> QED
    BY <2>1, <2>2 DEF Looking
<1>10. LastUser'
  <2>1. ASSUME NEW u \in Thread, u # t PROVE LastUserIs(u)'
    <3>d. ASSUME Doomed(u) PROVE Doomed(u)'
      <4>1. /\ ref'[u] = ref[u] /\ ref[u] \in Lock /\ ref[u] \in allocated
            /\ m_is_destroyed[ref[u]]
        BY <2>1, <3>d, <1>2, <1>3, Values DEF Doomed, IInv, TypeOK
      <4>2. ref[u] \in allocated' /\ m_is_destroyed'[ref[u]]
        BY <4>1, <1>2, <1>3, <1>p, <1>q, Values DEF IInv, TypeOK
      <4>3. ASSUME NEW v \in Thread, pc'[v] = "wrlock"
            PROVE  ref'[v] # ref[u]
        <5>1. CASE v = t
          BY <4>1, <4>3, <5>1, <3>d, <1>2, <1>3, <1>p, <1>q, Values
             DEF Doomed, IInv, TypeOK, Hash, HashEntry
        <5>2. CASE v # t
          BY <4>3, <5>2, <3>d, <1>2, <1>3 DEF Doomed
        <5> QED
          BY <5>1, <5>2
      <4> QED
        BY <4>1, <4>2, <4>3 DEF Doomed
    <3>1. CASE pc[u] \in {"unlock", "stale"}
      <4>1. ref[u] \in allocated /\ (last[u] => Doomed(u)')
        BY <3>1, <3>d DEF IInv, LastUser, LastUserIs
      <4> QED
        BY <2>1, <3>1, <4>1, <1>2, <1>3, <1>p, <1>q, Values DEF LastUserIs
    <3>2. CASE pc[u] = "destroy"
      <4>1. /\ Doomed(u) /\ m_rwlock[ref[u]] = NULL
            /\ \A v \in Thread \ {u} : pc[v] = "destroy" => ref[v] # ref[u]
        BY <3>2 DEF IInv, LastUser, LastUserIs
      <4>2. m_rwlock'[ref[u]] = NULL
        BY <4>1, <1>2, <1>3, <1>p, <1>q, Values
           DEF IInv, TypeOK, Doomed, Hash, HashEntry
      <4> QED
        BY <2>1, <3>2, <3>d, <4>1, <4>2, <1>2, <1>3, <1>p, <1>q, Values
           DEF LastUserIs
    <3>3. CASE pc[u] \notin {"unlock", "stale", "destroy"}
      BY <2>1, <3>3, <1>2 DEF LastUserIs
    <3> QED
      BY <3>1, <3>2, <3>3
  <2>2. LastUserIs(t)'
    BY <1>2, <1>3, <1>p, <1>q, Values
       DEF IInv, TypeOK, LastUser, LastUserIs, Doomed, Hash, HashEntry
  <2> QED
    BY <2>1, <2>2 DEF LastUser
<1>11. Counted'
  BY <1>2, <1>3, <1>p, <1>q, CountedTake DEF IInv
<1>12. Freed'
  <2>1. ASSUME NEW u \in Thread, NEW q \in allocated, Frees(u, q)
        PROVE  Frees(u, q)'
    <3>1. CASE u # t
      BY <2>1, <3>1, <1>2, <1>3, <1>p, <1>q, Values
         DEF IInv, TypeOK, Freed, Frees
    <3>2. CASE u = t
      BY <2>1, <3>2, <1>2, <1>3, <1>p, <1>q, Values
         DEF IInv, TypeOK, Freed, Frees
    <3> QED
      BY <3>1, <3>2
  <2> QED
    BY <2>1, <1>3 DEF IInv, Freed
<1>13. InUse'
  <2>1. ASSUME NEW u \in Thread, NEW j \in MapKey,
               m_locks[j] # NULL, Keeps(u, j)
        PROVE  Keeps(u, j)'
    <3>1. CASE u # t
      BY <2>1, <3>1, <1>2, <1>3, <1>p, <1>q, Values
         DEF IInv, TypeOK, InUse, Keeps
    <3>2. CASE u = t
      BY <2>1, <3>2, <1>2, <1>3, <1>p, <1>q, Values
         DEF IInv, TypeOK, InUse, Keeps
    <3> QED
      BY <3>1, <3>2
  <2> QED
    BY <2>1, <1>3 DEF IInv, InUse
<1> QED
  BY <1>4, <1>5, <1>6, <1>7, <1>8, <1>9, <1>10, <1>11, <1>12, <1>13 DEF IInv

\* An object of the cache is used for another key.
LEMMA InsertUnusedKeeps ==
  ASSUME IInv, NEW t \in Thread, InsertUnused(t)
  PROVE  IInv'
<1>p. PICK k \in ObjectKey : /\ k = want[t]
                            /\ k \in MapKey /\ k \notin SchemaKey
                            /\ m_locks[k] = NULL /\ pc[t] = "lookup"
  BY Values DEF InsertUnused
<1>e. PICK o \in unused :
        /\ unused' = unused \ {o}
        /\ key' = [key EXCEPT ![o] = want[t]]
        /\ m_locks' = [m_locks EXCEPT ![want[t]] = o]
        /\ TakeReference(t, o, m_ref_usage[o], m_version[o])
  BY DEF InsertUnused
<1>q. o \in Addr /\ o \in Lock /\ o \notin StaticKey /\ pc[t] = "lookup"
  BY <1>p, Values DEF IInv, TypeOK
<1>1. /\ key' = [key EXCEPT ![o] = k]
      /\ m_ref_usage' = [m_ref_usage EXCEPT ![o] = Inc(m_ref_usage[o])]
      /\ m_locks' = [m_locks EXCEPT ![k] = o]
      /\ unused' = unused \ {o}
      /\ pc' = [pc EXCEPT ![t] = "wrlock"]
      /\ ref' = [ref EXCEPT ![t] = o]
      /\ version' = [version EXCEPT ![t] = m_version[o]]
      /\ UNCHANGED <<allocated, scoped, m_version, m_ref_release,
                     m_is_destroyed, m_rwlock, ticket, want, last,
                     left>>
  BY <1>p, <1>e
     DEF InsertUnused, Goto, TakeReference, object, counters, map, locals
<1>2. /\ key'[o] = k
      /\ \A x \in Lock \ {o} : key'[x] = key[x]
      /\ m_locks'[k] = o
      /\ \A x \in MapKey \ {k} : m_locks'[x] = m_locks[x]
      /\ m_ref_usage'[o] = Inc(m_ref_usage[o])
      /\ \A x \in Lock \ {o} : m_ref_usage'[x] = m_ref_usage[x]
      /\ version'[t] = m_version[o]
      /\ \A x \in Thread \ {t} : version'[x] = version[x]
      /\ ref'[t] = o
      /\ \A x \in Thread \ {t} : ref'[x] = ref[x]
      /\ pc'[t] = "wrlock"
      /\ \A x \in Thread \ {t} : pc'[x] = pc[x]
  BY <1>1, <1>p, <1>q, Values DEF IInv, TypeOK
<1>3. /\ unused' = unused \ {o}
      /\ UNCHANGED <<allocated, scoped, m_version, m_ref_release,
                     m_is_destroyed, m_rwlock, ticket, want, last,
                     left>>
  BY <1>1
<1>4. TypeOK'
  <2>1. Inc(m_ref_usage[o]) \in 0..UintMax /\ m_version[o] \in Nat /\ k \in Key
    BY <1>p, <1>q, Values, IncType DEF IInv, TypeOK
  <2> QED
    BY <1>1, <1>q, <2>1 DEF IInv, TypeOK, PC
<1>5. Wants'
  <2>1. ASSUME NEW u \in Thread, u # t PROVE WantOf(u)'
    BY <2>1, <1>2, <1>3, <1>p, <1>q, Values DEF IInv, TypeOK, Wants, WantOf
  <2>2. WantOf(t)'
    BY <1>2, <1>3, <1>p, <1>q, Values DEF IInv, TypeOK, Wants, WantOf
  <2> QED
    BY <2>1, <2>2 DEF Wants
<1>6. Holders'
  <2>1. ASSUME NEW u \in Thread, u # t PROVE HoldsLock(u)'
    BY <2>1, <1>2, <1>3, <1>p, <1>q, Values
       DEF IInv, TypeOK, Holders, HoldsLock, Holding, Live
  <2>2. HoldsLock(t)'
    BY <1>2, <1>3, <1>p, <1>q, Values
       DEF IInv, TypeOK, Holders, HoldsLock, Holding, Live
  <2> QED
    BY <2>1, <2>2 DEF Holders
<1>7. Statics'
  BY <1>2, <1>3, <1>p, <1>q, Values DEF IInv, TypeOK, Statics
<1>8. Hash'
  BY <1>2, <1>3, <1>p, <1>q, Values
     DEF IInv, TypeOK, Hash, HashEntry, Cache, CachedLock
<1>9. Cache'
  BY <1>2, <1>3, <1>p, <1>q, Values DEF IInv, TypeOK, Cache, CachedLock
<1>10. Home'
  BY <1>2, <1>3, <1>p, <1>q, Values
     DEF IInv, TypeOK, Home, TicketAt, HomeOf, Hash, HashEntry
<1>11. Found'
  <2>1. ASSUME NEW u \in Thread, u # t PROVE FoundBy(u)'
    <3>1. CASE pc[u] = "owner"
      <4>1. /\ ref[u] \in Live /\ m_rwlock[ref[u]] = u
            /\ want[u] \in Key /\ ref[u] = HomeOf(want[u])
        BY <3>1
           DEF IInv, Holders, HoldsLock, Holding, Wants, WantOf, Found,
               FoundBy
      <4> QED
        BY <2>1, <3>1, <4>1, <1>2, <1>3, <1>p, <1>q, Values
           DEF IInv, TypeOK, FoundBy, HomeOf, Live, Hash, HashEntry
    <3>2. CASE pc[u] = "empty"
      <4>1. /\ ref[u] \in Live /\ m_rwlock[ref[u]] = u
            /\ key[ref[u]] \in Key /\ ref[u] = HomeOf(key[ref[u]])
            /\ \A v \in Thread, h \in Key : ticket[v][h] # ref[u]
        BY <3>2 DEF IInv, Holders, HoldsLock, Holding, Found, FoundBy
      <4> QED
        BY <2>1, <3>2, <4>1, <1>2, <1>3, <1>p, <1>q, Values
           DEF IInv, TypeOK, FoundBy, HomeOf, Live, Hash, HashEntry
    <3>3. CASE pc[u] \notin {"owner", "empty"}
      BY <2>1, <3>3, <1>2, <1>3 DEF FoundBy
    <3> QED
      BY <3>1, <3>2, <3>3
  <2>2. FoundBy(t)'
    BY <1>2, <1>3, <1>p, <1>q, Values
       DEF IInv, TypeOK, Found, FoundBy, HomeOf, Hash, HashEntry, Holders,
           HoldsLock, Holding, Live
  <2> QED
    BY <2>1, <2>2 DEF Found
<1>12. Looking'
  <2>1. ASSUME NEW u \in Thread, u # t PROVE LookedUp(u)'
    BY <2>1, <1>2, <1>3, <1>p, <1>q, Values
       DEF IInv, TypeOK, Looking, LookedUp, Wants, WantOf, Cache, CachedLock
  <2>2. LookedUp(t)'
    BY <1>2, <1>3, <1>p, <1>q, Values
       DEF IInv, TypeOK, Looking, LookedUp, Wants, WantOf, Cache, CachedLock
  <2> QED
    BY <2>1, <2>2 DEF Looking
<1>13. LastUser'
  <2>1. ASSUME NEW u \in Thread, u # t PROVE LastUserIs(u)'
    <3>d. ASSUME Doomed(u) PROVE Doomed(u)'
      <4>1. /\ ref'[u] = ref[u] /\ ref[u] \in Lock /\ ref[u] \in allocated
            /\ m_is_destroyed[ref[u]]
        BY <2>1, <3>d, <1>2, <1>3, Values DEF Doomed, IInv, TypeOK
      <4>2. ref[u] \in allocated' /\ m_is_destroyed'[ref[u]]
        BY <4>1, <1>2, <1>3, <1>p, <1>q, Values DEF IInv, TypeOK
      <4>3. ASSUME NEW v \in Thread, pc'[v] = "wrlock"
            PROVE  ref'[v] # ref[u]
        <5>1. CASE v = t
          BY <4>1, <4>3, <5>1, <3>d, <1>2, <1>3, <1>p, <1>q, Values
             DEF Doomed, IInv, TypeOK, Cache, CachedLock
        <5>2. CASE v # t
          BY <4>3, <5>2, <3>d, <1>2, <1>3 DEF Doomed
        <5> QED
          BY <5>1, <5>2
      <4> QED
        BY <4>1, <4>2, <4>3 DEF Doomed
    <3>1. CASE pc[u] \in {"unlock", "stale"}
      <4>1. ref[u] \in allocated /\ (last[u] => Doomed(u)')
        BY <3>1, <3>d DEF IInv, LastUser, LastUserIs
      <4> QED
        BY <2>1, <3>1, <4>1, <1>2, <1>3, <1>p, <1>q, Values DEF LastUserIs
    <3>2. CASE pc[u] = "destroy"
      <4>1. /\ Doomed(u) /\ m_rwlock[ref[u]] = NULL
            /\ \A v \in Thread \ {u} : pc[v] = "destroy" => ref[v] # ref[u]
        BY <3>2 DEF IInv, LastUser, LastUserIs
      <4>2. m_rwlock'[ref[u]] = NULL
        BY <4>1, <1>2, <1>3, <1>p, <1>q, Values
           DEF IInv, TypeOK, Doomed, Cache, CachedLock
      <4> QED
        BY <2>1, <3>2, <3>d, <4>1, <4>2, <1>2, <1>3, <1>p, <1>q, Values
           DEF LastUserIs
    <3>3. CASE pc[u] \notin {"unlock", "stale", "destroy"}
      BY <2>1, <3>3, <1>2 DEF LastUserIs
    <3> QED
      BY <3>1, <3>2, <3>3
  <2>2. LastUserIs(t)'
    BY <1>2, <1>3, <1>p, <1>q, Values
       DEF IInv, TypeOK, LastUser, LastUserIs, Doomed, Cache, CachedLock
  <2> QED
    BY <2>1, <2>2 DEF LastUser
<1>14. Counted'
  BY <1>2, <1>3, <1>p, <1>q, CountedTake DEF IInv
<1>15. Accounted'
  BY <1>2, <1>3, <1>p, <1>q, Values
     DEF IInv, TypeOK, Accounted, AccountedFor, Hash, HashEntry
<1>16. Freed'
  <2>1. ASSUME NEW u \in Thread, NEW q \in allocated, Frees(u, q)
        PROVE  Frees(u, q)'
    <3>1. CASE u # t
      BY <2>1, <3>1, <1>2, <1>3, <1>p, <1>q, Values
         DEF IInv, TypeOK, Freed, Frees
    <3>2. CASE u = t
      BY <2>1, <3>2, <1>2, <1>3, <1>p, <1>q, Values
         DEF IInv, TypeOK, Freed, Frees
    <3> QED
      BY <3>1, <3>2
  <2> QED
    BY <2>1, <1>3 DEF IInv, Freed
<1>17. InUse'
  <2>1. Keeps(t, k)'
    BY <1>2, <1>3 DEF Keeps
  <2>2. ASSUME NEW u \in Thread, NEW j \in MapKey \ {k}, m_locks[j] # NULL,
               Keeps(u, j)
        PROVE  Keeps(u, j)'
    <3>1. CASE u # t
      BY <2>2, <3>1, <1>2, <1>3 DEF Keeps
    <3>2. CASE u = t
      BY <2>2, <3>2, <1>2, <1>3, <1>p DEF Keeps
    <3> QED
      BY <3>1, <3>2
  <2> QED
    BY <2>1, <2>2, <1>2 DEF IInv, InUse
<1> QED
  BY <1>4, <1>5, <1>6, <1>7, <1>8, <1>9, <1>10, <1>11, <1>12, <1>13, <1>14,
     <1>15, <1>16, <1>17
     DEF IInv

\* MDL_lock::create.
LEMMA InsertNewKeeps ==
  ASSUME IInv, NEW t \in Thread, InsertNew(t)
  PROVE  IInv'
<1>p. PICK k \in MapKey : /\ k = want[t] /\ m_locks[k] = NULL
                         /\ pc[t] = "lookup"
  BY DEF InsertNew
<1>e. PICK o \in Addr \ allocated :
        /\ allocated' = allocated \cup {o}
        /\ key' = [key EXCEPT ![o] = want[t]]
        /\ scoped' = [scoped EXCEPT ![o] = want[t] \in SchemaKey]
        /\ m_version' = [m_version EXCEPT ![o] = 0]
        /\ m_ref_release' = [m_ref_release EXCEPT ![o] = 0]
        /\ m_is_destroyed' = [m_is_destroyed EXCEPT ![o] = FALSE]
        /\ m_rwlock' = [m_rwlock EXCEPT ![o] = NULL]
        /\ m_locks' = [m_locks EXCEPT ![want[t]] = o]
        /\ TakeReference(t, o, 0, 0)
  BY DEF InsertNew
<1>q. /\ o \in Addr /\ o \in Lock /\ o \notin StaticKey /\ k \in Key
      /\ o \notin allocated
  BY <1>p, Values
<1>1. /\ allocated' = allocated \cup {o}
      /\ key' = [key EXCEPT ![o] = k]
      /\ scoped' = [scoped EXCEPT ![o] = k \in SchemaKey]
      /\ m_version' = [m_version EXCEPT ![o] = 0]
      /\ m_ref_usage' = [m_ref_usage EXCEPT ![o] = Inc(0)]
      /\ m_ref_release' = [m_ref_release EXCEPT ![o] = 0]
      /\ m_is_destroyed' = [m_is_destroyed EXCEPT ![o] = FALSE]
      /\ m_rwlock' = [m_rwlock EXCEPT ![o] = NULL]
      /\ m_locks' = [m_locks EXCEPT ![k] = o]
      /\ pc' = [pc EXCEPT ![t] = "wrlock"]
      /\ ref' = [ref EXCEPT ![t] = o]
      /\ version' = [version EXCEPT ![t] = 0]
      /\ UNCHANGED <<unused, ticket, want, last, left>>
  BY <1>p, <1>e
     DEF InsertNew, Goto, TakeReference, object, counters, map, locals
<1>2. /\ key'[o] = k
      /\ \A x \in Lock \ {o} : key'[x] = key[x]
      /\ scoped'[o] <=> (k \in SchemaKey)
      /\ \A x \in Lock \ {o} : scoped'[x] = scoped[x]
      /\ m_version'[o] = 0
      /\ \A x \in Lock \ {o} : m_version'[x] = m_version[x]
      /\ m_ref_release'[o] = 0
      /\ \A x \in Lock \ {o} : m_ref_release'[x] = m_ref_release[x]
      /\ ~m_is_destroyed'[o]
      /\ \A x \in Lock \ {o} : m_is_destroyed'[x] = m_is_destroyed[x]
      /\ m_rwlock'[o] = NULL
      /\ \A x \in Lock \ {o} : m_rwlock'[x] = m_rwlock[x]
      /\ m_locks'[k] = o
      /\ \A x \in MapKey \ {k} : m_locks'[x] = m_locks[x]
      /\ m_ref_usage'[o] = Inc(0)
      /\ \A x \in Lock \ {o} : m_ref_usage'[x] = m_ref_usage[x]
      /\ version'[t] = 0
      /\ \A x \in Thread \ {t} : version'[x] = version[x]
      /\ ref'[t] = o
      /\ \A x \in Thread \ {t} : ref'[x] = ref[x]
      /\ pc'[t] = "wrlock"
      /\ \A x \in Thread \ {t} : pc'[x] = pc[x]
  <2>1. /\ key'[o] = k
        /\ \A x \in Lock \ {o} : key'[x] = key[x]
    BY <1>1, <1>p, <1>q, Values DEF IInv, TypeOK
  <2>2. /\ scoped'[o] <=> (k \in SchemaKey)
        /\ \A x \in Lock \ {o} : scoped'[x] = scoped[x]
    BY <1>1, <1>p, <1>q, Values, Zenon DEF IInv, TypeOK
  <2>3. /\ m_version'[o] = 0
        /\ \A x \in Lock \ {o} : m_version'[x] = m_version[x]
    BY <1>1, <1>p, <1>q, Values DEF IInv, TypeOK
  <2>4. /\ m_ref_release'[o] = 0
        /\ \A x \in Lock \ {o} : m_ref_release'[x] = m_ref_release[x]
    BY <1>1, <1>p, <1>q, Values DEF IInv, TypeOK
  <2>5. /\ ~m_is_destroyed'[o]
        /\ \A x \in Lock \ {o} : m_is_destroyed'[x] = m_is_destroyed[x]
    BY <1>1, <1>p, <1>q, Values, Zenon DEF IInv, TypeOK
  <2>6. /\ m_rwlock'[o] = NULL
        /\ \A x \in Lock \ {o} : m_rwlock'[x] = m_rwlock[x]
    BY <1>1, <1>p, <1>q, Values DEF IInv, TypeOK
  <2>7. /\ m_locks'[k] = o
        /\ \A x \in MapKey \ {k} : m_locks'[x] = m_locks[x]
    BY <1>1, <1>p, <1>q, Values DEF IInv, TypeOK
  <2>8. /\ m_ref_usage'[o] = Inc(0)
        /\ \A x \in Lock \ {o} : m_ref_usage'[x] = m_ref_usage[x]
    BY <1>1, <1>p, <1>q, Values DEF IInv, TypeOK
  <2>9. /\ version'[t] = 0
        /\ \A x \in Thread \ {t} : version'[x] = version[x]
    BY <1>1, <1>p, <1>q, Values DEF IInv, TypeOK
  <2>10. /\ ref'[t] = o
        /\ \A x \in Thread \ {t} : ref'[x] = ref[x]
    BY <1>1, <1>p, <1>q, Values DEF IInv, TypeOK
  <2>11. /\ pc'[t] = "wrlock"
        /\ \A x \in Thread \ {t} : pc'[x] = pc[x]
    BY <1>1, <1>p, <1>q, Values DEF IInv, TypeOK
  <2> QED
    BY <2>1, <2>2, <2>3, <2>4, <2>5, <2>6, <2>7, <2>8, <2>9, <2>10, <2>11
<1>3. /\ allocated' = allocated \cup {o}
      /\ UNCHANGED <<unused, ticket, want, last, left>>
  BY <1>1
<1>4. TypeOK'
  <2>1. Inc(0) \in 0..UintMax /\ 0 \in 0..UintMax /\ 0 \in Nat
    BY MDLMapAssumption DEF Inc
  <2> QED
    BY <1>1, <1>p, <1>q, <2>1 DEF IInv, TypeOK, PC
<1>5. Wants'
  <2>1. ASSUME NEW u \in Thread, u # t PROVE WantOf(u)'
    BY <2>1, <1>2, <1>3, <1>p, <1>q, Values DEF IInv, TypeOK, Wants, WantOf
  <2>2. WantOf(t)'
    BY <1>2, <1>3, <1>p, <1>q, Values DEF IInv, TypeOK, Wants, WantOf
  <2> QED
    BY <2>1, <2>2 DEF Wants
<1>6. Holders'
  <2>1. ASSUME NEW u \in Thread, u # t PROVE HoldsLock(u)'
    BY <2>1, <1>2, <1>3, <1>p, <1>q, Values
       DEF IInv, TypeOK, Holders, HoldsLock, Holding, Live
  <2>2. HoldsLock(t)'
    BY <1>2, <1>3, <1>p, <1>q, Values
       DEF IInv, TypeOK, Holders, HoldsLock, Holding, Live
  <2> QED
    BY <2>1, <2>2 DEF Holders
<1>7. Statics'
  BY <1>2, <1>3, <1>p, <1>q, Values DEF IInv, TypeOK, Statics
<1>8. Hash'
  BY <1>2, <1>3, <1>p, <1>q, Values
     DEF IInv, TypeOK, Hash, HashEntry, Cache, CachedLock
<1>9. Cache'
  BY <1>2, <1>3, <1>p, <1>q, Values DEF IInv, TypeOK, Cache, CachedLock
<1>10. Home'
  BY <1>2, <1>3, <1>p, <1>q, Values
     DEF IInv, TypeOK, Home, TicketAt, HomeOf, Hash, HashEntry
<1>11. Found'
  <2>1. ASSUME NEW u \in Thread, u # t PROVE FoundBy(u)'
    <3>1. CASE pc[u] = "owner"
      <4>1. /\ ref[u] \in Live /\ m_rwlock[ref[u]] = u
            /\ want[u] \in Key /\ ref[u] = HomeOf(want[u])
        BY <3>1
           DEF IInv, Holders, HoldsLock, Holding, Wants, WantOf, Found,
               FoundBy
      <4> QED
        BY <2>1, <3>1, <4>1, <1>2, <1>3, <1>p, <1>q, Values
           DEF IInv, TypeOK, FoundBy, HomeOf, Live
    <3>2. CASE pc[u] = "empty"
      <4>1. /\ ref[u] \in Live /\ m_rwlock[ref[u]] = u
            /\ key[ref[u]] \in Key /\ ref[u] = HomeOf(key[ref[u]])
            /\ \A v \in Thread, h \in Key : ticket[v][h] # ref[u]
        BY <3>2 DEF IInv, Holders, HoldsLock, Holding, Found, FoundBy
      <4> QED
        BY <2>1, <3>2, <4>1, <1>2, <1>3, <1>p, <1>q, Values
           DEF IInv, TypeOK, FoundBy, HomeOf, Live
    <3>3. CASE pc[u] \notin {"owner", "empty"}
      BY <2>1, <3>3, <1>2, <1>3 DEF FoundBy
    <3> QED
      BY <3>1, <3>2, <3>3
  <2>2. FoundBy(t)'
    BY <1>2, <1>3, <1>p, <1>q, Values
       DEF IInv, TypeOK, Found, FoundBy, HomeOf, Hash, HashEntry, Holders,
           HoldsLock, Holding, Live, Home, TicketAt, HomeOf
  <2> QED
    BY <2>1, <2>2 DEF Found
<1>12. Looking'
  <2>1. ASSUME NEW u \in Thread, u # t PROVE LookedUp(u)'
    BY <2>1, <1>2, <1>3, <1>p, <1>q, Values
       DEF IInv, TypeOK, Looking, LookedUp, Wants, WantOf, Cache, CachedLock
  <2>2. LookedUp(t)'
    BY <1>2, <1>3, <1>p, <1>q, Values
       DEF IInv, TypeOK, Looking, LookedUp, Wants, WantOf, Cache, CachedLock
  <2> QED
    BY <2>1, <2>2 DEF Looking
<1>13. LastUser'
  <2>1. ASSUME NEW u \in Thread, u # t PROVE LastUserIs(u)'
    <3>d. ASSUME Doomed(u) PROVE Doomed(u)'
      <4>1. /\ ref'[u] = ref[u] /\ ref[u] \in Lock /\ ref[u] \in allocated
            /\ m_is_destroyed[ref[u]]
        BY <2>1, <3>d, <1>2, <1>3, Values DEF Doomed, IInv, TypeOK
      <4>2. ref[u] \in allocated' /\ m_is_destroyed'[ref[u]]
        BY <4>1, <1>2, <1>3, <1>p, <1>q, Values DEF IInv, TypeOK
      <4>3. ASSUME NEW v \in Thread, pc'[v] = "wrlock"
            PROVE  ref'[v] # ref[u]
        <5>1. CASE v = t
          BY <4>1, <4>3, <5>1, <3>d, <1>2, <1>3, <1>p, <1>q, Values
             DEF Doomed, IInv, TypeOK
        <5>2. CASE v # t
          BY <4>3, <5>2, <3>d, <1>2, <1>3 DEF Doomed
        <5> QED
          BY <5>1, <5>2
      <4> QED
        BY <4>1, <4>2, <4>3 DEF Doomed
    <3>1. CASE pc[u] \in {"unlock", "stale"}
      <4>1. ref[u] \in allocated /\ (last[u] => Doomed(u)')
        BY <3>1, <3>d DEF IInv, LastUser, LastUserIs
      <4> QED
        BY <2>1, <3>1, <4>1, <1>2, <1>3, <1>p, <1>q, Values DEF LastUserIs
    <3>2. CASE pc[u] = "destroy"
      <4>1. /\ Doomed(u) /\ m_rwlock[ref[u]] = NULL
            /\ \A v \in Thread \ {u} : pc[v] = "destroy" => ref[v] # ref[u]
        BY <3>2 DEF IInv, LastUser, LastUserIs
      <4>2. m_rwlock'[ref[u]] = NULL
        BY <4>1, <1>2, <1>3, <1>p, <1>q, Values DEF IInv, TypeOK, Doomed
      <4> QED
        BY <2>1, <3>2, <3>d, <4>1, <4>2, <1>2, <1>3, <1>p, <1>q, Values
           DEF LastUserIs
    <3>3. CASE pc[u] \notin {"unlock", "stale", "destroy"}
      BY <2>1, <3>3, <1>2 DEF LastUserIs
    <3> QED
      BY <3>1, <3>2, <3>3
  <2>2. LastUserIs(t)'
    BY <1>2, <1>3, <1>p, <1>q, Values
       DEF IInv, TypeOK, LastUser, LastUserIs, Doomed, Cache, CachedLock
  <2> QED
    BY <2>1, <2>2 DEF LastUser
<1>14. Counted'
  <2>1. Waiters(o) = {} /\ Waiters(o)' = Waiters(o) \cup {t}
    BY <1>2, <1>p, <1>q DEF Waiters, IInv, Looking, LookedUp
  <2>2. ASSUME NEW x \in Lock, x # o PROVE Waiters(x)' = Waiters(x)
    BY <2>2, <1>2, <1>p DEF Waiters
  <2>3. Cardinality(Waiters(o)') = 1 /\ 1 <= UintMax
    BY <2>1, WaiterCount
  <2>4. Balance(Inc(0), 0, 1)
    BY <2>3, MDLMapAssumption DEF Balance, Inc
  <2> QED
    BY <2>2, <2>3, <2>4, <1>2 DEF IInv, Counted
<1>15. Accounted'
  BY <1>2, <1>3, <1>p, <1>q, Values
     DEF IInv, TypeOK, Accounted, AccountedFor, Hash, HashEntry
<1>16. Freed'
  <2>1. ASSUME NEW u \in Thread, NEW x \in allocated, Frees(u, x)
        PROVE  Frees(u, x)'
    <3>1. CASE u # t
      BY <2>1, <3>1, <1>2, <1>3 DEF Frees
    <3>2. CASE u = t
      BY <2>1, <3>2, <1>p DEF Frees
    <3> QED
      BY <3>1, <3>2
  <2>2. ASSUME NEW x \in allocated', m_is_destroyed'[x]
        PROVE  x \in allocated /\ m_is_destroyed[x]
    BY <2>2, <1>2, <1>3, <1>q, Values DEF IInv, TypeOK
  <2> QED
    BY <2>1, <2>2 DEF IInv, Freed
<1>17. InUse'
  <2>1. Keeps(t, k)'
    BY <1>2, <1>3 DEF Keeps
  <2>2. ASSUME NEW u \in Thread, NEW j \in MapKey \ {k}, m_locks[j] # NULL,
               Keeps(u, j)
        PROVE  Keeps(u, j)'
    <3>1. m_locks[j] \in Lock \ {o} /\ m_locks'[j] = m_locks[j]
      BY <2>2, <1>2, <1>q, Values DEF IInv, TypeOK, Hash, HashEntry
    <3>2. CASE u # t
      BY <2>2, <3>1, <3>2, <1>2, <1>3 DEF Keeps
    <3>3. CASE u = t
      BY <2>2, <3>1, <3>3, <1>2, <1>3, <1>p DEF Keeps
    <3> QED
      BY <3>2, <3>3
  <2> QED
    BY <2>1, <2>2, <1>2 DEF IInv, InUse
<1> QED
  BY <1>4, <1>5, <1>6, <1>7, <1>8, <1>9, <1>10, <1>11, <1>12, <1>13, <1>14,
     <1>15, <1>16, <1>17
     DEF IInv

\* find_or_insert is out of memory.
LEMMA InsertFailsKeeps ==
  ASSUME IInv, NEW t \in Thread, InsertFails(t)
  PROVE  IInv'
<1>p. pc[t] = "lookup" /\ want[t] \in MapKey
  BY DEF InsertFails
<1>1. /\ pc' = [pc EXCEPT ![t] = "idle"]
      /\ want' = [want EXCEPT ![t] = NULL]
      /\ UNCHANGED <<allocated, scoped, m_version, m_ref_usage, m_ref_release,
                     m_is_destroyed, m_rwlock, m_locks, unused,
                     ticket, ref, version, last, left>>
  BY DEF InsertFails, Goto, object, counters, map, locals
<1>2. /\ want'[t] = NULL
      /\ \A x \in Thread \ {t} : want'[x] = want[x]
      /\ pc'[t] = "idle"
      /\ \A x \in Thread \ {t} : pc'[x] = pc[x]
  BY <1>1, <1>p DEF IInv, TypeOK
<1>3. /\ UNCHANGED <<allocated, scoped, m_version, m_ref_usage, m_ref_release,
                     m_is_destroyed, m_rwlock, m_locks, unused,
                     ticket, ref, version, last, left>>
  BY <1>1
<1>k. /\ key' \in [Lock -> Key \cup {NULL}]
      /\ \A x \in Lock \ unused : key'[x] = key[x]
  <2>1. \/ key' = key
        \/ \E o \in unused : key' = [key EXCEPT ![o] = want[t]]
    BY DEF InsertFails
  <2> QED
    BY <2>1, <1>p, Values DEF IInv, TypeOK
<1>4. TypeOK'
  BY <1>1, <1>p, <1>k DEF IInv, TypeOK, PC
<1>5. Cache' /\ Home'
  BY <1>3 DEF IInv, Cache, CachedLock, Home, TicketAt, HomeOf
<1>6. Wants'
  <2>1. ASSUME NEW u \in Thread, u # t PROVE WantOf(u)'
    BY <2>1, <1>2, <1>3, <1>p, <1>k, Values DEF IInv, TypeOK, Wants, WantOf
  <2>2. WantOf(t)'
    BY <1>2, <1>3, <1>p, <1>k, Values DEF IInv, TypeOK, Wants, WantOf
  <2> QED
    BY <2>1, <2>2 DEF Wants
<1>7. Holders'
  <2>1. ASSUME NEW u \in Thread, u # t PROVE HoldsLock(u)'
    BY <2>1, <1>2, <1>3, <1>p, <1>k, Values
       DEF IInv, TypeOK, Holders, HoldsLock, Holding, Live
  <2>2. HoldsLock(t)'
    BY <1>2, <1>3, <1>p, <1>k, Values
       DEF IInv, TypeOK, Holders, HoldsLock, Holding, Live
  <2> QED
    BY <2>1, <2>2 DEF Holders
<1>8. Statics'
  BY <1>2, <1>3, <1>p, <1>k, Values DEF IInv, TypeOK, Statics
<1>9. Hash'
  BY <1>2, <1>3, <1>p, <1>k, Values DEF IInv, TypeOK, Hash, HashEntry
<1>10. Found'
  <2>1. ASSUME NEW u \in Thread, u # t PROVE FoundBy(u)'
    BY <2>1, <1>2, <1>3, <1>p, <1>k, Values
       DEF IInv, TypeOK, Found, FoundBy, HomeOf, Holders, HoldsLock, Holding,
           Live, Hash, HashEntry
  <2>2. FoundBy(t)'
    BY <1>2, <1>3, <1>p, <1>k, Values
       DEF IInv, TypeOK, Found, FoundBy, HomeOf, Holders, HoldsLock, Holding,
           Live, Hash, HashEntry
  <2> QED
    BY <2>1, <2>2 DEF Found
<1>11. Looking'
  <2>1. ASSUME NEW u \in Thread, u # t PROVE LookedUp(u)'
    BY <2>1, <1>2, <1>3, <1>p, <1>k, Values
       DEF IInv, TypeOK, Looking, LookedUp
  <2>2. LookedUp(t)'
    BY <1>2, <1>3, <1>p, <1>k, Values DEF IInv, TypeOK, Looking, LookedUp
  <2> QED
    BY <2>1, <2>2 DEF Looking
<1>12. LastUser'
  <2>1. ASSUME NEW u \in Thread, u # t PROVE LastUserIs(u)'
    BY <2>1, <1>2, <1>3, <1>p, <1>k, Values
       DEF IInv, TypeOK, LastUser, LastUserIs, Doomed
  <2>2. LastUserIs(t)'
    BY <1>2, <1>3, <1>p, <1>k, Values
       DEF IInv, TypeOK, LastUser, LastUserIs, Doomed
  <2> QED
    BY <2>1, <2>2 DEF LastUser
<1>13. Counted'
  BY <1>2, <1>3, <1>p, CountedFrame DEF IInv
<1>14. Accounted'
  BY <1>2, <1>3, <1>p, <1>k, Values DEF IInv, TypeOK, Accounted, AccountedFor
<1>15. Freed'
  <2>1. ASSUME NEW u \in Thread, NEW q \in allocated, Frees(u, q)
        PROVE  Frees(u, q)'
    <3>1. CASE u # t
      BY <2>1, <3>1, <1>2, <1>3, <1>p, <1>k, Values
         DEF IInv, TypeOK, Freed, Frees
    <3>2. CASE u = t
      BY <2>1, <3>2, <1>2, <1>3, <1>p, <1>k, Values
         DEF IInv, TypeOK, Freed, Frees
    <3> QED
      BY <3>1, <3>2
  <2> QED
    BY <2>1, <1>3 DEF IInv, Freed
<1>16. InUse'
  <2>1. ASSUME NEW u \in Thread, NEW j \in MapKey,
               m_locks[j] # NULL, Keeps(u, j)
        PROVE  Keeps(u, j)'
    <3>1. CASE u # t
      BY <2>1, <3>1, <1>2, <1>3, <1>p, <1>k, Values
         DEF IInv, TypeOK, InUse, Keeps
    <3>2. CASE u = t
      BY <2>1, <3>2, <1>2, <1>3, <1>p, <1>k, Values
         DEF IInv, TypeOK, InUse, Keeps
    <3> QED
      BY <3>1, <3>2
  <2> QED
    BY <2>1, <1>3 DEF IInv, InUse
<1> QED
  BY <1>4, <1>5, <1>6, <1>7, <1>8, <1>9, <1>10, <1>11, <1>12, <1>13, <1>14,
     <1>15, <1>16
     DEF IInv

\* The rest of move_from_hash_to_lock_mutex: the version tells whether the
\* object is still in the hash, the counters who frees it if it is not.
LEMMA LockObjectKeeps ==
  ASSUME IInv, NEW t \in Thread, LockObject(t)
  PROVE  IInv'
<1>p. PICK o \in Lock : /\ o = ref[t] /\ pc[t] = "wrlock" /\ m_rwlock[o] = NULL
                       /\ o \in allocated /\ o \in Addr
  BY Values DEF LockObject, IInv, TypeOK, Looking, LookedUp
<1>1. /\ m_ref_release' = [m_ref_release EXCEPT ![o] = Inc(@)]
      /\ m_rwlock' = [m_rwlock EXCEPT ![o] = t]
      /\ UNCHANGED <<allocated, key, scoped, m_version, m_ref_usage,
                     m_is_destroyed, m_locks, unused, ticket, want,
                     ref, version, left>>
  BY <1>p DEF LockObject, Goto, object, counters, map, locals
<1>2. /\ m_rwlock'[o] = t
      /\ \A x \in Lock \ {o} : m_rwlock'[x] = m_rwlock[x]
      /\ m_ref_release'[o] = Inc(m_ref_release[o])
      /\ \A x \in Lock \ {o} : m_ref_release'[x] = m_ref_release[x]
  BY <1>1 DEF IInv, TypeOK
<1>3. /\ UNCHANGED <<allocated, key, scoped, m_version, m_ref_usage,
                     m_is_destroyed, m_locks, unused, ticket, want,
                     ref, version, left>>
  BY <1>1
<1>s. /\ \A x \in Thread \ {t} : pc'[x] = pc[x] /\ last'[x] = last[x]
      /\ pc' \in [Thread -> PC] /\ last' \in [Thread -> BOOLEAN]
  BY <1>p DEF LockObject, Goto, IInv, TypeOK, PC
<1>o. \/ pc'[t] = "owner" /\ version[t] = m_version[o]
      \/ pc'[t] = "stale" /\ version[t] # m_version[o]
  BY <1>p DEF LockObject, Goto, SameVersion, IInv, TypeOK
<1>c. /\ Counted'
      /\ Inc(m_ref_release[o]) \in 0..UintMax
      /\ NoReferences(o, Inc(m_ref_release[o])) <=>
           \A u \in Thread \ {t} : ~(pc[u] = "wrlock" /\ ref[u] = o)
  BY <1>p, <1>2, <1>3, <1>s, <1>o, CountedRelease DEF IInv
<1>l. pc'[t] = "stale" =>
        (last'[t] <=>
           /\ m_is_destroyed[o]
           /\ \A u \in Thread \ {t} : ~(pc[u] = "wrlock" /\ ref[u] = o))
  <2>1. CASE SameVersion(t)
    BY <2>1, <1>o, <1>p DEF SameVersion
  <2>2. CASE ~SameVersion(t)
    <3>1. last' = [last EXCEPT ![t] = /\ m_is_destroyed[o]
                                      /\ NoReferences(o, Inc(m_ref_release[o]))]
      BY <2>2, <1>p DEF LockObject
    <3>2. last'[t] <=> /\ m_is_destroyed[o]
                       /\ NoReferences(o, Inc(m_ref_release[o]))
      BY <3>1, Zenon DEF IInv, TypeOK
    <3> QED
      BY <3>2, <1>c
  <2> QED
    BY <2>1, <2>2
<1>4. TypeOK'
  BY <1>1, <1>s, <1>c DEF IInv, TypeOK
<1>5. Statics' /\ Hash' /\ Cache' /\ Home' /\ Accounted'
  BY <1>3
     DEF IInv, Statics, Hash, HashEntry, Cache, CachedLock, Home, TicketAt,
         HomeOf, Accounted, AccountedFor
<1>6. Wants'
  <2>1. ASSUME NEW u \in Thread, u # t PROVE WantOf(u)'
    BY <2>1, <1>3, <1>s DEF IInv, Wants, WantOf
  <2>2. WantOf(t)'
    BY <1>3, <1>o, <1>p, Values DEF IInv, Wants, WantOf
  <2> QED
    BY <2>1, <2>2 DEF Wants
<1>7. Holders'
  <2>1. ASSUME NEW u \in Thread, u # t PROVE HoldsLock(u)'
    BY <2>1, <1>2, <1>3, <1>p, <1>s, <1>o, <1>l, Values
       DEF IInv, TypeOK, Holders, HoldsLock, Holding, Live
  <2>2. HoldsLock(t)'
    BY <1>2, <1>3, <1>p, <1>s, <1>o, <1>l, Values
       DEF IInv, TypeOK, Holders, HoldsLock, Holding, Live
  <2> QED
    BY <2>1, <2>2 DEF Holders
<1>8. Found'
  <2>1. ASSUME NEW u \in Thread, u # t PROVE FoundBy(u)'
    BY <2>1, <1>2, <1>3, <1>p, <1>s, <1>o, <1>l, Values
       DEF IInv, TypeOK, Found, FoundBy, HomeOf, Looking, LookedUp, Wants,
           WantOf
  <2>2. FoundBy(t)'
    BY <1>2, <1>3, <1>p, <1>s, <1>o, <1>l, Values
       DEF IInv, TypeOK, Found, FoundBy, HomeOf, Looking, LookedUp, Wants,
           WantOf
  <2> QED
    BY <2>1, <2>2 DEF Found
<1>9. Looking'
  <2>1. ASSUME NEW u \in Thread, u # t PROVE LookedUp(u)'
    BY <2>1, <1>2, <1>3, <1>p, <1>s, <1>o, <1>l, Values
       DEF IInv, TypeOK, Looking, LookedUp
  <2>2. LookedUp(t)'
    BY <1>2, <1>3, <1>p, <1>s, <1>o, <1>l, Values
       DEF IInv, TypeOK, Looking, LookedUp
  <2> QED
    BY <2>1, <2>2 DEF Looking
<1>10. LastUser'
  <2>1. ASSUME NEW u \in Thread, u # t PROVE LastUserIs(u)'
    BY <2>1, <1>2, <1>3, <1>p, <1>s, <1>o, <1>l, Values
       DEF IInv, TypeOK, LastUser, LastUserIs, Doomed
  <2>2. LastUserIs(t)'
    BY <1>2, <1>3, <1>p, <1>s, <1>o, <1>l, Values
       DEF IInv, TypeOK, LastUser, LastUserIs, Doomed
  <2> QED
    BY <2>1, <2>2 DEF LastUser
<1>11. Counted'
  BY <1>c
<1>12. Freed'
  <2>1. ASSUME NEW x \in allocated, m_is_destroyed[x], x # o
        PROVE  \E u \in Thread : Frees(u, x)'
    <3>1. PICK u \in Thread : Frees(u, x)
      BY <2>1 DEF IInv, Freed
    <3>2. u # t
      BY <3>1, <2>1, <1>p DEF Frees
    <3> QED
      BY <3>1, <3>2, <1>s, <1>3 DEF Frees
  <2>2. ASSUME m_is_destroyed[o] PROVE \E u \in Thread : Frees(u, o)'
    <3>1. pc'[t] = "stale"
      <4>1. want[t] \in MapKey /\ o # NULL
        BY <1>p, Values DEF IInv, Wants, WantOf
      <4>2. m_locks[want[t]] # o
        BY <2>2, <4>1 DEF IInv, Hash, HashEntry
      <4> QED
        BY <4>2, <1>o, <1>p DEF IInv, Looking, LookedUp
    <3>2. CASE \A u \in Thread \ {t} : ~(pc[u] = "wrlock" /\ ref[u] = o)
      <4>1. Frees(t, o)'
        BY <3>1, <3>2, <2>2, <1>l, <1>3, <1>p DEF Frees
      <4> QED
        BY <4>1
    <3>3. ASSUME NEW u \in Thread \ {t}, pc[u] = "wrlock" /\ ref[u] = o
          PROVE  \E v \in Thread : Frees(v, o)'
      <4>1. Frees(u, o)'
        BY <3>3, <1>s, <1>3 DEF Frees
      <4> QED
        BY <4>1
    <3> QED
      BY <3>2, <3>3
  <2> QED
    BY <2>1, <2>2, <1>3 DEF Freed
<1>13. InUse'
  <2>1. ASSUME NEW u \in Thread, NEW j \in MapKey,
               m_locks[j] # NULL, Keeps(u, j)
        PROVE  Keeps(u, j)'
    <3>1. CASE u # t
      BY <2>1, <3>1, <1>2, <1>3, <1>p, <1>s, <1>o, <1>l, Values
         DEF IInv, TypeOK, InUse, Keeps
    <3>2. CASE u = t
      BY <2>1, <3>2, <1>2, <1>3, <1>p, <1>s, <1>o, <1>l, Values
         DEF IInv, TypeOK, InUse, Keeps
    <3> QED
      BY <3>1, <3>2
  <2> QED
    BY <2>1, <1>3 DEF IInv, InUse
<1> QED
  BY <1>4, <1>5, <1>6, <1>7, <1>8, <1>9, <1>10, <1>11, <1>12, <1>13 DEF IInv

\* A ticket refers to the object.
LEMMA AddTicketKeeps ==
  ASSUME IInv, NEW t \in Thread, AddTicket(t)
  PROVE  IInv'
<1>p. PICK o \in Lock : /\ o = ref[t] /\ pc[t] = "owner" /\ m_rwlock[o] = t
                       /\ o \in Live
  BY Values DEF AddTicket, IInv, TypeOK, Holders, HoldsLock, Holding, Live
<1>q. PICK k \in Key : k = want[t]
  BY <1>p DEF IInv, Wants, WantOf
<1>r. o = HomeOf(k)
  BY <1>p, <1>q DEF IInv, Found, FoundBy
<1>1. /\ m_rwlock' = [m_rwlock EXCEPT ![o] = NULL]
      /\ ticket' = [ticket EXCEPT ![t][k] = o]
      /\ pc' = [pc EXCEPT ![t] = "idle"]
      /\ want' = [want EXCEPT ![t] = NULL]
      /\ UNCHANGED <<allocated, key, scoped, m_version, m_ref_usage,
                     m_ref_release, m_is_destroyed, m_locks, unused,
                     ref, version, last, left>>
  BY <1>p, <1>q DEF AddTicket, Goto, object, counters, map, locals
<1>2. /\ m_rwlock'[o] = NULL
      /\ \A x \in Lock \ {o} : m_rwlock'[x] = m_rwlock[x]
      /\ want'[t] = NULL
      /\ \A x \in Thread \ {t} : want'[x] = want[x]
      /\ pc'[t] = "idle"
      /\ \A x \in Thread \ {t} : pc'[x] = pc[x]
      /\ ticket'[t][k] = o
      /\ \A x \in Key \ {k} : ticket'[t][x] = ticket[t][x]
      /\ \A x \in Thread \ {t} : ticket'[x] = ticket[x]
  BY <1>1 DEF IInv, TypeOK
<1>3. /\ UNCHANGED <<allocated, key, scoped, m_version, m_ref_usage,
                     m_ref_release, m_is_destroyed, m_locks, unused,
                     ref, version, last, left>>
  BY <1>1
<1>4. TypeOK'
  BY <1>1, MDLMapAssumption DEF IInv, TypeOK, PC
<1>5. Statics' /\ Hash' /\ Cache' /\ Accounted'
  BY <1>3
     DEF IInv, Statics, Hash, HashEntry, Cache, CachedLock, Accounted,
         AccountedFor
<1>6. Wants'
  <2>1. ASSUME NEW u \in Thread, u # t PROVE WantOf(u)'
    BY <2>1, <1>2, <1>3, <1>p, <1>q, <1>r, Values
       DEF IInv, TypeOK, Wants, WantOf
  <2>2. WantOf(t)'
    BY <1>2, <1>3, <1>p, <1>q, <1>r, Values DEF IInv, TypeOK, Wants, WantOf
  <2> QED
    BY <2>1, <2>2 DEF Wants
<1>7. Holders'
  <2>1. ASSUME NEW u \in Thread, u # t PROVE HoldsLock(u)'
    BY <2>1, <1>2, <1>3, <1>p, <1>q, <1>r, Values
       DEF IInv, TypeOK, Holders, HoldsLock, Holding, Live
  <2>2. HoldsLock(t)'
    BY <1>2, <1>3, <1>p, <1>q, <1>r, Values
       DEF IInv, TypeOK, Holders, HoldsLock, Holding, Live
  <2> QED
    BY <2>1, <2>2 DEF Holders
<1>8. Home'
  <2> SUFFICES ASSUME NEW u \in Thread, NEW j \in Key
               PROVE  TicketAt(u, j)'
    BY DEF Home
  <2>1. TicketAt(u, j) /\ HomeOf(j)' = HomeOf(j)
    BY <1>3 DEF IInv, Home, HomeOf
  <2>2. CASE u = t /\ j = k
    BY <2>1, <2>2, <1>2, <1>3, <1>p, <1>q, <1>r, Values DEF TicketAt
  <2>3. CASE u # t \/ j # k
    BY <2>1, <2>3, <1>2 DEF TicketAt
  <2> QED
    BY <2>2, <2>3
<1>9. Found'
  <2>1. ASSUME NEW u \in Thread, u # t PROVE FoundBy(u)'
    <3>1. CASE pc[u] = "owner"
      <4>1. /\ ref[u] \in Live /\ m_rwlock[ref[u]] = u
            /\ want[u] \in Key /\ ref[u] = HomeOf(want[u])
        BY <3>1
           DEF IInv, Holders, HoldsLock, Holding, Wants, WantOf, Found,
               FoundBy
      <4> QED
        BY <2>1, <3>1, <4>1, <1>2, <1>3, <1>p, <1>q, <1>r, Values
           DEF IInv, TypeOK, FoundBy, HomeOf, Live
    <3>2. CASE pc[u] = "empty"
      <4>1. /\ ref[u] \in Live /\ m_rwlock[ref[u]] = u
            /\ key[ref[u]] \in Key /\ ref[u] = HomeOf(key[ref[u]])
            /\ \A v \in Thread, h \in Key : ticket[v][h] # ref[u]
        BY <3>2 DEF IInv, Holders, HoldsLock, Holding, Found, FoundBy
      <4>2. ASSUME NEW v \in Thread, NEW h \in Key PROVE ticket'[v][h] # ref[u]
        <5>1. CASE v = t /\ h = k
          BY <2>1, <4>1, <5>1, <1>2, <1>3, <1>p, <1>q, <1>r, Values
             DEF IInv, TypeOK, Live
        <5>2. CASE v # t \/ h # k
          BY <4>1, <5>2, <1>2
        <5> QED
          BY <5>1, <5>2
      <4> QED
        BY <2>1, <3>2, <4>1, <4>2, <1>2, <1>3, <1>p, <1>q, <1>r, Values
           DEF IInv, TypeOK, FoundBy, HomeOf, Live
    <3>3. CASE pc[u] \notin {"owner", "empty"}
      BY <2>1, <3>3, <1>2, <1>3 DEF FoundBy
    <3> QED
      BY <3>1, <3>2, <3>3
  <2>2. FoundBy(t)'
    BY <1>2, <1>3, <1>p, <1>q, <1>r, Values
       DEF IInv, TypeOK, Found, FoundBy, HomeOf, Holders, HoldsLock, Holding,
           Live
  <2> QED
    BY <2>1, <2>2 DEF Found
<1>10. Looking'
  <2>1. ASSUME NEW u \in Thread, u # t PROVE LookedUp(u)'
    BY <2>1, <1>2, <1>3, <1>p, <1>q, <1>r, Values
       DEF IInv, TypeOK, Looking, LookedUp
  <2>2. LookedUp(t)'
    BY <1>2, <1>3, <1>p, <1>q, <1>r, Values
       DEF IInv, TypeOK, Looking, LookedUp
  <2> QED
    BY <2>1, <2>2 DEF Looking
<1>11. LastUser'
  <2>1. ASSUME NEW u \in Thread, u # t PROVE LastUserIs(u)'
    BY <2>1, <1>2, <1>3, <1>p, <1>q, <1>r, Values
       DEF IInv, TypeOK, LastUser, LastUserIs, Doomed
  <2>2. LastUserIs(t)'
    BY <1>2, <1>3, <1>p, <1>q, <1>r, Values
       DEF IInv, TypeOK, LastUser, LastUserIs, Doomed
  <2> QED
    BY <2>1, <2>2 DEF LastUser
<1>12. Counted'
  BY <1>2, <1>3, <1>p, CountedFrame DEF IInv
<1>13. Freed'
  <2>1. ASSUME NEW u \in Thread, NEW q \in allocated, Frees(u, q)
        PROVE  Frees(u, q)'
    <3>1. CASE u # t
      BY <2>1, <3>1, <1>2, <1>3, <1>p, <1>q, <1>r, Values
         DEF IInv, TypeOK, Freed, Frees
    <3>2. CASE u = t
      BY <2>1, <3>2, <1>2, <1>3, <1>p, <1>q, <1>r, Values
         DEF IInv, TypeOK, Freed, Frees
    <3> QED
      BY <3>1, <3>2
  <2> QED
    BY <2>1, <1>3 DEF IInv, Freed
<1>14. InUse'
  <2>1. ASSUME NEW u \in Thread, NEW j \in MapKey, m_locks[j] # NULL,
               Keeps(u, j)
        PROVE  Keeps(u, j)'
    <3>1. CASE u # t
      BY <2>1, <3>1, <1>2, <1>3 DEF Keeps
    <3>2. CASE u = t /\ j = k
      BY <3>2, <1>2, <1>3, <1>r, Values DEF Keeps, HomeOf
    <3>3. CASE u = t /\ j # k
      <4>1. o # m_locks[j]
        BY <2>1, <3>3, <1>r, Values DEF HomeOf, IInv, TypeOK, Hash, HashEntry
      <4> QED
        BY <2>1, <3>3, <4>1, <1>2, <1>3, <1>p, Values DEF Keeps
    <3> QED
      BY <3>1, <3>2, <3>3
  <2> QED
    BY <2>1, <1>3 DEF IInv, InUse
<1> QED
  BY <1>4, <1>5, <1>6, <1>7, <1>8, <1>9, <1>10, <1>11, <1>12, <1>13, <1>14
     DEF IInv

\* try_acquire_lock gives up: the ticket that it met keeps the object.
LEMMA TryAcquireFailsKeeps ==
  ASSUME IInv, NEW t \in Thread, TryAcquireFails(t)
  PROVE  IInv'
<1>p. PICK o \in Lock : /\ o = ref[t] /\ pc[t] = "owner" /\ m_rwlock[o] = t
                       /\ o \in Live
  BY Values DEF TryAcquireFails, IInv, TypeOK, Holders, HoldsLock, Holding, Live
<1>q. PICK v \in Thread, k \in Key : ticket[v][k] = o
  BY <1>p DEF TryAcquireFails, Tickets
<1>r. o = HomeOf(k)
  BY <1>p, <1>q, Values DEF IInv, Home, TicketAt
<1>1. /\ m_rwlock' = [m_rwlock EXCEPT ![o] = NULL]
      /\ pc' = [pc EXCEPT ![t] = "idle"]
      /\ want' = [want EXCEPT ![t] = NULL]
      /\ UNCHANGED <<allocated, key, scoped, m_version, m_ref_usage,
                     m_ref_release, m_is_destroyed, m_locks, unused,
                     ticket, ref, version, last, left>>
  BY <1>p DEF TryAcquireFails, Goto, object, counters, map, locals
<1>2. /\ m_rwlock'[o] = NULL
      /\ \A x \in Lock \ {o} : m_rwlock'[x] = m_rwlock[x]
      /\ want'[t] = NULL
      /\ \A x \in Thread \ {t} : want'[x] = want[x]
      /\ pc'[t] = "idle"
      /\ \A x \in Thread \ {t} : pc'[x] = pc[x]
  BY <1>1 DEF IInv, TypeOK
<1>3. /\ UNCHANGED <<allocated, key, scoped, m_version, m_ref_usage,
                     m_ref_release, m_is_destroyed, m_locks, unused,
                     ticket, ref, version, last, left>>
  BY <1>1
<1>4. TypeOK'
  BY <1>1, MDLMapAssumption DEF IInv, TypeOK, PC
<1>5. Statics' /\ Hash' /\ Cache' /\ Home' /\ Accounted'
  BY <1>3
     DEF IInv, Statics, Hash, HashEntry, Cache, CachedLock, Home, TicketAt,
         HomeOf, Accounted, AccountedFor
<1>6. Wants'
  <2>1. ASSUME NEW u \in Thread, u # t PROVE WantOf(u)'
    BY <2>1, <1>2, <1>3, <1>p, Values DEF IInv, TypeOK, Wants, WantOf
  <2>2. WantOf(t)'
    BY <1>2, <1>3, <1>p, Values DEF IInv, TypeOK, Wants, WantOf
  <2> QED
    BY <2>1, <2>2 DEF Wants
<1>7. Holders'
  <2>1. ASSUME NEW u \in Thread, u # t PROVE HoldsLock(u)'
    BY <2>1, <1>2, <1>3, <1>p, Values
       DEF IInv, TypeOK, Holders, HoldsLock, Holding, Live
  <2>2. HoldsLock(t)'
    BY <1>2, <1>3, <1>p, Values
       DEF IInv, TypeOK, Holders, HoldsLock, Holding, Live
  <2> QED
    BY <2>1, <2>2 DEF Holders
<1>8. Found'
  <2>1. ASSUME NEW u \in Thread, u # t PROVE FoundBy(u)'
    BY <2>1, <1>2, <1>3, <1>p, Values DEF IInv, TypeOK, Found, FoundBy, HomeOf
  <2>2. FoundBy(t)'
    BY <1>2, <1>3, <1>p, Values DEF IInv, TypeOK, Found, FoundBy, HomeOf
  <2> QED
    BY <2>1, <2>2 DEF Found
<1>9. Looking'
  <2>1. ASSUME NEW u \in Thread, u # t PROVE LookedUp(u)'
    BY <2>1, <1>2, <1>3, <1>p, Values DEF IInv, TypeOK, Looking, LookedUp
  <2>2. LookedUp(t)'
    BY <1>2, <1>3, <1>p, Values DEF IInv, TypeOK, Looking, LookedUp
  <2> QED
    BY <2>1, <2>2 DEF Looking
<1>10. LastUser'
  <2>1. ASSUME NEW u \in Thread, u # t PROVE LastUserIs(u)'
    BY <2>1, <1>2, <1>3, <1>p, Values
       DEF IInv, TypeOK, LastUser, LastUserIs, Doomed
  <2>2. LastUserIs(t)'
    BY <1>2, <1>3, <1>p, Values DEF IInv, TypeOK, LastUser, LastUserIs, Doomed
  <2> QED
    BY <2>1, <2>2 DEF LastUser
<1>11. Counted'
  BY <1>2, <1>3, <1>p, CountedFrame DEF IInv
<1>12. Freed'
  <2>1. ASSUME NEW u \in Thread, NEW q \in allocated, Frees(u, q)
        PROVE  Frees(u, q)'
    <3>1. CASE u # t
      BY <2>1, <3>1, <1>2, <1>3, <1>p, Values DEF IInv, TypeOK, Freed, Frees
    <3>2. CASE u = t
      BY <2>1, <3>2, <1>2, <1>3, <1>p, Values DEF IInv, TypeOK, Freed, Frees
    <3> QED
      BY <3>1, <3>2
  <2> QED
    BY <2>1, <1>3 DEF IInv, Freed
<1>13. InUse'
  <2>1. ASSUME NEW j \in MapKey, m_locks[j] = o PROVE Keeps(v, j)'
    <3>1. j = k
      BY <2>1, <1>p, <1>r, Values DEF HomeOf, IInv, TypeOK, Hash, HashEntry
    <3> QED
      BY <3>1, <2>1, <1>q, <1>3 DEF Keeps
  <2>2. ASSUME NEW u \in Thread, NEW j \in MapKey, m_locks[j] # o,
               Keeps(u, j)
        PROVE  Keeps(u, j)'
    <3>1. CASE u # t
      BY <2>2, <3>1, <1>2, <1>3 DEF Keeps
    <3>2. CASE u = t
      BY <2>2, <3>2, <1>2, <1>3, <1>p DEF Keeps
    <3> QED
      BY <3>1, <3>2
  <2> QED
    BY <2>1, <2>2, <1>3 DEF IInv, InUse
<1> QED
  BY <1>4, <1>5, <1>6, <1>7, <1>8, <1>9, <1>10, <1>11, <1>12, <1>13 DEF IInv

\* A ticket goes and others are left.
LEMMA RemoveTicketMoreKeeps ==
  ASSUME IInv, NEW t \in Thread, NEW k \in Key, RemoveTicket(t, k),
         Tickets(ticket[t][k]) # {<<t, k>>}
  PROVE  IInv'
<1>p. PICK o \in Lock : /\ o = ticket[t][k] /\ pc[t] = "idle" /\ o # NULL
  BY DEF RemoveTicket, IInv, TypeOK
<1>q. PICK v \in Thread, h \in Key : ticket[v][h] = o /\ <<v, h>> # <<t, k>>
  <2>1. <<t, k>> \in Tickets(o)
    BY <1>p DEF Tickets
  <2>2. PICK x \in Tickets(o) : x # <<t, k>>
    BY <1>p, <2>1
  <2>3. x[1] \in Thread /\ x[2] \in Key /\ x = <<x[1], x[2]>>
    BY <2>2 DEF Tickets
  <2> QED
    BY <2>2, <2>3 DEF Tickets
<1>r. o = HomeOf(k) /\ o = HomeOf(h)
  BY <1>p, <1>q, Values DEF IInv, Home, TicketAt
<1>h. h = k
  BY <1>r, Values DEF HomeOf, IInv, TypeOK, Hash, HashEntry
<1>1. /\ ticket' = [ticket EXCEPT ![t][k] = NULL]
      /\ UNCHANGED <<allocated, key, scoped, m_version, m_ref_usage,
                     m_ref_release, m_is_destroyed, m_rwlock,
                     m_locks, unused, pc, want, ref, version, last,
                     left>>
  BY <1>p DEF RemoveTicket, Goto, object, counters, map, locals
<1>2. /\ ticket'[t][k] = NULL
      /\ \A x \in Key \ {k} : ticket'[t][x] = ticket[t][x]
      /\ \A x \in Thread \ {t} : ticket'[x] = ticket[x]
  BY <1>1 DEF IInv, TypeOK
<1>3. /\ UNCHANGED <<allocated, key, scoped, m_version, m_ref_usage,
                     m_ref_release, m_is_destroyed, m_rwlock,
                     m_locks, unused, pc, want, ref, version, last,
                     left>>
  BY <1>1
<1>4. TypeOK'
  BY <1>1, MDLMapAssumption DEF IInv, TypeOK, PC
<1>5. /\ Wants' /\ Holders' /\ Statics' /\ Hash' /\ Cache' /\ Looking'
      /\ LastUser' /\ Counted' /\ Accounted' /\ Freed'
  BY <1>3
     DEF IInv, Wants, WantOf, Holders, HoldsLock, Holding, Live, Statics,
         Hash, HashEntry, Cache, CachedLock, Looking, LookedUp, LastUser,
         LastUserIs, Doomed, Counted, Waiters, Accounted, AccountedFor,
         Freed, Frees
<1>6. Home'
  <2> SUFFICES ASSUME NEW u \in Thread, NEW j \in Key
               PROVE  TicketAt(u, j)'
    BY DEF Home
  <2>1. TicketAt(u, j) /\ HomeOf(j)' = HomeOf(j)
    BY <1>3 DEF IInv, Home, HomeOf
  <2>2. CASE u = t /\ j = k
    BY <2>1, <2>2, <1>2, <1>3, <1>p, <1>r, Values DEF TicketAt
  <2>3. CASE u # t \/ j # k
    BY <2>1, <2>3, <1>2 DEF TicketAt
  <2> QED
    BY <2>2, <2>3
<1>7. Found'
  <2>1. ASSUME NEW u \in Thread, u # t PROVE FoundBy(u)'
    <3>1. CASE pc[u] = "owner"
      <4>1. /\ ref[u] \in Live /\ m_rwlock[ref[u]] = u
            /\ want[u] \in Key /\ ref[u] = HomeOf(want[u])
        BY <3>1
           DEF IInv, Holders, HoldsLock, Holding, Wants, WantOf, Found,
               FoundBy
      <4> QED
        BY <2>1, <3>1, <4>1, <1>2, <1>3, <1>p, <1>r, Values
           DEF IInv, TypeOK, FoundBy, HomeOf, Live
    <3>2. CASE pc[u] = "empty"
      <4>1. /\ ref[u] \in Live /\ m_rwlock[ref[u]] = u
            /\ key[ref[u]] \in Key /\ ref[u] = HomeOf(key[ref[u]])
            /\ \A w \in Thread, j \in Key : ticket[w][j] # ref[u]
        BY <3>2 DEF IInv, Holders, HoldsLock, Holding, Found, FoundBy
      <4>2. ASSUME NEW w \in Thread, NEW j \in Key PROVE ticket'[w][j] # ref[u]
        <5>1. CASE w = t /\ j = k
          BY <2>1, <4>1, <5>1, <1>2, <1>3, <1>p, <1>r, Values
             DEF IInv, TypeOK, Live
        <5>2. CASE w # t \/ j # k
          BY <4>1, <5>2, <1>2
        <5> QED
          BY <5>1, <5>2
      <4> QED
        BY <2>1, <3>2, <4>1, <4>2, <1>2, <1>3, <1>p, <1>r, Values
           DEF IInv, TypeOK, FoundBy, HomeOf, Live
    <3>3. CASE pc[u] \notin {"owner", "empty"}
      BY <2>1, <3>3, <1>2, <1>3 DEF FoundBy
    <3> QED
      BY <3>1, <3>2, <3>3
  <2>2. FoundBy(t)'
    BY <1>2, <1>3, <1>p, <1>r, Values
       DEF IInv, TypeOK, Found, FoundBy, HomeOf, Holders, HoldsLock, Holding,
           Live
  <2> QED
    BY <2>1, <2>2 DEF Found
<1>8. InUse'
  <2>1. v # t
    BY <1>q, <1>h
  <2>2. ASSUME k \in MapKey PROVE Keeps(v, k)'
    BY <2>1, <2>2, <1>q, <1>h, <1>r, <1>2, <1>3, Values DEF Keeps, HomeOf
  <2>3. ASSUME NEW u \in Thread, NEW j \in MapKey \ {k}, m_locks[j] # NULL,
               Keeps(u, j)
        PROVE  Keeps(u, j)'
    BY <2>3, <1>2, <1>3, Values DEF Keeps
  <2> QED
    BY <2>2, <2>3, <1>3 DEF IInv, InUse
<1> QED
  BY <1>4, <1>5, <1>6, <1>7, <1>8 DEF IInv

\* The last ticket goes: remove is called with m_rwlock held.
LEMMA RemoveTicketLastKeeps ==
  ASSUME IInv, NEW t \in Thread, NEW k \in Key, RemoveTicket(t, k),
         Tickets(ticket[t][k]) = {<<t, k>>}
  PROVE  IInv'
<1>p. PICK o \in Lock : /\ o = ticket[t][k] /\ pc[t] = "idle" /\ o # NULL
                       /\ m_rwlock[o] = NULL
  BY DEF RemoveTicket, IInv, TypeOK
<1>q. \A v \in Thread, h \in Key : ticket[v][h] = o => v = t /\ h = k
  <2>1. ASSUME NEW v \in Thread, NEW h \in Key, ticket[v][h] = o
        PROVE  v = t /\ h = k
    <3>1. <<v, h>> \in Tickets(o)
      BY <2>1 DEF Tickets
    <3> QED
      BY <3>1, <1>p
  <2> QED
    BY <2>1
<1>r. o = HomeOf(k)
  BY <1>p, Values DEF IInv, Home, TicketAt
<1>k. key[o] = k /\ o \in Live /\ (o \in allocated => ~m_is_destroyed[o])
  BY <1>p, <1>r, Values DEF HomeOf, IInv, TypeOK, Hash, HashEntry, Statics, Live
<1>1. /\ m_rwlock' = [m_rwlock EXCEPT ![o] = t]
      /\ ticket' = [ticket EXCEPT ![t][k] = NULL]
      /\ pc' = [pc EXCEPT ![t] = "empty"]
      /\ ref' = [ref EXCEPT ![t] = o]
      /\ UNCHANGED <<allocated, key, scoped, m_version, m_ref_usage,
                     m_ref_release, m_is_destroyed, m_locks, unused,
                     want, version, last, left>>
  BY <1>p DEF RemoveTicket, Goto, object, counters, map, locals
<1>2. /\ m_rwlock'[o] = t
      /\ \A x \in Lock \ {o} : m_rwlock'[x] = m_rwlock[x]
      /\ ref'[t] = o
      /\ \A x \in Thread \ {t} : ref'[x] = ref[x]
      /\ pc'[t] = "empty"
      /\ \A x \in Thread \ {t} : pc'[x] = pc[x]
      /\ ticket'[t][k] = NULL
      /\ \A x \in Key \ {k} : ticket'[t][x] = ticket[t][x]
      /\ \A x \in Thread \ {t} : ticket'[x] = ticket[x]
  BY <1>1 DEF IInv, TypeOK
<1>3. /\ UNCHANGED <<allocated, key, scoped, m_version, m_ref_usage,
                     m_ref_release, m_is_destroyed, m_locks, unused,
                     want, version, last, left>>
  BY <1>1
<1>4. TypeOK'
  BY <1>1, MDLMapAssumption DEF IInv, TypeOK, PC
<1>5. Statics' /\ Hash' /\ Cache' /\ Accounted'
  BY <1>3
     DEF IInv, Statics, Hash, HashEntry, Cache, CachedLock, Accounted,
         AccountedFor
<1>6. Wants'
  <2>1. ASSUME NEW u \in Thread, u # t PROVE WantOf(u)'
    BY <2>1, <1>2, <1>3, <1>p, <1>r, <1>k, Values
       DEF IInv, TypeOK, Wants, WantOf
  <2>2. WantOf(t)'
    BY <1>2, <1>3, <1>p, <1>r, <1>k, Values DEF IInv, TypeOK, Wants, WantOf
  <2> QED
    BY <2>1, <2>2 DEF Wants
<1>7. Holders'
  <2>1. ASSUME NEW u \in Thread, u # t PROVE HoldsLock(u)'
    BY <2>1, <1>2, <1>3, <1>p, <1>r, <1>k, Values
       DEF IInv, TypeOK, Holders, HoldsLock, Holding, Live
  <2>2. HoldsLock(t)'
    BY <1>2, <1>3, <1>p, <1>r, <1>k, Values
       DEF IInv, TypeOK, Holders, HoldsLock, Holding, Live
  <2> QED
    BY <2>1, <2>2 DEF Holders
<1>8. Home'
  <2> SUFFICES ASSUME NEW u \in Thread, NEW j \in Key
               PROVE  TicketAt(u, j)'
    BY DEF Home
  <2>1. TicketAt(u, j) /\ HomeOf(j)' = HomeOf(j)
    BY <1>3 DEF IInv, Home, HomeOf
  <2>2. CASE u = t /\ j = k
    BY <2>1, <2>2, <1>2, <1>3, <1>p, <1>r, <1>k, Values DEF TicketAt
  <2>3. CASE u # t \/ j # k
    BY <2>1, <2>3, <1>2 DEF TicketAt
  <2> QED
    BY <2>2, <2>3
<1>9. Found'
  <2>1. ASSUME NEW u \in Thread, u # t PROVE FoundBy(u)'
    <3>1. CASE pc[u] = "owner"
      <4>1. /\ ref[u] \in Live /\ m_rwlock[ref[u]] = u
            /\ want[u] \in Key /\ ref[u] = HomeOf(want[u])
        BY <3>1
           DEF IInv, Holders, HoldsLock, Holding, Wants, WantOf, Found,
               FoundBy
      <4> QED
        BY <2>1, <3>1, <4>1, <1>2, <1>3, <1>p, <1>r, <1>k, Values, <1>q
           DEF IInv, TypeOK, FoundBy, HomeOf, Live
    <3>2. CASE pc[u] = "empty"
      <4>1. /\ ref[u] \in Live /\ m_rwlock[ref[u]] = u
            /\ key[ref[u]] \in Key /\ ref[u] = HomeOf(key[ref[u]])
            /\ \A v \in Thread, h \in Key : ticket[v][h] # ref[u]
        BY <3>2 DEF IInv, Holders, HoldsLock, Holding, Found, FoundBy
      <4>2. ASSUME NEW v \in Thread, NEW h \in Key PROVE ticket'[v][h] # ref[u]
        <5>1. CASE v = t /\ h = k
          BY <2>1, <4>1, <5>1, <1>2, <1>3, <1>p, <1>r, <1>k, Values, <1>q
             DEF IInv, TypeOK, Live
        <5>2. CASE v # t \/ h # k
          BY <4>1, <5>2, <1>2
        <5> QED
          BY <5>1, <5>2
      <4> QED
        BY <2>1, <3>2, <4>1, <4>2, <1>2, <1>3, <1>p, <1>r, <1>k, Values, <1>q
           DEF IInv, TypeOK, FoundBy, HomeOf, Live
    <3>3. CASE pc[u] \notin {"owner", "empty"}
      BY <2>1, <3>3, <1>2, <1>3 DEF FoundBy
    <3> QED
      BY <3>1, <3>2, <3>3
  <2>2. FoundBy(t)'
    <3>1. ASSUME NEW v \in Thread, NEW h \in Key PROVE ticket'[v][h] # o
      BY <1>2, <1>p, <1>q, Values
    <3>2. key'[o] = k /\ HomeOf(k)' = o
      BY <1>3, <1>k, <1>r DEF HomeOf
    <3> QED
      BY <3>1, <3>2, <1>2 DEF FoundBy
  <2> QED
    BY <2>1, <2>2 DEF Found
<1>10. Looking'
  <2>1. ASSUME NEW u \in Thread, u # t PROVE LookedUp(u)'
    BY <2>1, <1>2, <1>3, <1>p, <1>r, <1>k, Values
       DEF IInv, TypeOK, Looking, LookedUp
  <2>2. LookedUp(t)'
    BY <1>2, <1>3, <1>p, <1>r, <1>k, Values
       DEF IInv, TypeOK, Looking, LookedUp
  <2> QED
    BY <2>1, <2>2 DEF Looking
<1>11. LastUser'
  <2>1. ASSUME NEW u \in Thread, u # t PROVE LastUserIs(u)'
    <3>d. ASSUME Doomed(u) PROVE Doomed(u)'
      <4>1. /\ ref'[u] = ref[u] /\ ref[u] \in Lock /\ ref[u] \in allocated
            /\ m_is_destroyed[ref[u]]
        BY <2>1, <3>d, <1>2, <1>3, Values DEF Doomed, IInv, TypeOK
      <4>2. ref[u] \in allocated' /\ m_is_destroyed'[ref[u]]
        BY <4>1, <1>2, <1>3, <1>p, <1>r, <1>k, Values DEF IInv, TypeOK
      <4>3. ASSUME NEW v \in Thread, pc'[v] = "wrlock"
            PROVE  ref'[v] # ref[u]
        <5>1. CASE v = t
          BY <4>1, <4>3, <5>1, <3>d, <1>2, <1>3, <1>p, <1>r, <1>k, Values
             DEF Doomed, IInv, TypeOK
        <5>2. CASE v # t
          BY <4>3, <5>2, <3>d, <1>2, <1>3 DEF Doomed
        <5> QED
          BY <5>1, <5>2
      <4> QED
        BY <4>1, <4>2, <4>3 DEF Doomed
    <3>1. CASE pc[u] \in {"unlock", "stale"}
      <4>1. ref[u] \in allocated /\ (last[u] => Doomed(u)')
        BY <3>1, <3>d DEF IInv, LastUser, LastUserIs
      <4> QED
        BY <2>1, <3>1, <4>1, <1>2, <1>3, <1>p, <1>r, <1>k, Values
           DEF LastUserIs
    <3>2. CASE pc[u] = "destroy"
      <4>1. /\ Doomed(u) /\ m_rwlock[ref[u]] = NULL
            /\ \A v \in Thread \ {u} : pc[v] = "destroy" => ref[v] # ref[u]
        BY <3>2 DEF IInv, LastUser, LastUserIs
      <4>2. m_rwlock'[ref[u]] = NULL
        BY <4>1, <1>2, <1>3, <1>p, <1>r, <1>k, Values DEF IInv, TypeOK, Doomed
      <4> QED
        BY <2>1, <3>2, <3>d, <4>1, <4>2, <1>2, <1>3, <1>p, <1>r, <1>k, Values
           DEF LastUserIs
    <3>3. CASE pc[u] \notin {"unlock", "stale", "destroy"}
      BY <2>1, <3>3, <1>2 DEF LastUserIs
    <3> QED
      BY <3>1, <3>2, <3>3
  <2>2. LastUserIs(t)'
    BY <1>2, <1>3, <1>p, <1>r, <1>k, Values
       DEF IInv, TypeOK, LastUser, LastUserIs, Doomed
  <2> QED
    BY <2>1, <2>2 DEF LastUser
<1>12. Counted'
  BY <1>2, <1>3, <1>p, CountedFrame DEF IInv
<1>13. Freed'
  <2>1. ASSUME NEW u \in Thread, NEW q \in allocated, Frees(u, q)
        PROVE  Frees(u, q)'
    <3>1. CASE u # t
      BY <2>1, <3>1, <1>2, <1>3, <1>p, <1>r, <1>k, Values
         DEF IInv, TypeOK, Freed, Frees
    <3>2. CASE u = t
      BY <2>1, <3>2, <1>2, <1>3, <1>p, <1>r, <1>k, Values
         DEF IInv, TypeOK, Freed, Frees
    <3> QED
      BY <3>1, <3>2
  <2> QED
    BY <2>1, <1>3 DEF IInv, Freed
<1>14. InUse'
  <2>1. ASSUME k \in MapKey PROVE Keeps(t, k)'
    BY <2>1, <1>r, <1>2, <1>3, Values DEF Keeps, HomeOf
  <2>2. ASSUME NEW u \in Thread, NEW j \in MapKey \ {k}, m_locks[j] # NULL,
               Keeps(u, j)
        PROVE  Keeps(u, j)'
    <3>1. CASE u # t
      BY <2>2, <3>1, <1>2, <1>3 DEF Keeps
    <3>2. CASE u = t
      BY <2>2, <3>2, <1>2, <1>3, <1>p, Values DEF Keeps
    <3> QED
      BY <3>1, <3>2
  <2> QED
    BY <2>1, <2>2, <1>3 DEF IInv, InUse
<1> QED
  BY <1>4, <1>5, <1>6, <1>7, <1>8, <1>9, <1>10, <1>11, <1>12, <1>13, <1>14
     DEF IInv

\* The early return of remove.
LEMMA RemoveStaticKeeps ==
  ASSUME IInv, NEW t \in Thread, RemoveStatic(t)
  PROVE  IInv'
<1>p. PICK o \in Lock : /\ o = ref[t] /\ pc[t] = "empty" /\ m_rwlock[o] = t
                       /\ o \in Live /\ key[o] \in StaticKey
  BY Values DEF RemoveStatic, IInv, TypeOK, Holders, HoldsLock, Holding, Live
<1>1. /\ m_rwlock' = [m_rwlock EXCEPT ![o] = NULL]
      /\ pc' = [pc EXCEPT ![t] = "idle"]
      /\ UNCHANGED <<allocated, key, scoped, m_version, m_ref_usage,
                     m_ref_release, m_is_destroyed, m_locks, unused,
                     ticket, want, ref, version, last, left>>
  BY <1>p DEF RemoveStatic, Goto, object, counters, map, locals
<1>2. /\ m_rwlock'[o] = NULL
      /\ \A x \in Lock \ {o} : m_rwlock'[x] = m_rwlock[x]
      /\ pc'[t] = "idle"
      /\ \A x \in Thread \ {t} : pc'[x] = pc[x]
  BY <1>1 DEF IInv, TypeOK
<1>3. /\ UNCHANGED <<allocated, key, scoped, m_version, m_ref_usage,
                     m_ref_release, m_is_destroyed, m_locks, unused,
                     ticket, want, ref, version, last, left>>
  BY <1>1
<1>4. TypeOK'
  BY <1>1, MDLMapAssumption DEF IInv, TypeOK, PC
<1>5. Statics' /\ Hash' /\ Cache' /\ Home' /\ Accounted'
  BY <1>3
     DEF IInv, Statics, Hash, HashEntry, Cache, CachedLock, Home, TicketAt,
         HomeOf, Accounted, AccountedFor
<1>6. Wants'
  <2>1. ASSUME NEW u \in Thread, u # t PROVE WantOf(u)'
    BY <2>1, <1>2, <1>3, <1>p, Values DEF IInv, TypeOK, Wants, WantOf
  <2>2. WantOf(t)'
    BY <1>2, <1>3, <1>p, Values DEF IInv, TypeOK, Wants, WantOf
  <2> QED
    BY <2>1, <2>2 DEF Wants
<1>7. Holders'
  <2>1. ASSUME NEW u \in Thread, u # t PROVE HoldsLock(u)'
    BY <2>1, <1>2, <1>3, <1>p, Values
       DEF IInv, TypeOK, Holders, HoldsLock, Holding, Live
  <2>2. HoldsLock(t)'
    BY <1>2, <1>3, <1>p, Values
       DEF IInv, TypeOK, Holders, HoldsLock, Holding, Live
  <2> QED
    BY <2>1, <2>2 DEF Holders
<1>8. Found'
  <2>1. ASSUME NEW u \in Thread, u # t PROVE FoundBy(u)'
    BY <2>1, <1>2, <1>3, <1>p, Values DEF IInv, TypeOK, Found, FoundBy, HomeOf
  <2>2. FoundBy(t)'
    BY <1>2, <1>3, <1>p, Values DEF IInv, TypeOK, Found, FoundBy, HomeOf
  <2> QED
    BY <2>1, <2>2 DEF Found
<1>9. Looking'
  <2>1. ASSUME NEW u \in Thread, u # t PROVE LookedUp(u)'
    BY <2>1, <1>2, <1>3, <1>p, Values DEF IInv, TypeOK, Looking, LookedUp
  <2>2. LookedUp(t)'
    BY <1>2, <1>3, <1>p, Values DEF IInv, TypeOK, Looking, LookedUp
  <2> QED
    BY <2>1, <2>2 DEF Looking
<1>10. LastUser'
  <2>1. ASSUME NEW u \in Thread, u # t PROVE LastUserIs(u)'
    BY <2>1, <1>2, <1>3, <1>p, Values
       DEF IInv, TypeOK, LastUser, LastUserIs, Doomed
  <2>2. LastUserIs(t)'
    BY <1>2, <1>3, <1>p, Values DEF IInv, TypeOK, LastUser, LastUserIs, Doomed
  <2> QED
    BY <2>1, <2>2 DEF LastUser
<1>11. Counted'
  BY <1>2, <1>3, <1>p, CountedFrame DEF IInv
<1>12. Freed'
  <2>1. ASSUME NEW u \in Thread, NEW q \in allocated, Frees(u, q)
        PROVE  Frees(u, q)'
    <3>1. CASE u # t
      BY <2>1, <3>1, <1>2, <1>3, <1>p, Values DEF IInv, TypeOK, Freed, Frees
    <3>2. CASE u = t
      BY <2>1, <3>2, <1>2, <1>3, <1>p, Values DEF IInv, TypeOK, Freed, Frees
    <3> QED
      BY <3>1, <3>2
  <2> QED
    BY <2>1, <1>3 DEF IInv, Freed
<1>13. InUse'
  <2>1. ASSUME NEW u \in Thread, NEW j \in MapKey,
               m_locks[j] # NULL, Keeps(u, j)
        PROVE  Keeps(u, j)'
    <3>1. CASE u # t
      BY <2>1, <3>1, <1>2, <1>3, <1>p, Values
         DEF IInv, TypeOK, InUse, Keeps, Found, FoundBy, HomeOf
    <3>2. CASE u = t
      BY <2>1, <3>2, <1>2, <1>3, <1>p, Values
         DEF IInv, TypeOK, InUse, Keeps, Found, FoundBy, HomeOf
    <3> QED
      BY <3>1, <3>2
  <2> QED
    BY <2>1, <1>3 DEF IInv, InUse
<1> QED
  BY <1>4, <1>5, <1>6, <1>7, <1>8, <1>9, <1>10, <1>11, <1>12, <1>13 DEF IInv

\* remove keeps the object in the cache.
LEMMA RemoveToCacheKeeps ==
  ASSUME IInv, NEW t \in Thread, Remove(t),
         GoesToCache(ref[t])
  PROVE  IInv'
<1>p. PICK o \in Lock : /\ o = ref[t] /\ pc[t] = "empty" /\ m_rwlock[o] = t
                       /\ o \in Live /\ key[o] \in MapKey
  BY Values DEF Remove, IInv, TypeOK, Holders, HoldsLock, Holding, Live
<1>q. PICK k \in MapKey : k = key[o]
  BY <1>p
<1>r. /\ o = m_locks[k] /\ o \in allocated /\ o \in Addr
      /\ ~m_is_destroyed[o] /\ (scoped[o] <=> k \in SchemaKey)
      /\ o \notin unused
      /\ \A u \in Thread, h \in Key : ticket[u][h] # o
  BY <1>p, <1>q, Values DEF IInv, Found, FoundBy, HomeOf, Hash, HashEntry, TypeOK
<1>j. \A j \in MapKey \ {k} : m_locks[j] # o
  BY <1>q, <1>r, Values DEF IInv, Hash, HashEntry
<1>1. /\ m_version' = [m_version EXCEPT ![o] = @ + 1]
      /\ m_locks' = [m_locks EXCEPT ![k] = NULL]
      /\ unused' = unused \cup {o}
      /\ pc' = [pc EXCEPT ![t] = "unlock"]
      /\ last' = [last EXCEPT ![t] = FALSE]
      /\ UNCHANGED <<allocated, key, scoped, m_ref_usage, m_ref_release,
                     m_is_destroyed, m_rwlock, ticket, want, ref,
                     version, left>>
  BY <1>p, <1>q DEF Remove, Goto, object, counters, map, locals
<1>2. /\ m_locks'[k] = NULL
      /\ \A x \in MapKey \ {k} : m_locks'[x] = m_locks[x]
      /\ m_version'[o] = m_version[o] + 1
      /\ \A x \in Lock \ {o} : m_version'[x] = m_version[x]
      /\ ~last'[t]
      /\ \A x \in Thread \ {t} : last'[x] = last[x]
      /\ pc'[t] = "unlock"
      /\ \A x \in Thread \ {t} : pc'[x] = pc[x]
  BY <1>1 DEF IInv, TypeOK
<1>3. /\ unused' = unused \cup {o}
      /\ UNCHANGED <<allocated, key, scoped, m_ref_usage, m_ref_release,
                     m_is_destroyed, m_rwlock, ticket, want, ref,
                     version, left>>
  BY <1>1
<1>c. k \notin SchemaKey
  BY <1>p, <1>q DEF GoesToCache
<1>4. TypeOK'
  <2>1. m_version[o] + 1 \in Nat
    BY DEF IInv, TypeOK
  <2> QED
    BY <1>1, <1>r, <2>1, Values DEF IInv, TypeOK, PC
<1>5. Statics'
  BY <1>3 DEF IInv, Statics
<1>6. Wants'
  <2>1. ASSUME NEW u \in Thread, u # t PROVE WantOf(u)'
    BY <2>1, <1>2, <1>3, <1>p, <1>q, <1>r, <1>j, Values
       DEF IInv, TypeOK, Wants, WantOf
  <2>2. WantOf(t)'
    BY <1>2, <1>3, <1>p, <1>q, <1>r, <1>j, Values
       DEF IInv, TypeOK, Wants, WantOf
  <2> QED
    BY <2>1, <2>2 DEF Wants
<1>7. Holders'
  <2>1. ASSUME NEW u \in Thread, u # t PROVE HoldsLock(u)'
    BY <2>1, <1>2, <1>3, <1>p, <1>q, <1>r, <1>j, Values
       DEF IInv, TypeOK, Holders, HoldsLock, Holding, Live
  <2>2. HoldsLock(t)'
    BY <1>2, <1>3, <1>p, <1>q, <1>r, <1>j, Values
       DEF IInv, TypeOK, Holders, HoldsLock, Holding, Live
  <2> QED
    BY <2>1, <2>2 DEF Holders
<1>8. Hash'
  BY <1>2, <1>3, <1>p, <1>q, <1>r, <1>j, Values
     DEF IInv, TypeOK, Hash, HashEntry
<1>9. Cache'
  BY <1>2, <1>3, <1>p, <1>q, <1>r, <1>j, Values, <1>c
     DEF IInv, TypeOK, Cache, CachedLock
<1>10. Home'
  BY <1>2, <1>3, <1>p, <1>q, <1>r, <1>j, Values
     DEF IInv, TypeOK, Home, TicketAt, HomeOf
<1>11. Found'
  <2>1. ASSUME NEW u \in Thread, u # t PROVE FoundBy(u)'
    <3>1. CASE pc[u] = "owner"
      <4>1. /\ ref[u] \in Live /\ m_rwlock[ref[u]] = u
            /\ want[u] \in Key /\ ref[u] = HomeOf(want[u])
        BY <3>1
           DEF IInv, Holders, HoldsLock, Holding, Wants, WantOf, Found,
               FoundBy
      <4> QED
        BY <2>1, <3>1, <4>1, <1>2, <1>3, <1>p, <1>q, <1>r, <1>j, Values
           DEF IInv, TypeOK, FoundBy, HomeOf, Live
    <3>2. CASE pc[u] = "empty"
      <4>1. /\ ref[u] \in Live /\ m_rwlock[ref[u]] = u
            /\ key[ref[u]] \in Key /\ ref[u] = HomeOf(key[ref[u]])
            /\ \A v \in Thread, h \in Key : ticket[v][h] # ref[u]
        BY <3>2 DEF IInv, Holders, HoldsLock, Holding, Found, FoundBy
      <4> QED
        BY <2>1, <3>2, <4>1, <1>2, <1>3, <1>p, <1>q, <1>r, <1>j, Values
           DEF IInv, TypeOK, FoundBy, HomeOf, Live
    <3>3. CASE pc[u] \notin {"owner", "empty"}
      BY <2>1, <3>3, <1>2, <1>3 DEF FoundBy
    <3> QED
      BY <3>1, <3>2, <3>3
  <2>2. FoundBy(t)'
    BY <1>2, <1>3, <1>p, <1>q, <1>r, <1>j, Values
       DEF IInv, TypeOK, Found, FoundBy, HomeOf, Holders, HoldsLock, Holding,
           Live
  <2> QED
    BY <2>1, <2>2 DEF Found
<1>12. Looking'
  <2>1. ASSUME NEW u \in Thread, u # t PROVE LookedUp(u)'
    <3> SUFFICES ASSUME pc[u] = "wrlock"
                 PROVE  LookedUp(u)'
      BY <2>1, <1>2 DEF LookedUp
    <3>1. /\ version[u] \in Nat /\ ref[u] \in Lock /\ want[u] \in MapKey
          /\ m_version[ref[u]] \in Nat /\ LookedUp(u)
      BY Values DEF IInv, TypeOK, Wants, WantOf, Looking, LookedUp
    <3>2. CASE ref[u] = o
      BY <3>1, <3>2, <1>2, <1>3 DEF LookedUp
    <3>3. CASE ref[u] # o
      BY <3>1, <3>3, <1>2, <1>3, <1>r DEF LookedUp
    <3> QED
      BY <3>2, <3>3
  <2>2. LookedUp(t)'
    BY <1>2 DEF LookedUp
  <2> QED
    BY <2>1, <2>2 DEF Looking
<1>13. LastUser'
  <2>1. ASSUME NEW u \in Thread, u # t PROVE LastUserIs(u)'
    BY <2>1, <1>2, <1>3, <1>p, <1>q, <1>r, <1>j, Values
       DEF IInv, TypeOK, LastUser, LastUserIs, Doomed
  <2>2. LastUserIs(t)'
    BY <1>2, <1>3, <1>p, <1>q, <1>r, <1>j, Values
       DEF IInv, TypeOK, LastUser, LastUserIs, Doomed
  <2> QED
    BY <2>1, <2>2 DEF LastUser
<1>14. Counted'
  BY <1>2, <1>3, <1>p, CountedFrame DEF IInv
<1>15. Accounted'
  BY <1>2, <1>3, <1>p, <1>q, <1>r, <1>j, Values
     DEF IInv, TypeOK, Accounted, AccountedFor
<1>16. Freed'
  <2>1. ASSUME NEW u \in Thread, NEW q \in allocated, Frees(u, q)
        PROVE  Frees(u, q)'
    <3>1. CASE u # t
      BY <2>1, <3>1, <1>2, <1>3, <1>p, <1>q, <1>r, <1>j, Values
         DEF IInv, TypeOK, Freed, Frees
    <3>2. CASE u = t
      BY <2>1, <3>2, <1>2, <1>3, <1>p, <1>q, <1>r, <1>j, Values
         DEF IInv, TypeOK, Freed, Frees
    <3> QED
      BY <3>1, <3>2
  <2> QED
    BY <2>1, <1>3 DEF IInv, Freed
<1>17. InUse'
  <2>1. ASSUME NEW u \in Thread, NEW j \in MapKey \ {k}, m_locks[j] # NULL,
               Keeps(u, j)
        PROVE  Keeps(u, j)'
    <3>1. m_locks[j] \in Lock \ {o} /\ m_locks'[j] = m_locks[j]
      BY <2>1, <1>2, <1>j, Values DEF IInv, TypeOK
    <3>2. CASE u # t
      BY <2>1, <3>1, <3>2, <1>2, <1>3 DEF Keeps
    <3>3. CASE u = t
      BY <2>1, <3>1, <3>3, <1>2, <1>3, <1>p DEF Keeps
    <3> QED
      BY <3>2, <3>3
  <2> QED
    BY <2>1, <1>2, <1>q DEF IInv, InUse
<1> QED
  BY <1>4, <1>5, <1>6, <1>7, <1>8, <1>9, <1>10, <1>11, <1>12, <1>13, <1>14,
     <1>15, <1>16, <1>17
     DEF IInv

\* remove marks the object as destroyed, and frees it if nobody waits for it.
LEMMA RemoveForGoodKeeps ==
  ASSUME IInv, NEW t \in Thread, Remove(t),
         ~GoesToCache(ref[t])
  PROVE  IInv'
<1>p. PICK o \in Lock : /\ o = ref[t] /\ pc[t] = "empty" /\ m_rwlock[o] = t
                       /\ o \in Live /\ key[o] \in MapKey
  BY Values DEF Remove, IInv, TypeOK, Holders, HoldsLock, Holding, Live
<1>q. PICK k \in MapKey : k = key[o]
  BY <1>p
<1>r. /\ o = m_locks[k] /\ o \in allocated /\ o \in Addr
      /\ ~m_is_destroyed[o] /\ (scoped[o] <=> k \in SchemaKey)
      /\ o \notin unused
      /\ \A u \in Thread, h \in Key : ticket[u][h] # o
  BY <1>p, <1>q, Values DEF IInv, Found, FoundBy, HomeOf, Hash, HashEntry, TypeOK
<1>j. \A j \in MapKey \ {k} : m_locks[j] # o
  BY <1>q, <1>r, Values DEF IInv, Hash, HashEntry
<1>n. NoReferences(o, m_ref_release[o]) <=>
        \A u \in Thread : ~(pc[u] = "wrlock" /\ ref[u] = o)
  BY CountedNone DEF IInv
<1>1. /\ m_version' = [m_version EXCEPT ![o] = @ + 1]
      /\ m_is_destroyed' = [m_is_destroyed EXCEPT ![o] = TRUE]
      /\ m_locks' = [m_locks EXCEPT ![k] = NULL]
      /\ pc' = [pc EXCEPT ![t] = "unlock"]
      /\ last' = [last EXCEPT ![t] = NoReferences(o, m_ref_release[o])]
      /\ UNCHANGED <<allocated, key, scoped, m_ref_usage, m_ref_release,
                     m_rwlock, unused, ticket, want, ref, version,
                     left>>
  BY <1>p, <1>q DEF Remove, Goto, object, counters, map, locals
<1>2. /\ m_locks'[k] = NULL
      /\ \A x \in MapKey \ {k} : m_locks'[x] = m_locks[x]
      /\ m_version'[o] = m_version[o] + 1
      /\ \A x \in Lock \ {o} : m_version'[x] = m_version[x]
      /\ m_is_destroyed'[o]
      /\ \A x \in Lock \ {o} : m_is_destroyed'[x] = m_is_destroyed[x]
      /\ last'[t] <=> (NoReferences(o, m_ref_release[o]))
      /\ \A x \in Thread \ {t} : last'[x] = last[x]
      /\ pc'[t] = "unlock"
      /\ \A x \in Thread \ {t} : pc'[x] = pc[x]
  BY <1>1 DEF IInv, TypeOK
<1>3. /\ UNCHANGED <<allocated, key, scoped, m_ref_usage, m_ref_release,
                     m_rwlock, unused, ticket, want, ref, version,
                     left>>
  BY <1>1
<1>4. TypeOK'
  <2>1. m_version[o] + 1 \in Nat
    BY DEF IInv, TypeOK
  <2>2. NoReferences(o, m_ref_release[o]) \in BOOLEAN
    BY DEF NoReferences
  <2>3. last' \in [Thread -> BOOLEAN]
    BY <1>1, <2>2, Zenon DEF IInv, TypeOK
  <2>4. m_is_destroyed' \in [Lock -> BOOLEAN]
    BY <1>1 DEF IInv, TypeOK
  <2> QED
    BY <1>1, <1>r, <2>1, <2>3, <2>4, Values DEF IInv, TypeOK, PC
<1>5. Statics'
  BY <1>3 DEF IInv, Statics
<1>6. Wants'
  <2>1. ASSUME NEW u \in Thread, u # t PROVE WantOf(u)'
    BY <2>1, <1>2, <1>3, <1>p, <1>q, <1>r, <1>j, Values
       DEF IInv, TypeOK, Wants, WantOf
  <2>2. WantOf(t)'
    BY <1>2, <1>3, <1>p, <1>q, <1>r, <1>j, Values
       DEF IInv, TypeOK, Wants, WantOf
  <2> QED
    BY <2>1, <2>2 DEF Wants
<1>7. Holders'
  <2>1. ASSUME NEW u \in Thread, u # t PROVE HoldsLock(u)'
    BY <2>1, <1>2, <1>3, <1>p, <1>q, <1>r, <1>j, Values
       DEF IInv, TypeOK, Holders, HoldsLock, Holding, Live
  <2>2. HoldsLock(t)'
    BY <1>2, <1>3, <1>p, <1>q, <1>r, <1>j, Values
       DEF IInv, TypeOK, Holders, HoldsLock, Holding, Live
  <2> QED
    BY <2>1, <2>2 DEF Holders
<1>8. Hash'
  BY <1>2, <1>3, <1>p, <1>q, <1>r, <1>j, Values
     DEF IInv, TypeOK, Hash, HashEntry
<1>9. Cache'
  BY <1>2, <1>3, <1>p, <1>q, <1>r, <1>j, Values
     DEF IInv, TypeOK, Cache, CachedLock
<1>10. Home'
  BY <1>2, <1>3, <1>p, <1>q, <1>r, <1>j, Values
     DEF IInv, TypeOK, Home, TicketAt, HomeOf
<1>11. Found'
  <2>1. ASSUME NEW u \in Thread, u # t PROVE FoundBy(u)'
    <3>1. CASE pc[u] = "owner"
      <4>1. /\ ref[u] \in Live /\ m_rwlock[ref[u]] = u
            /\ want[u] \in Key /\ ref[u] = HomeOf(want[u])
        BY <3>1
           DEF IInv, Holders, HoldsLock, Holding, Wants, WantOf, Found,
               FoundBy
      <4> QED
        BY <2>1, <3>1, <4>1, <1>2, <1>3, <1>p, <1>q, <1>r, <1>j, Values
           DEF IInv, TypeOK, FoundBy, HomeOf, Live
    <3>2. CASE pc[u] = "empty"
      <4>1. /\ ref[u] \in Live /\ m_rwlock[ref[u]] = u
            /\ key[ref[u]] \in Key /\ ref[u] = HomeOf(key[ref[u]])
            /\ \A v \in Thread, h \in Key : ticket[v][h] # ref[u]
        BY <3>2 DEF IInv, Holders, HoldsLock, Holding, Found, FoundBy
      <4> QED
        BY <2>1, <3>2, <4>1, <1>2, <1>3, <1>p, <1>q, <1>r, <1>j, Values
           DEF IInv, TypeOK, FoundBy, HomeOf, Live
    <3>3. CASE pc[u] \notin {"owner", "empty"}
      BY <2>1, <3>3, <1>2, <1>3 DEF FoundBy
    <3> QED
      BY <3>1, <3>2, <3>3
  <2>2. FoundBy(t)'
    BY <1>2, <1>3, <1>p, <1>q, <1>r, <1>j, Values
       DEF IInv, TypeOK, Found, FoundBy, HomeOf, Holders, HoldsLock, Holding,
           Live
  <2> QED
    BY <2>1, <2>2 DEF Found
<1>12. Looking'
  <2>1. ASSUME NEW u \in Thread, u # t PROVE LookedUp(u)'
    <3> SUFFICES ASSUME pc[u] = "wrlock"
                 PROVE  LookedUp(u)'
      BY <2>1, <1>2 DEF LookedUp
    <3>1. /\ version[u] \in Nat /\ ref[u] \in Lock /\ want[u] \in MapKey
          /\ m_version[ref[u]] \in Nat /\ LookedUp(u)
      BY Values DEF IInv, TypeOK, Wants, WantOf, Looking, LookedUp
    <3>2. CASE ref[u] = o
      BY <3>1, <3>2, <1>2, <1>3 DEF LookedUp
    <3>3. CASE ref[u] # o
      BY <3>1, <3>3, <1>2, <1>3, <1>r DEF LookedUp
    <3> QED
      BY <3>2, <3>3
  <2>2. LookedUp(t)'
    BY <1>2 DEF LookedUp
  <2> QED
    BY <2>1, <2>2 DEF Looking
<1>13. LastUser'
  <2>1. ASSUME NEW u \in Thread, u # t PROVE LastUserIs(u)'
    <3>d. ASSUME Doomed(u) PROVE Doomed(u)'
      <4>1. /\ ref'[u] = ref[u] /\ ref[u] \in Lock /\ ref[u] \in allocated
            /\ m_is_destroyed[ref[u]]
        BY <2>1, <3>d, <1>2, <1>3, Values DEF Doomed, IInv, TypeOK
      <4>2. ref[u] \in allocated' /\ m_is_destroyed'[ref[u]]
        BY <4>1, <1>2, <1>3, <1>p, <1>q, <1>r, <1>j, Values, <1>n
           DEF IInv, TypeOK
      <4>3. ASSUME NEW v \in Thread, pc'[v] = "wrlock"
            PROVE  ref'[v] # ref[u]
        <5>1. CASE v = t
          BY <4>1, <4>3, <5>1, <3>d, <1>2, <1>3, <1>p, <1>q, <1>r, <1>j,
             Values, <1>n
             DEF Doomed, IInv, TypeOK
        <5>2. CASE v # t
          BY <4>3, <5>2, <3>d, <1>2, <1>3 DEF Doomed
        <5> QED
          BY <5>1, <5>2
      <4> QED
        BY <4>1, <4>2, <4>3 DEF Doomed
    <3>1. CASE pc[u] \in {"unlock", "stale"}
      <4>1. ref[u] \in allocated /\ (last[u] => Doomed(u)')
        BY <3>1, <3>d DEF IInv, LastUser, LastUserIs
      <4> QED
        BY <2>1, <3>1, <4>1, <1>2, <1>3, <1>p, <1>q, <1>r, <1>j, Values, <1>n
           DEF LastUserIs
    <3>2. CASE pc[u] = "destroy"
      <4>1. /\ Doomed(u) /\ m_rwlock[ref[u]] = NULL
            /\ \A v \in Thread \ {u} : pc[v] = "destroy" => ref[v] # ref[u]
        BY <3>2 DEF IInv, LastUser, LastUserIs
      <4>2. m_rwlock'[ref[u]] = NULL
        BY <4>1, <1>2, <1>3, <1>p, <1>q, <1>r, <1>j, Values, <1>n
           DEF IInv, TypeOK, Doomed
      <4> QED
        BY <2>1, <3>2, <3>d, <4>1, <4>2, <1>2, <1>3, <1>p, <1>q, <1>r, <1>j,
           Values, <1>n
           DEF LastUserIs
    <3>3. CASE pc[u] \notin {"unlock", "stale", "destroy"}
      BY <2>1, <3>3, <1>2 DEF LastUserIs
    <3> QED
      BY <3>1, <3>2, <3>3
  <2>2. LastUserIs(t)'
    BY <1>2, <1>3, <1>p, <1>q, <1>r, <1>j, Values, <1>n
       DEF IInv, TypeOK, LastUser, LastUserIs, Doomed
  <2> QED
    BY <2>1, <2>2 DEF LastUser
<1>14. Counted'
  BY <1>2, <1>3, <1>p, CountedFrame DEF IInv
<1>15. Accounted'
  BY <1>2, <1>3, <1>p, <1>q, <1>r, <1>j, Values
     DEF IInv, TypeOK, Accounted, AccountedFor
<1>16. Freed'
  <2>1. ASSUME NEW x \in allocated, m_is_destroyed[x], x # o
        PROVE  \E u \in Thread : Frees(u, x)'
    <3>1. PICK u \in Thread : Frees(u, x)
      BY <2>1 DEF IInv, Freed
    <3>2. u # t
      BY <3>1, <2>1, <1>p DEF Frees
    <3> QED
      BY <3>1, <3>2, <1>2, <1>3 DEF Frees
  <2>2. \E u \in Thread : Frees(u, o)'
    <3>1. CASE NoReferences(o, m_ref_release[o])
      <4>1. Frees(t, o)'
        BY <3>1, <1>2, <1>3, <1>p DEF Frees
      <4> QED
        BY <4>1
    <3>2. ASSUME NEW u \in Thread, pc[u] = "wrlock" /\ ref[u] = o
          PROVE  \E v \in Thread : Frees(v, o)'
      <4>1. Frees(u, o)'
        BY <3>2, <1>2, <1>3, <1>p DEF Frees
      <4> QED
        BY <4>1
    <3> QED
      BY <3>1, <3>2, <1>n
  <2>3. ASSUME NEW x \in allocated', m_is_destroyed'[x], x # o
        PROVE  x \in allocated /\ m_is_destroyed[x]
    BY <2>3, <1>2, <1>3, Values DEF IInv, TypeOK
  <2> QED
    BY <2>1, <2>2, <2>3 DEF Freed
<1>17. InUse'
  <2>1. ASSUME NEW u \in Thread, NEW j \in MapKey \ {k}, m_locks[j] # NULL,
               Keeps(u, j)
        PROVE  Keeps(u, j)'
    <3>1. m_locks[j] \in Lock \ {o} /\ m_locks'[j] = m_locks[j]
      BY <2>1, <1>2, <1>j, Values DEF IInv, TypeOK
    <3>2. CASE u # t
      BY <2>1, <3>1, <3>2, <1>2, <1>3 DEF Keeps
    <3>3. CASE u = t
      BY <2>1, <3>1, <3>3, <1>2, <1>3, <1>p DEF Keeps
    <3> QED
      BY <3>2, <3>3
  <2> QED
    BY <2>1, <1>2, <1>q DEF IInv, InUse
<1> QED
  BY <1>4, <1>5, <1>6, <1>7, <1>8, <1>9, <1>10, <1>11, <1>12, <1>13, <1>14,
     <1>15, <1>16, <1>17
     DEF IInv

\* The unlock at the end of remove and of the retry path.
LEMMA UnlockKeeps ==
  ASSUME IInv, NEW t \in Thread, Unlock(t)
  PROVE  IInv'
<1>p. PICK o \in Lock : /\ o = ref[t] /\ pc[t] \in {"unlock", "stale"}
                       /\ m_rwlock[o] = t /\ o \in Live
  BY Values DEF Unlock, IInv, TypeOK, Holders, HoldsLock, Holding, Live
<1>1. /\ m_rwlock' = [m_rwlock EXCEPT ![o] = NULL]
      /\ UNCHANGED <<allocated, key, scoped, m_version, m_ref_usage,
                     m_ref_release, m_is_destroyed, m_locks, unused,
                     ticket, want, ref, version, last, left>>
  BY <1>p DEF Unlock, Goto, object, counters, map, locals
<1>2. /\ m_rwlock'[o] = NULL
      /\ \A x \in Lock \ {o} : m_rwlock'[x] = m_rwlock[x]
  BY <1>1 DEF IInv, TypeOK
<1>3. /\ UNCHANGED <<allocated, key, scoped, m_version, m_ref_usage,
                     m_ref_release, m_is_destroyed, m_locks, unused,
                     ticket, want, ref, version, last, left>>
  BY <1>1
<1>s. /\ \A x \in Thread \ {t} : pc'[x] = pc[x]
      /\ pc' \in [Thread -> PC]
  BY DEF Unlock, Goto, Resume, IInv, TypeOK, PC
<1>o. \/ pc'[t] = "destroy" /\ last[t]
      \/ pc'[t] = "idle" /\ ~last[t] /\ want[t] = NULL
      \/ pc'[t] = "lookup" /\ ~last[t] /\ want[t] # NULL
  BY DEF Unlock, Goto, Resume, IInv, TypeOK
<1>4. TypeOK'
  BY <1>1, <1>s DEF IInv, TypeOK
<1>5. Statics' /\ Hash' /\ Cache' /\ Home' /\ Accounted'
  BY <1>3
     DEF IInv, Statics, Hash, HashEntry, Cache, CachedLock, Home, TicketAt,
         HomeOf, Accounted, AccountedFor
<1>6. Wants'
  <2>1. ASSUME NEW u \in Thread, u # t PROVE WantOf(u)'
    BY <2>1, <1>2, <1>3, <1>p, <1>s, <1>o, Values
       DEF IInv, TypeOK, Wants, WantOf
  <2>2. WantOf(t)'
    BY <1>2, <1>3, <1>p, <1>s, <1>o, Values DEF IInv, TypeOK, Wants, WantOf
  <2> QED
    BY <2>1, <2>2 DEF Wants
<1>7. Holders'
  <2>1. ASSUME NEW u \in Thread, u # t PROVE HoldsLock(u)'
    BY <2>1, <1>2, <1>3, <1>p, <1>s, <1>o, Values
       DEF IInv, TypeOK, Holders, HoldsLock, Holding, Live
  <2>2. HoldsLock(t)'
    BY <1>2, <1>3, <1>p, <1>s, <1>o, Values
       DEF IInv, TypeOK, Holders, HoldsLock, Holding, Live
  <2> QED
    BY <2>1, <2>2 DEF Holders
<1>8. Found'
  <2>1. ASSUME NEW u \in Thread, u # t PROVE FoundBy(u)'
    BY <2>1, <1>2, <1>3, <1>p, <1>s, <1>o, Values
       DEF IInv, TypeOK, Found, FoundBy, HomeOf
  <2>2. FoundBy(t)'
    BY <1>2, <1>3, <1>p, <1>s, <1>o, Values
       DEF IInv, TypeOK, Found, FoundBy, HomeOf
  <2> QED
    BY <2>1, <2>2 DEF Found
<1>9. Looking'
  <2>1. ASSUME NEW u \in Thread, u # t PROVE LookedUp(u)'
    BY <2>1, <1>2, <1>3, <1>p, <1>s, <1>o, Values
       DEF IInv, TypeOK, Looking, LookedUp
  <2>2. LookedUp(t)'
    BY <1>2, <1>3, <1>p, <1>s, <1>o, Values
       DEF IInv, TypeOK, Looking, LookedUp
  <2> QED
    BY <2>1, <2>2 DEF Looking
<1>10. LastUser'
  <2>1. ASSUME NEW u \in Thread, u # t PROVE LastUserIs(u)'
    BY <2>1, <1>2, <1>3, <1>p, <1>s, <1>o, Values
       DEF IInv, TypeOK, LastUser, LastUserIs, Doomed
  <2>2. LastUserIs(t)'
    BY <1>2, <1>3, <1>p, <1>s, <1>o, Values
       DEF IInv, TypeOK, LastUser, LastUserIs, Doomed
  <2> QED
    BY <2>1, <2>2 DEF LastUser
<1>11. Counted'
  BY <1>2, <1>3, <1>p, <1>s, <1>o, CountedFrame DEF IInv
<1>12. Freed'
  <2>1. ASSUME NEW u \in Thread, NEW q \in allocated, Frees(u, q)
        PROVE  Frees(u, q)'
    <3>1. CASE u # t
      BY <2>1, <3>1, <1>2, <1>3, <1>p, <1>s, <1>o, Values
         DEF IInv, TypeOK, Freed, Frees
    <3>2. CASE u = t
      BY <2>1, <3>2, <1>2, <1>3, <1>p, <1>s, <1>o, Values
         DEF IInv, TypeOK, Freed, Frees
    <3> QED
      BY <3>1, <3>2
  <2> QED
    BY <2>1, <1>3 DEF IInv, Freed
<1>13. InUse'
  <2>1. ASSUME NEW u \in Thread, NEW j \in MapKey,
               m_locks[j] # NULL, Keeps(u, j)
        PROVE  Keeps(u, j)'
    <3>1. CASE u # t
      BY <2>1, <3>1, <1>2, <1>3, <1>p, <1>s, <1>o, Values
         DEF IInv, TypeOK, InUse, Keeps
    <3>2. CASE u = t
      BY <2>1, <3>2, <1>2, <1>3, <1>p, <1>s, <1>o, Values
         DEF IInv, TypeOK, InUse, Keeps
    <3> QED
      BY <3>1, <3>2
  <2> QED
    BY <2>1, <1>3 DEF IInv, InUse
<1> QED
  BY <1>4, <1>5, <1>6, <1>7, <1>8, <1>9, <1>10, <1>11, <1>12, <1>13 DEF IInv

\* MDL_lock::destroy frees an object that nobody else can reach.
LEMMA DestroyKeeps ==
  ASSUME IInv, NEW t \in Thread, Destroy(t)
  PROVE  IInv'
<1>p. PICK o \in Lock : /\ o = ref[t] /\ pc[t] = "destroy"
                       /\ m_rwlock[o] = NULL /\ o \in allocated /\ o \in Addr
                       /\ m_is_destroyed[o] /\ Doomed(t)
                       /\ \A u \in Thread \ {t} :
                            pc[u] \in {"wrlock", "destroy"} => ref[u] # o
  BY Values DEF Destroy, IInv, TypeOK, LastUser, LastUserIs, Doomed
<1>1. /\ allocated' = allocated \ {o}
      /\ UNCHANGED <<key, scoped, m_version, m_ref_usage, m_ref_release,
                     m_is_destroyed, m_rwlock, m_locks, unused,
                     ticket, want, ref, version, last, left>>
  BY <1>p DEF Destroy, Goto, object, counters, map, locals
<1>3. /\ allocated' = allocated \ {o}
      /\ UNCHANGED <<key, scoped, m_version, m_ref_usage, m_ref_release,
                     m_is_destroyed, m_rwlock, m_locks, unused,
                     ticket, want, ref, version, last, left>>
  BY <1>1
<1>s. /\ \A x \in Thread \ {t} : pc'[x] = pc[x]
      /\ pc' \in [Thread -> PC]
  BY DEF Destroy, Goto, Resume, IInv, TypeOK, PC
<1>o. \/ pc'[t] = "idle" /\ want[t] = NULL
      \/ pc'[t] = "lookup" /\ want[t] # NULL
  BY DEF Destroy, Goto, Resume, IInv, TypeOK
<1>4. TypeOK'
  BY <1>1, <1>s DEF IInv, TypeOK
<1>5. Statics' /\ Home'
  BY <1>3 DEF IInv, Statics, Home, TicketAt, HomeOf
<1>6. Wants'
  <2>1. ASSUME NEW u \in Thread, u # t PROVE WantOf(u)'
    BY <2>1, <1>3, <1>p, <1>s, <1>o, Values DEF IInv, TypeOK, Wants, WantOf
  <2>2. WantOf(t)'
    BY <1>3, <1>p, <1>s, <1>o, Values DEF IInv, TypeOK, Wants, WantOf
  <2> QED
    BY <2>1, <2>2 DEF Wants
<1>7. Holders'
  <2>1. ASSUME NEW u \in Thread, u # t PROVE HoldsLock(u)'
    BY <2>1, <1>3, <1>p, <1>s, <1>o, Values
       DEF IInv, TypeOK, Holders, HoldsLock, Holding, Live
  <2>2. HoldsLock(t)'
    BY <1>3, <1>p, <1>s, <1>o, Values
       DEF IInv, TypeOK, Holders, HoldsLock, Holding, Live
  <2> QED
    BY <2>1, <2>2 DEF Holders
<1>8. Hash'
  BY <1>3, <1>p, <1>s, <1>o, Values DEF IInv, TypeOK, Hash, HashEntry
<1>9. Cache'
  BY <1>3, <1>p, <1>s, <1>o, Values DEF IInv, TypeOK, Cache, CachedLock
<1>10. Found'
  <2>1. ASSUME NEW u \in Thread, u # t PROVE FoundBy(u)'
    BY <2>1, <1>3, <1>p, <1>s, <1>o, Values
       DEF IInv, TypeOK, Found, FoundBy, HomeOf
  <2>2. FoundBy(t)'
    BY <1>3, <1>p, <1>s, <1>o, Values DEF IInv, TypeOK, Found, FoundBy, HomeOf
  <2> QED
    BY <2>1, <2>2 DEF Found
<1>11. Looking'
  <2>1. ASSUME NEW u \in Thread, u # t PROVE LookedUp(u)'
    BY <2>1, <1>3, <1>p, <1>s, <1>o, Values
       DEF IInv, TypeOK, Looking, LookedUp
  <2>2. LookedUp(t)'
    BY <1>3, <1>p, <1>s, <1>o, Values DEF IInv, TypeOK, Looking, LookedUp
  <2> QED
    BY <2>1, <2>2 DEF Looking
<1>12. LastUser'
  <2>1. ASSUME NEW u \in Thread, u # t PROVE LastUserIs(u)'
    BY <2>1, <1>3, <1>p, <1>s, <1>o, Values
       DEF IInv, TypeOK, LastUser, LastUserIs, Doomed, Holders, HoldsLock,
           Holding, Live
  <2>2. LastUserIs(t)'
    BY <1>3, <1>p, <1>s, <1>o, Values
       DEF IInv, TypeOK, LastUser, LastUserIs, Doomed, Holders, HoldsLock,
           Holding, Live
  <2> QED
    BY <2>1, <2>2 DEF LastUser
<1>13. Counted'
  BY <1>3, <1>p, <1>s, <1>o, CountedFrame DEF IInv
<1>14. Accounted'
  BY <1>3, <1>p, <1>s, <1>o, Values DEF IInv, TypeOK, Accounted, AccountedFor
<1>15. Freed'
  <2>1. ASSUME NEW u \in Thread, NEW x \in allocated, x # o, Frees(u, x)
        PROVE  Frees(u, x)'
    BY <2>1, <1>3, <1>p, <1>s DEF Frees
  <2> QED
    BY <2>1, <1>3 DEF IInv, Freed
<1>16. InUse'
  <2>1. ASSUME NEW u \in Thread, NEW j \in MapKey,
               m_locks[j] # NULL, Keeps(u, j)
        PROVE  Keeps(u, j)'
    <3>1. CASE u # t
      BY <2>1, <3>1, <1>3, <1>p, <1>s, <1>o, Values
         DEF IInv, TypeOK, InUse, Keeps
    <3>2. CASE u = t
      BY <2>1, <3>2, <1>3, <1>p, <1>s, <1>o, Values
         DEF IInv, TypeOK, InUse, Keeps
    <3> QED
      BY <3>1, <3>2
  <2> QED
    BY <2>1, <1>3 DEF IInv, InUse
<1> QED
  BY <1>4, <1>5, <1>6, <1>7, <1>8, <1>9, <1>10, <1>11, <1>12, <1>13, <1>14,
     <1>15, <1>16
     DEF IInv
-----------------------------------------------------------------------------
(* The theorems *)

\* MDL_map::init.
LEMMA InitIInv == Init => IInv
<1> SUFFICES ASSUME Init PROVE IInv
  OBVIOUS
<1>1. TypeOK
  BY MDLMapAssumption DEF Init, TypeOK, PC, Lock, Key
<1>2. /\ \A t \in Thread : pc[t] = "idle" /\ want[t] = NULL
      /\ \A t \in Thread, k \in Key : ticket[t][k] = NULL
      /\ \A k \in MapKey : m_locks[k] = NULL
      /\ allocated = {} /\ unused = {}
      /\ \A s \in StaticKey : key[s] = s
  BY Values DEF Init
<1>3. ASSUME NEW o \in Lock
      PROVE  Balance(m_ref_usage[o], m_ref_release[o], Cardinality(Waiters(o)))
  <2>1. Cardinality(Waiters(o)) = 0
    BY <1>2, WaiterCount DEF Waiters
  <2>2. m_ref_usage[o] = 0 /\ m_ref_release[o] = 0
    BY DEF Init
  <2> QED
    BY <2>1, <2>2 DEF Balance
<1>4. Wants /\ Holders /\ Statics /\ Hash /\ Cache /\ Home
  BY <1>2 DEF Wants, WantOf, Holders, HoldsLock, Holding, Statics, Hash,
              HashEntry, Cache, Home, TicketAt
<1>5. Found /\ Looking /\ LastUser /\ Accounted /\ Freed /\ InUse
  BY <1>2 DEF Found, FoundBy, Looking, LookedUp, LastUser, LastUserIs,
              Accounted, Freed, InUse
<1> QED
  BY <1>1, <1>3, <1>4, <1>5 DEF IInv, Counted

\* Every step of the map keeps the invariant.
LEMMA NextIInv == IInv /\ [Next]_vars => IInv'
<1> SUFFICES ASSUME IInv, [Next]_vars
             PROVE  IInv'
  OBVIOUS
<1>1. ASSUME NEW t \in Thread, Step(t)
      PROVE  IInv'
  <2>1. CASE Remove(t)
    BY <2>1, RemoveToCacheKeeps, RemoveForGoodKeeps
  <2>2. CASE ~Remove(t)
    BY <1>1, <2>2, FindStaticKeeps, FindKeeps, InsertUnusedKeeps,
       InsertNewKeeps, InsertFailsKeeps, LockObjectKeeps, AddTicketKeeps,
       TryAcquireFailsKeeps, RemoveStaticKeeps, UnlockKeeps, DestroyKeeps
       DEF Step
  <2> QED
    BY <2>1, <2>2
<1>2. ASSUME NEW t \in Thread, NEW k \in Key, Request(t, k)
      PROVE  IInv'
  BY <1>2, RequestKeeps
<1>3. ASSUME NEW t \in Thread, NEW k \in Key, RemoveTicket(t, k)
      PROVE  IInv'
  BY <1>3, RemoveTicketMoreKeeps, RemoveTicketLastKeeps
<1>4. CASE UNCHANGED vars
  <2>1. UNCHANGED <<allocated, key, scoped, m_version, m_ref_usage,
                    m_ref_release, m_is_destroyed, m_rwlock, m_locks, unused,
                    ticket, pc, want, ref, version, last, left>>
    BY <1>4 DEF vars, object, counters, map, locals
  <2>2. Counted'
    BY <2>1, CountedFrame DEF IInv
  <2>3. TypeOK' /\ Wants' /\ Holders' /\ Statics' /\ Hash' /\ Cache' /\ Home'
    BY <2>1 DEF IInv, TypeOK, Wants, WantOf, Holders, HoldsLock, Live, Statics,
                Hash, HashEntry, Cache, CachedLock, Home, TicketAt, HomeOf
  <2>4. Found' /\ Looking' /\ LastUser' /\ Accounted' /\ Freed' /\ InUse'
    BY <2>1 DEF IInv, Found, FoundBy, HomeOf, Looking, LookedUp, LastUser,
                LastUserIs, Doomed, Accounted, AccountedFor, Freed, Frees,
                InUse, Keeps
  <2> QED
    BY <2>2, <2>3, <2>4 DEF IInv
<1> QED
  BY <1>1, <1>2, <1>3, <1>4 DEF Next

\* The invariant holds however many threads meet in the map: every object is
\* reached only in the ways that the invariant lists, and the difference of
\* the two counters is the number of threads that are about to lock it.
THEOREM Invariance == Spec => []IInv
<1>1. Init => IInv
  BY InitIInv
<1>2. IInv /\ [Next]_vars => IInv'
  BY NextIInv
<1> QED
  BY <1>1, <1>2, PTL DEF Spec

\* What the hash, the cache, the tickets and the threads refer to.
LEMMA Reachable == IInv => NoDanglingPointer
<1> SUFFICES ASSUME IInv PROVE NoDanglingPointer
  OBVIOUS
<1>1. ASSUME NEW k \in MapKey PROVE m_locks[k] \in allocated \cup {NULL}
  BY DEF IInv, Hash, HashEntry
<1>2. unused \subseteq allocated
  BY DEF IInv, Cache, CachedLock
<1>3. ASSUME NEW t \in Thread, NEW k \in Key
      PROVE  ticket[t][k] \in Live \cup {NULL}
  BY <1>1, Values DEF IInv, Home, TicketAt, HomeOf, Live
<1>4. ASSUME NEW t \in Thread, NEW o \in Lock, Uses(t, o) PROVE o \in Live
  <2>1. CASE pc[t] = "wrlock"
    BY <2>1, <1>4 DEF IInv, Looking, LookedUp, Uses, Live
  <2>2. CASE pc[t] \in Holding
    BY <2>2, <1>4 DEF IInv, Holders, HoldsLock, Uses
  <2>3. CASE pc[t] = "destroy"
    BY <2>3, <1>4 DEF IInv, LastUser, LastUserIs, Doomed, Uses, Live
  <2> QED
    BY <2>1, <2>2, <2>3, <1>4 DEF Uses, IInv, TypeOK, PC, Holding
<1> QED
  BY <1>1, <1>2, <1>3, <1>4 DEF NoDanglingPointer

\* The thread at MDL_lock::destroy is alone with its object.
LEMMA Alone == IInv => DestroyedByLastUser
<1> SUFFICES ASSUME IInv, NEW t \in Thread, pc[t] = "destroy"
             PROVE  /\ Tickets(ref[t]) = {}
                    /\ ref[t] \notin unused
                    /\ \A k \in MapKey : m_locks[k] # ref[t]
                    /\ \A u \in Thread \ {t} : ~Uses(u, ref[t])
  BY DEF DestroyedByLastUser
<1>1. /\ ref[t] \in allocated /\ ref[t] \in Addr /\ ref[t] # NULL
      /\ m_is_destroyed[ref[t]] /\ m_rwlock[ref[t]] = NULL
      /\ \A u \in Thread : pc[u] = "wrlock" => ref[u] # ref[t]
      /\ \A u \in Thread \ {t} : pc[u] = "destroy" => ref[u] # ref[t]
  BY Values DEF IInv, TypeOK, LastUser, LastUserIs, Doomed
<1>2. \A k \in MapKey : m_locks[k] # ref[t]
  BY <1>1 DEF IInv, Hash, HashEntry
<1>3. ref[t] \notin unused
  BY <1>1 DEF IInv, Cache, CachedLock
<1>4. \A u \in Thread, k \in Key : ticket[u][k] # ref[t]
  BY <1>1, <1>2, Values DEF IInv, Home, TicketAt, HomeOf
<1>5. Tickets(ref[t]) = {}
  BY <1>4 DEF Tickets
<1>6. ASSUME NEW u \in Thread \ {t} PROVE ~Uses(u, ref[t])
  <2>1. pc[u] \in Holding => ref[u] # ref[t]
    BY <1>1, Values DEF IInv, Holders, HoldsLock
  <2> QED
    BY <2>1, <1>1 DEF Uses, IInv, TypeOK, PC, Holding
<1> QED
  BY <1>2, <1>3, <1>5, <1>6

\* No MDL_lock is used after it was freed or freed twice, for any number of
\* threads that look up, lock, remove, reuse and free objects concurrently.
THEOREM NoUseAfterFreeHolds == Spec => []NoUseAfterFree
<1>1. IInv => NoUseAfterFree
  BY Reachable, Alone DEF NoUseAfterFree
<1> QED
  BY <1>1, Invariance, PTL

\* All locks on a key meet in one MDL_lock of the right class: the test of
\* m_version by move_from_hash_to_lock_mutex is enough.
THEOREM RegistryConsistentHolds == Spec => []RegistryConsistent
<1>1. IInv => RegistryConsistent
  <2> SUFFICES ASSUME IInv PROVE RegistryConsistent
    OBVIOUS
  <2>1. ASSUME NEW t \in Thread, pc[t] = "owner"
        PROVE  ref[t] = HomeOf(want[t]) /\ key[ref[t]] = want[t]
    <3>1. ref[t] = HomeOf(want[t]) /\ want[t] \in Key /\ ref[t] \in Live
      BY <2>1 DEF IInv, Found, FoundBy, Wants, WantOf, Holders, HoldsLock,
                  Holding
    <3>2. CASE want[t] \in StaticKey
      BY <3>1, <3>2 DEF HomeOf, IInv, Statics
    <3>3. CASE want[t] \in MapKey
      BY <3>1, <3>3, Values DEF HomeOf, IInv, Hash, HashEntry, Live, TypeOK
    <3> QED
      BY <3>1, <3>2, <3>3, Values
  <2>2. ASSUME NEW t \in Thread, NEW k \in Key
        PROVE  ticket[t][k] \in {HomeOf(k), NULL}
    BY DEF IInv, Home, TicketAt
  <2>3. RightKindOfLock
    BY DEF RightKindOfLock, IInv, Hash, HashEntry, Cache, CachedLock
  <2> QED
    BY <2>1, <2>2, <2>3 DEF RegistryConsistent, OneLockPerKey, IInv
<1> QED
  BY <1>1, Invariance, PTL

\* When everybody has released everything and left the map, the hash is empty
\* and no object is lost: what is not in the cache has been freed.
THEOREM NothingLeaksHolds == Spec => []NothingLeaks
<1>1. IInv => NothingLeaks
  <2> SUFFICES ASSUME IInv,
                      \A t \in Thread : /\ pc[t] = "idle"
                                        /\ \A k \in Key : ticket[t][k] = NULL
               PROVE  /\ \A k \in MapKey : m_locks[k] = NULL
                      /\ allocated = unused
    BY DEF NothingLeaks
  <2>1. ASSUME NEW k \in MapKey PROVE m_locks[k] = NULL
    BY Values DEF IInv, InUse, Keeps
  <2>2. ASSUME NEW o \in allocated PROVE o \in unused
    <3>1. ~m_is_destroyed[o]
      BY DEF IInv, Freed, Frees
    <3>2. o # NULL
      BY Values DEF IInv, TypeOK
    <3> QED
      BY <2>1, <3>1, <3>2 DEF IInv, Accounted, AccountedFor
  <2>3. unused \subseteq allocated
    BY DEF IInv, Cache, CachedLock
  <2> QED
    BY <2>1, <2>2, <2>3
<1> QED
  BY <1>1, Invariance, PTL
=============================================================================
