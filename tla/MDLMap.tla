------------------------------- MODULE MDLMap -------------------------------
(***************************************************************************)
(* Life and death of MDL_lock objects: MDL_map of sql/mdl.cc.              *)
(*                                                                         *)
(* A thread looks an object up under MDL_map::m_mutex, but locks the       *)
(* object's own m_rwlock only after it has released m_mutex.  In between   *)
(* the object may be moved to the cache of unused objects, reused for      *)
(* another key, or marked destroyed.  m_version tells the thread that this *)
(* has happened, and m_ref_usage/m_ref_release tell who frees the memory.  *)
(*                                                                         *)
(* A section protected by m_mutex is one action; so is one protected by    *)
(* m_rwlock, except that an m_rwlock held on entry to MDL_map::remove or   *)
(* on return from MDL_map::find_or_insert stays locked between actions.    *)
(* m_granted and m_waiting of a lock are abstracted to the tickets that    *)
(* point to it.  The cache is a set: any cached object may come first.     *)
(***************************************************************************)
EXTENDS Naturals, FiniteSets

CONSTANTS Thread,       \* threads that use the map
          ObjectKey,    \* keys of namespaces with an MDL_object_lock
          SchemaKey,    \* keys of namespace SCHEMA
          StaticKey,    \* the keys GLOBAL and COMMIT; each also denotes its
                        \* pre-allocated MDL_lock
          Addr,         \* addresses that operator new may return
          CacheSize,    \* mdl_locks_cache_size
          UintMax,      \* the largest value of m_ref_usage and m_ref_release
          MaxOps,       \* bound: lock requests that one thread makes
          NULL

Key == ObjectKey \cup SchemaKey \cup StaticKey

MapKey == ObjectKey \cup SchemaKey        \* the keys found in m_locks

\* "as long as their size is big enough to hold maximum number of concurrent
\* threads on the system"
ASSUME MDLMapAssumption ==
  /\ IsFiniteSet(Thread) /\ IsFiniteSet(Addr)
  /\ ObjectKey \cap SchemaKey = {} /\ MapKey \cap StaticKey = {}
  /\ StaticKey \cap Addr = {}
  /\ NULL \notin Thread \cup Key \cup Addr
  /\ CacheSize \in Nat /\ MaxOps \in Nat
  /\ UintMax \in Nat /\ Cardinality(Thread) <= UintMax

VARIABLES
  allocated,       \* addresses that hold an MDL_lock
  key,             \* MDL_lock::key
  scoped,          \* an MDL_scoped_lock, not an MDL_object_lock
  m_version,
  m_ref_usage,
  m_ref_release,
  m_is_destroyed,
  m_rwlock,        \* the thread that has write-locked m_rwlock, or NULL
  m_locks,         \* the hash: from keys to addresses or NULL
  unused,          \* m_unused_locks_cache
  ticket,          \* ticket[t][k]: m_lock of thread t's ticket on k, or NULL
  pc,
  want,            \* key that a thread's find_or_insert looks for, or NULL
  ref,             \* variable "lock" of a thread
  version,         \* variable "version" of move_from_hash_to_lock_mutex
  last,            \* ref_usage == ref_release when the thread read them
  left             \* requests a thread may still make

object == <<allocated, key, scoped>>
counters == <<m_version, m_ref_usage, m_ref_release, m_is_destroyed>>
map == <<m_locks, unused>>
locals == <<want, ref, version, last>>
vars == <<object, counters, m_rwlock, map, ticket, pc, locals, left>>

(***************************************************************************)
(* idle    outside the map                                                 *)
(* lookup  in find_or_insert, at "retry"                                   *)
(* wrlock  in move_from_hash_to_lock_mutex, without any lock               *)
(* stale   the same, m_rwlock held, the version has changed                *)
(* owner   find_or_insert has returned ref with its m_rwlock locked        *)
(* empty   in remove, m_rwlock held, m_mutex not yet                       *)
(* unlock  in remove, m_mutex released, m_rwlock still held                *)
(* destroy about to call MDL_lock::destroy(ref)                            *)
(***************************************************************************)
PC == {"idle", "lookup", "wrlock", "stale", "owner", "empty", "unlock",
       "destroy"}

Lock == Addr \cup StaticKey

Init ==                                                   \* MDL_map::init()
  /\ allocated = {}
  /\ key = [o \in Lock |-> IF o \in StaticKey THEN o ELSE NULL]
  /\ scoped = [o \in Lock |-> o \in StaticKey]
  /\ m_version = [o \in Lock |-> 0]
  /\ m_ref_usage = [o \in Lock |-> 0]
  /\ m_ref_release = [o \in Lock |-> 0]
  /\ m_is_destroyed = [o \in Lock |-> FALSE]
  /\ m_rwlock = [o \in Lock |-> NULL]
  /\ m_locks = [k \in MapKey |-> NULL]
  /\ unused = {}
  /\ ticket = [t \in Thread |-> [k \in Key |-> NULL]]
  /\ pc = [t \in Thread |-> "idle"]
  /\ want = [t \in Thread |-> NULL]
  /\ ref = [t \in Thread |-> NULL]
  /\ version = [t \in Thread |-> 0]
  /\ last = [t \in Thread |-> FALSE]
  /\ left = [t \in Thread |-> MaxOps]

Goto(t, label) == pc' = [pc EXCEPT ![t] = label]

\* ++ on a uint.
Inc(n) == IF n = UintMax THEN 0 ELSE n + 1

Tickets(o) == {p \in Thread \X Key : ticket[p[1]][p[2]] = o}

\* A thread without a ticket on k asks for one.
Request(t, k) ==
  /\ pc[t] = "idle"
  /\ left[t] > 0
  /\ ticket[t][k] = NULL
  /\ left' = [left EXCEPT ![t] = @ - 1]
  /\ want' = [want EXCEPT ![t] = k]
  /\ Goto(t, "lookup")
  /\ UNCHANGED <<object, counters, m_rwlock, map, ticket, ref, version, last>>
-----------------------------------------------------------------------------
(* MDL_map::find_or_insert *)

\* GLOBAL and COMMIT need no m_mutex.
FindStatic(t) ==
  /\ pc[t] = "lookup"
  /\ want[t] \in StaticKey
  /\ m_rwlock[want[t]] = NULL
  /\ m_rwlock' = [m_rwlock EXCEPT ![want[t]] = t]
  /\ ref' = [ref EXCEPT ![t] = want[t]]
  /\ Goto(t, "owner")
  /\ UNCHANGED <<object, counters, map, ticket, want, version, last, left>>

\* The part of move_from_hash_to_lock_mutex under m_mutex, for object o whose
\* counters are usage and ver.
TakeReference(t, o, usage, ver) ==
  /\ m_ref_usage' = [m_ref_usage EXCEPT ![o] = Inc(usage)]
  /\ version' = [version EXCEPT ![t] = ver]
  /\ ref' = [ref EXCEPT ![t] = o]
  /\ Goto(t, "wrlock")

Find(t) ==
  /\ pc[t] = "lookup"
  /\ want[t] \in MapKey
  /\ LET o == m_locks[want[t]] IN
       /\ o # NULL
       /\ TakeReference(t, o, m_ref_usage[o], m_version[o])
  /\ UNCHANGED <<object, m_version, m_ref_release, m_is_destroyed, m_rwlock,
                 map, ticket, want, last, left>>

\* No object for the key, and MDL_object_lock::reset makes one of the cache.
InsertUnused(t) ==
  /\ pc[t] = "lookup"
  /\ want[t] \in ObjectKey
  /\ m_locks[want[t]] = NULL
  /\ \E o \in unused :
       /\ unused' = unused \ {o}
       /\ key' = [key EXCEPT ![o] = want[t]]
       /\ m_locks' = [m_locks EXCEPT ![want[t]] = o]
       /\ TakeReference(t, o, m_ref_usage[o], m_version[o])
  /\ UNCHANGED <<allocated, scoped, m_version, m_ref_release, m_is_destroyed,
                 m_rwlock, ticket, want, last, left>>

\* MDL_lock::create: operator new and the constructor.
InsertNew(t) ==
  /\ pc[t] = "lookup"
  /\ want[t] \in MapKey
  /\ m_locks[want[t]] = NULL
  /\ want[t] \in SchemaKey \/ unused = {}
  /\ \E o \in Addr \ allocated :
       /\ allocated' = allocated \cup {o}
       /\ key' = [key EXCEPT ![o] = want[t]]
       /\ scoped' = [scoped EXCEPT ![o] = want[t] \in SchemaKey]
       /\ m_version' = [m_version EXCEPT ![o] = 0]
       /\ m_ref_release' = [m_ref_release EXCEPT ![o] = 0]
       /\ m_is_destroyed' = [m_is_destroyed EXCEPT ![o] = FALSE]
       /\ m_rwlock' = [m_rwlock EXCEPT ![o] = NULL]
       /\ m_locks' = [m_locks EXCEPT ![want[t]] = o]
       /\ TakeReference(t, o, 0, 0)
  /\ UNCHANGED <<unused, ticket, want, last, left>>

\* operator new or my_hash_insert is out of memory: find_or_insert returns
\* NULL.  An object of the cache goes back to it with its key already reset.
InsertFails(t) ==
  /\ pc[t] = "lookup"
  /\ want[t] \in MapKey
  /\ m_locks[want[t]] = NULL
  /\ IF want[t] \in ObjectKey /\ unused # {}
     THEN \E o \in unused : key' = [key EXCEPT ![o] = want[t]]
     ELSE UNCHANGED key
  /\ want' = [want EXCEPT ![t] = NULL]
  /\ Goto(t, "idle")
  /\ UNCHANGED <<allocated, scoped, counters, m_rwlock, map, ticket, ref,
                 version, last, left>>

\* Faulty variants of two of the conditions below.
AnyVersion(t) == TRUE
FreeAtOnce(o, release) == TRUE
NeverFree(o, release) == FALSE

\* lock->m_version == version
SameVersion(t) == m_version[ref[t]] = version[t]

\* ref_usage == ref_release, for the value that m_ref_release now has.
NoReferences(o, release) == m_ref_usage[o] = release

\* remove keeps the object for re-use instead of destroying it.
GoesToCache(o) == key[o] \notin SchemaKey /\ Cardinality(unused) < CacheSize

\* The rest of move_from_hash_to_lock_mutex.
LockObject(t) ==
  /\ pc[t] = "wrlock"
  /\ LET o == ref[t] IN
       /\ m_rwlock[o] = NULL
       /\ m_rwlock' = [m_rwlock EXCEPT ![o] = t]
       /\ m_ref_release' = [m_ref_release EXCEPT ![o] = Inc(@)]
       /\ IF SameVersion(t)
          THEN Goto(t, "owner") /\ UNCHANGED last
          ELSE /\ Goto(t, "stale")
               /\ last' = [last EXCEPT ![t] =
                             /\ m_is_destroyed[o]
                             /\ NoReferences(o, Inc(m_ref_release[o]))]
  /\ UNCHANGED <<object, m_version, m_ref_usage, m_is_destroyed, map, ticket,
                 want, ref, version, left>>
-----------------------------------------------------------------------------
(* MDL_context::try_acquire_lock, acquire_lock and MDL_lock::remove_ticket *)

\* The request is granted or starts to wait: a ticket refers to the object.
AddTicket(t) ==
  /\ pc[t] = "owner"
  /\ ticket' = [ticket EXCEPT ![t][want[t]] = ref[t]]
  /\ m_rwlock' = [m_rwlock EXCEPT ![ref[t]] = NULL]
  /\ want' = [want EXCEPT ![t] = NULL]
  /\ Goto(t, "idle")
  /\ UNCHANGED <<object, counters, map, ref, version, last, left>>

\* can_grant_lock says no, because of somebody's ticket, and the request may
\* not wait: "We can't get here if we allocated a new lock".
TryAcquireFails(t) ==
  /\ pc[t] = "owner"
  /\ Tickets(ref[t]) # {}
  /\ m_rwlock' = [m_rwlock EXCEPT ![ref[t]] = NULL]
  /\ want' = [want EXCEPT ![t] = NULL]
  /\ Goto(t, "idle")
  /\ UNCHANGED <<object, counters, map, ticket, ref, version, last, left>>

RemoveTicket(t, k) ==
  LET o == ticket[t][k] IN
    /\ pc[t] = "idle"
    /\ o # NULL
    /\ m_rwlock[o] = NULL
    /\ ticket' = [ticket EXCEPT ![t][k] = NULL]
    /\ IF Tickets(o) = {<<t, k>>}
       THEN /\ m_rwlock' = [m_rwlock EXCEPT ![o] = t]
            /\ ref' = [ref EXCEPT ![t] = o]
            /\ Goto(t, "empty")
       ELSE UNCHANGED <<m_rwlock, ref, pc>>
    /\ UNCHANGED <<object, counters, map, want, version, last, left>>
-----------------------------------------------------------------------------
(* MDL_map::remove *)

\* Faulty variant of RemoveStatic: the early return forgets the unlock.
RemoveStaticLocked(t) ==
  /\ pc[t] = "empty"
  /\ key[ref[t]] \in StaticKey
  /\ Goto(t, "idle")
  /\ UNCHANGED <<object, counters, m_rwlock, map, ticket, locals, left>>

\* The early return of remove: a static object stays.
RemoveStatic(t) ==
  /\ pc[t] = "empty"
  /\ key[ref[t]] \in StaticKey
  /\ m_rwlock' = [m_rwlock EXCEPT ![ref[t]] = NULL]
  /\ Goto(t, "idle")
  /\ UNCHANGED <<object, counters, map, ticket, locals, left>>

\* The section under m_mutex: to the cache, or to destruction.
Remove(t) ==
  /\ pc[t] = "empty"
  /\ LET o == ref[t] IN
       /\ key[o] \in MapKey
       /\ m_locks' = [m_locks EXCEPT ![key[o]] = NULL]
       /\ m_version' = [m_version EXCEPT ![o] = @ + 1]
       /\ IF GoesToCache(o)
          THEN /\ unused' = unused \cup {o}
               /\ last' = [last EXCEPT ![t] = FALSE]
               /\ UNCHANGED m_is_destroyed
          ELSE /\ m_is_destroyed' = [m_is_destroyed EXCEPT ![o] = TRUE]
               /\ last' = [last EXCEPT ![t] =
                             NoReferences(o, m_ref_release[o])]
               /\ UNCHANGED unused
  /\ Goto(t, "unlock")
  /\ UNCHANGED <<object, m_ref_usage, m_ref_release, m_rwlock, ticket, want,
                 ref, version, left>>

\* Where a thread goes on after it has dealt with a dead object.
Resume(t) == IF want[t] = NULL THEN "idle" ELSE "lookup"

\* The unlock of m_rwlock at the end of remove and of the retry path.
Unlock(t) ==
  /\ pc[t] \in {"unlock", "stale"}
  /\ m_rwlock' = [m_rwlock EXCEPT ![ref[t]] = NULL]
  /\ Goto(t, IF last[t] THEN "destroy" ELSE Resume(t))
  /\ UNCHANGED <<object, counters, map, ticket, locals, left>>

Destroy(t) ==
  /\ pc[t] = "destroy"
  /\ allocated' = allocated \ {ref[t]}
  /\ Goto(t, Resume(t))
  /\ UNCHANGED <<key, scoped, counters, m_rwlock, map, ticket, locals, left>>
-----------------------------------------------------------------------------
Step(t) ==
  \/ FindStatic(t)
  \/ Find(t)
  \/ InsertUnused(t)
  \/ InsertNew(t)
  \/ InsertFails(t)
  \/ LockObject(t)
  \/ AddTicket(t)
  \/ TryAcquireFails(t)
  \/ RemoveStatic(t)
  \/ Remove(t)
  \/ Unlock(t)
  \/ Destroy(t)

Next ==
  \E t \in Thread :
    \/ Step(t)
    \/ \E k \in Key : Request(t, k) \/ RemoveTicket(t, k)

Spec == Init /\ [][Next]_vars

\* A thread inside the map keeps running, and m_rwlock, when it keeps being
\* free, is obtained.
FairSpec == Spec /\ \A t \in Thread : WF_vars(Step(t))
-----------------------------------------------------------------------------
TypeOK ==
  /\ allocated \subseteq Addr
  /\ key \in [Lock -> Key \cup {NULL}]
  /\ scoped \in [Lock -> BOOLEAN]
  /\ m_version \in [Lock -> Nat]
  /\ m_ref_usage \in [Lock -> 0..UintMax]
  /\ m_ref_release \in [Lock -> 0..UintMax]
  /\ m_is_destroyed \in [Lock -> BOOLEAN]
  /\ m_rwlock \in [Lock -> Thread \cup {NULL}]
  /\ m_locks \in [MapKey -> Addr \cup {NULL}]
  /\ unused \subseteq Addr
  /\ ticket \in [Thread -> [Key -> Lock \cup {NULL}]]
  /\ pc \in [Thread -> PC]
  /\ want \in [Thread -> Key \cup {NULL}]
  /\ ref \in [Thread -> Lock \cup {NULL}]
  /\ version \in [Thread -> Nat]
  /\ last \in [Thread -> BOOLEAN]
  /\ left \in [Thread -> 0..MaxOps]

Live == allocated \cup StaticKey

\* Thread t is going to read or write the object that its "lock" points to.
Uses(t, o) == pc[t] \notin {"idle", "lookup"} /\ ref[t] = o

\* The objects in the hash and in the cache, those that tickets point to and
\* those that a thread is about to touch all exist.
NoDanglingPointer ==
  /\ \A k \in MapKey : m_locks[k] \in allocated \cup {NULL}
  /\ unused \subseteq allocated
  /\ \A t \in Thread, k \in Key : ticket[t][k] \in Live \cup {NULL}
  /\ \A t \in Thread, o \in Lock : Uses(t, o) => o \in Live

\* The thread that calls MDL_lock::destroy has the only pointer to the object.
DestroyedByLastUser ==
  \A t \in Thread : pc[t] = "destroy" =>
    /\ Tickets(ref[t]) = {}
    /\ ref[t] \notin unused
    /\ \A k \in MapKey : m_locks[k] # ref[t]
    /\ \A u \in Thread \ {t} : ~Uses(u, ref[t])

\* No use after free, no double free, and no free of an object that anybody
\* can still reach: m_ref_usage and m_ref_release name the one thread that
\* calls MDL_lock::destroy, across any number of reuses of the object.
NoUseAfterFree == NoDanglingPointer /\ DestroyedByLastUser

\* The MDL_lock that stands for a key.
HomeOf(k) == IF k \in StaticKey THEN k ELSE m_locks[k]

\* All tickets on a key meet in one MDL_lock: two threads that lock the same
\* table never use different lock objects, and find_or_insert returns the
\* object of the key that it was asked for, even when the object has been
\* cached and reused for another key since it was found in the hash.
OneLockPerKey ==
  /\ \A t \in Thread, k \in Key : ticket[t][k] \in {HomeOf(k), NULL}
  /\ \A t \in Thread : pc[t] = "owner" =>
       ref[t] = HomeOf(want[t]) /\ key[ref[t]] = want[t]

\* The casts to MDL_object_lock are right: a key of a scoped namespace never
\* gets an object lock or vice versa, and the cache has only object locks.
RightKindOfLock ==
  /\ \A k \in MapKey : m_locks[k] # NULL =>
       (scoped[m_locks[k]] <=> k \in SchemaKey)
  /\ \A o \in unused : ~scoped[o]

\* The registry is consistent: one MDL_lock per key, of the class the key
\* needs, found under that key, with counters that stay 32-bit values (here
\* 0..UintMax) however often the object is reused.
RegistryConsistent == TypeOK /\ OneLockPerKey /\ RightKindOfLock

\* "@pre It must be empty" of MDL_map::destroy: when all tickets are gone and
\* no thread is in the map, the hash is empty and every object that was
\* allocated is in the cache or has been freed.
NothingLeaks ==
  (\A t \in Thread : pc[t] = "idle" /\ \A k \in Key : ticket[t][k] = NULL)
    => /\ \A k \in MapKey : m_locks[k] = NULL
       /\ allocated = unused

\* find_or_insert returns: retries end when nobody removes the object, and
\* nobody keeps an m_rwlock for ever.
LookupReturns ==
  \A t \in Thread : pc[t] = "lookup" ~> pc[t] \in {"owner", "idle"}
=============================================================================
