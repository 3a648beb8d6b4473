----------------------------- MODULE MDLDeadlock ----------------------------
(***************************************************************************)
(* The deadlock detector of the metadata locking subsystem:                *)
(* MDL_context::find_deadlock and visit_subgraph, MDL_lock::visit_subgraph *)
(* and Deadlock_detection_visitor of sql/mdl.cc, on top of MDL.            *)
(*                                                                         *)
(* A context that is about to wait walks the wait-for graph depth first.   *)
(* It visits a context v with v's m_LOCK_waiting_for read-locked, and the  *)
(* lock that v waits for with its m_rwlock read-locked, and it keeps both  *)
(* until it leaves v.  Both locks prefer readers, so only a writer that is *)
(* active (reschedule_waiters) holds the walk up.  The stack of a search   *)
(* determines which locks it holds; one action visits or leaves one node.  *)
(***************************************************************************)
EXTENDS MDL

CONSTANTS GlobalKey,      \* the keys of namespace GLOBAL
          MaxSearchDepth, \* MAX_SEARCH_DEPTH
          MaxRequests     \* bound: lock requests of all contexts together

ASSUME MDLDeadlockAssumption ==
  /\ GlobalKey \subseteq ScopedKey
  /\ MaxSearchDepth \in Nat /\ MaxSearchDepth > 1
  /\ MaxRequests \in Nat

VARIABLES
  stack,    \* nodes on the current path of a search, the start node first,
            \* each with the adjacent nodes that remain to be visited
  victim,   \* the victim of a finished round, still locked, or NULL
  left      \* requests that may still be made

searchVars == <<stack, victim>>
allVars == <<vars, searchVars, left>>

DInit ==
  /\ Init
  /\ stack = [c \in Ctx |-> <<>>]
  /\ victim = [c \in Ctx |-> NULL]
  /\ left = MaxRequests
-----------------------------------------------------------------------------
(* Read locks *)

Node(v, todo) == [ctx |-> v, todo |-> todo]

OnPath(c, v) == \E i \in DOMAIN stack[c] : stack[c][i].ctx = v

\* Faulty variant of LockRead: m_rwlock is released before going deeper.
LockNotRead(k) == FALSE

\* m_LOCK_waiting_for of v is read-locked: v is being visited, or it is a
\* victim between lock_deadlock_victim and unlock_deadlock_victim.
ContextRead(v) == \E c \in Ctx : OnPath(c, v) \/ victim[c] = v

\* m_rwlock of the lock of k is read-locked.
LockRead(k) ==
  \E c, v \in Ctx : OnPath(c, v) /\ m_lock[m_waiting_for[v]] = k

\* Nobody changes what is protected by a lock that others have read-locked.
RespectReadLocks ==
  /\ \A k \in Key : LockRead(k) =>
       /\ m_rwlock'[k] = m_rwlock[k]
       /\ m_granted'[k] = m_granted[k]
       /\ granted_bitmap'[k] = granted_bitmap[k]
       /\ m_waiting'[k] = m_waiting[k]
       /\ \A x \in m_granted[k] : m_type'[x] = m_type[x]
  /\ \A v \in Ctx : ContextRead(v) => m_waiting_for'[v] = m_waiting_for[v]
-----------------------------------------------------------------------------
(* One round of find_deadlock *)

\* MDL_ticket::get_deadlock_weight of the request that v waits for.
DeadlockWeight(v) ==
  LET x == m_waiting_for[v] IN
    IF m_lock[x] \in GlobalKey \/ m_type[x] \in {"SNW", "SNRW", "X"}
    THEN 100 ELSE 0

\* leave_node and opt_change_victim_to on the way back to the start node: the
\* last node to be left among those of least weight.
VictimOf(path) ==
  path[CHOOSE i \in DOMAIN path : \A j \in DOMAIN path :
         \/ DeadlockWeight(path[i]) < DeadlockWeight(path[j])
         \/ DeadlockWeight(path[i]) = DeadlockWeight(path[j]) /\ i <= j]

\* Faulty variant of Adjacent: only the first of the two lists is visited.
AdjacentGranted(v) ==
  LET x == m_waiting_for[v]
  IN {CtxOf(y) : y \in {z \in m_granted[m_lock[x]] :
        m_type[z] \in GrantedIncompatible(m_lock[x], m_type[x])}} \ {v}

\* The contexts that v waits for, other than itself.
Adjacent(v) ==
  LET x == m_waiting_for[v] IN Blockers(m_lock[x], x) \ {v}

\* v need not be entered: it does not wait, or its wait is already over.
NotWaiting(v) == m_waiting_for[v] = NULL \/ m_wait_status[v] # "EMPTY"

\* The node that the search of c visits next.
ToVisit(c) ==
  IF stack[c] = <<>> THEN {c} ELSE Last(stack[c]).todo

\* The stack of c after it is done with node v below its top.
Done(c, v) ==
  IF stack[c] = <<>> THEN <<>>
  ELSE [stack[c] EXCEPT ![Len(stack[c])].todo = @ \ {v}]

Searching(c) == pc[c] = "search" /\ victim[c] = NULL

\* The m_rwlock that visiting v needs can be read-locked.
CanRead(v) ==
  m_waiting_for[v] # NULL => m_rwlock[m_lock[m_waiting_for[v]]] = NULL

\* Visit a node that cannot be part of a deadlock.
VisitNotWaiting(c, v) ==
  /\ Searching(c)
  /\ v \in ToVisit(c)
  /\ CanRead(v)
  /\ NotWaiting(v)
  /\ IF stack[c] = <<>>
     THEN NoDeadlockFound(c) /\ UNCHANGED stack
     ELSE stack' = [stack EXCEPT ![c] = Done(c, v)] /\ UNCHANGED vars
  /\ UNCHANGED <<victim, left>>

\* enter_node reaches the maximum depth, or inspect_edge the start node.
FoundDeadlock(c, v) ==
  \/ Len(stack[c]) + 1 >= MaxSearchDepth
  \/ c \in Adjacent(v)

VisitFound(c, v) ==
  /\ Searching(c)
  /\ v \in ToVisit(c)
  /\ CanRead(v)
  /\ ~NotWaiting(v)
  /\ FoundDeadlock(c, v)
  /\ LET path == [i \in DOMAIN stack[c] |-> stack[c][i].ctx] \o <<v>>
     IN victim' = [victim EXCEPT ![c] = VictimOf(path)]
  /\ stack' = [stack EXCEPT ![c] = <<>>]
  /\ UNCHANGED <<vars, left>>

VisitEnter(c, v) ==
  /\ Searching(c)
  /\ v \in ToVisit(c)
  /\ CanRead(v)
  /\ ~NotWaiting(v)
  /\ ~FoundDeadlock(c, v)
  /\ stack' = [stack EXCEPT ![c] = Append(Done(c, v), Node(v, Adjacent(v)))]
  /\ UNCHANGED <<vars, victim, left>>

\* All adjacent nodes have been visited.
LeaveNode(c) ==
  /\ Searching(c)
  /\ stack[c] # <<>>
  /\ Last(stack[c]).todo = {}
  /\ stack' = [stack EXCEPT ![c] = Front(@)]
  /\ IF Len(stack[c]) = 1 THEN NoDeadlockFound(c) ELSE UNCHANGED vars
  /\ UNCHANGED <<victim, left>>

\* Faulty variant of AfterVictim: the search is not repeated.
SearchOnce(c, v) == "wait"

\* find_deadlock searches again unless the context itself is the victim.
AfterVictim(c, v) == IF v = c THEN "wait" ELSE "search"

\* find_deadlock informs the victim and unlocks it.
SignalVictim(c) ==
  /\ pc[c] = "search"
  /\ victim[c] # NULL
  /\ SetStatus(victim[c], "VICTIM")
  /\ Goto(c, AfterVictim(c, victim[c]))
  /\ victim' = [victim EXCEPT ![c] = NULL]
  /\ UNCHANGED <<tickets, queues, m_hog_lock_count, loop, m_waiting_for,
                 ticket, upgraded, stack, left>>

Search(c) ==
  \/ \E v \in ToVisit(c) :
       VisitNotWaiting(c, v) \/ VisitFound(c, v) \/ VisitEnter(c, v)
  \/ LeaveNode(c)
  \/ SignalVictim(c)
-----------------------------------------------------------------------------
Release(c) ==
  /\ \E x \in m_tickets[c] : ReleaseLock(c, x)
  /\ RespectReadLocks
  /\ UNCHANGED <<searchVars, left>>

\* A new request, one that clones a ticket of the context, or a downgrade.
Ask(c) ==
  /\ left > 0
  /\ left' = left - 1
  /\ \/ \E r \in Requests : \/ GrantAtOnce(c, r[1], r[2], NULL)
                            \/ Enqueue(c, r[1], r[2], NULL)
                            \/ CloneTicket(c, r[1], r[2])
     \/ \E x \in m_tickets[c], type \in DowngradeTypes : Downgrade(c, x, type)
  /\ RespectReadLocks
  /\ UNCHANGED searchVars

\* upgrade_shared_lock_to_exclusive
Exclude(c) ==
  /\ \E x \in m_tickets[c] : Upgrade(c, x) \/ UpgradeOwnX(c, x)
  /\ RespectReadLocks
  /\ UNCHANGED <<searchVars, left>>

GoOn(c) ==
  /\ Proceed(c) \/ WakeUp(c)
  /\ RespectReadLocks
  /\ UNCHANGED <<searchVars, left>>

Abort(c) ==
  /\ \E status \in AbortStatus : AbortWait(c, status)
  /\ UNCHANGED <<searchVars, left>>

DNext ==
  \E c \in Ctx : Ask(c) \/ Exclude(c) \/ Release(c) \/ GoOn(c) \/ Search(c) \/ Abort(c)

DSpec == DInit /\ [][DNext]_allVars

(***************************************************************************)
(* A thread that is in an operation goes on with it, and a connection that *)
(* is not in one eventually ends its transaction.  There is no fairness    *)
(* for Abort: the properties must not depend on lock_wait_timeout.         *)
(***************************************************************************)
DFairSpec ==
  /\ DSpec
  /\ \A c \in Ctx : /\ WF_allVars(GoOn(c))
                    /\ WF_allVars(Search(c))
                    /\ WF_allVars(Release(c))
-----------------------------------------------------------------------------
\* The path of a search is a path of the graph as it is now, not as it was
\* when the nodes were visited: the locks that are held keep every edge alive,
\* so that no victim is chosen for a loop that has gone meanwhile.
PathIsReal ==
  \A c \in Ctx : \A i \in DOMAIN stack[c] :
    /\ m_waiting_for[stack[c][i].ctx] # NULL
    /\ i = 1 => stack[c][i].ctx = c
    /\ i > 1 => stack[c][i].ctx \in Adjacent(stack[c][i - 1].ctx)

\* Contexts that sleep and have nobody to wake them but each other.
Asleep == {c \in Ctx : pc[c] = "wait" /\ m_wait_status[c] = "EMPTY"}

\* No deadlock escapes: whatever the interleaving of new waits and searches,
\* once all members of a loop have finished their searches one of them has
\* been told to give up.
NoMissedDeadlock ==
  \A S \in SUBSET Asleep :
    S # {} => \E c \in S :
                (Blockers(m_lock[ticket[c]], ticket[c]) \ {c}) \cap S = {}

\* Every request is answered without the help of a timeout or of KILL.
RequestAnswered ==
  \A c \in Ctx : pc[c] = "queued" ~> pc[c] = "idle"
=============================================================================
