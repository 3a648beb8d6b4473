--------------------------------- MODULE MDL --------------------------------
(***************************************************************************)
(* The metadata locking protocol of sql/mdl.cc: MDL_lock (queues of        *)
(* granted and waiting tickets), MDL_wait (the wait slot of a context) and *)
(* the operations of MDL_context that take, upgrade, downgrade and release *)
(* locks.                                                                  *)
(*                                                                         *)
(* One action is one critical section of MDL_lock::m_rwlock, of            *)
(* MDL_wait::m_LOCK_wait_status or of MDL_context::m_LOCK_waiting_for,     *)
(* except for reschedule_waiters: its loop keeps m_rwlock and looks at one *)
(* waiter per action, because the wait slots of the waiters are not        *)
(* protected by m_rwlock and may be closed by a timeout, by KILL or by the *)
(* deadlock detector between two iterations.                               *)
(*                                                                         *)
(* Here find_deadlock may choose any context that waits; MDLDeadlock       *)
(* refines this to the search that the code performs.  Which object        *)
(* represents a key, and when it goes away, is the subject of MDLMap.      *)
(* Tickets of all durations are kept together.                             *)
(***************************************************************************)
EXTENDS MDLTypes, Naturals, FiniteSets, SequencesExt

CONSTANTS Ctx,               \* contexts (connections)
          ObjectKey,         \* keys with an MDL_object_lock: tables...
          ScopedKey,         \* keys with an MDL_scoped_lock: GLOBAL, schemas
          Slot,              \* bound: tickets that a context has at a time
          Requests,          \* the <<key, type>> pairs that contexts request
          DowngradeTypes,    \* types to which a lock is downgraded
          AbortStatus,       \* what may end a wait from outside: TIMEOUT, KILLED
          MaxWriteLockCount, \* max_write_lock_count
          NULL

Key == ObjectKey \cup ScopedKey

TypesOf(k) == IF k \in ScopedKey THEN ScopedType ELSE ObjectType

Ticket == Ctx \X Slot

ASSUME MDLAssumption ==
  /\ ObjectKey \cap ScopedKey = {}
  /\ NULL \notin Ctx \cup Key \cup Ticket \cup MDLType
  /\ \A r \in Requests : r \in Key \X MDLType /\ r[2] \in TypesOf(r[1])
  /\ DowngradeTypes \subseteq ObjectType
  /\ AbortStatus \subseteq {"TIMEOUT", "KILLED"}
  /\ MaxWriteLockCount \in Nat \ {0}

VARIABLES
  m_lock,           \* MDL_ticket::m_lock: the key, or NULL if no such ticket
  m_type,           \* MDL_ticket::m_type
  m_granted,        \* MDL_lock::m_granted, the tickets in it
  granted_bitmap,   \* its m_bitmap
  m_waiting,        \* MDL_lock::m_waiting, oldest request first
  waiting_bitmap,   \* its m_bitmap
  m_hog_lock_count,
  m_rwlock,         \* the context whose reschedule_waiters is running, or NULL
  it,               \* what its iterator has yet to visit
  skip_high_priority,
  m_wait_status,    \* MDL_wait::m_wait_status of each context
  m_waiting_for,    \* MDL_context::m_waiting_for, or NULL
  m_tickets,        \* MDL_context::m_tickets, all durations together
  pc,
  ticket,           \* the ticket that a context's current operation is about
  upgraded          \* the ticket a context is upgrading, or NULL

tickets == <<m_lock, m_type, m_tickets>>
queues == <<m_granted, granted_bitmap, m_waiting, waiting_bitmap>>
loop == <<m_rwlock, it, skip_high_priority>>
locals == <<pc, ticket, upgraded>>
vars == <<tickets, queues, m_hog_lock_count, loop, m_wait_status,
          m_waiting_for, locals>>

WaitStatus == {"EMPTY", "GRANTED", "VICTIM", "TIMEOUT", "KILLED"}

(***************************************************************************)
(* idle     not in an operation of this module                             *)
(* queued   in acquire_lock, the ticket is in m_waiting                    *)
(* search   the same, m_waiting_for is set, in find_deadlock               *)
(* wait     in timed_wait                                                  *)
(* done     timed_wait has returned, before done_waiting_for               *)
(* cancel   the wait has failed, before remove_ticket                      *)
(* merge    in upgrade_shared_lock_to_exclusive, X has been acquired       *)
(* resched  in reschedule_waiters, holding m_rwlock                        *)
(***************************************************************************)
PC == {"idle", "queued", "search", "wait", "done", "cancel", "merge",
       "resched"}

Init ==
  /\ m_lock = [x \in Ticket |-> NULL]
  /\ m_type = [x \in Ticket |-> NULL]
  /\ m_granted = [k \in Key |-> {}]
  /\ granted_bitmap = [k \in Key |-> {}]
  /\ m_waiting = [k \in Key |-> <<>>]
  /\ waiting_bitmap = [k \in Key |-> {}]
  /\ m_hog_lock_count = [k \in Key |-> 0]
  /\ m_rwlock = [k \in Key |-> NULL]
  /\ it = [k \in Key |-> <<>>]
  /\ skip_high_priority = [k \in Key |-> FALSE]
  /\ m_wait_status = [c \in Ctx |-> "EMPTY"]
  /\ m_waiting_for = [c \in Ctx |-> NULL]
  /\ m_tickets = [c \in Ctx |-> {}]
  /\ pc = [c \in Ctx |-> "idle"]
  /\ ticket = [c \in Ctx |-> NULL]
  /\ upgraded = [c \in Ctx |-> NULL]

Goto(c, label) == pc' = [pc EXCEPT ![c] = label]
-----------------------------------------------------------------------------
(* Compatibility of the lock of a key *)

GrantedIncompatible(k, type) ==
  IF k \in ScopedKey THEN ScopedGrantedIncompatible(type)
                     ELSE ObjectGrantedIncompatible(type)

WaitingIncompatible(k, type) ==
  IF k \in ScopedKey THEN ScopedWaitingIncompatible(type)
                     ELSE ObjectWaitingIncompatible(type)

HogTypes(k) == IF k \in ScopedKey THEN {} ELSE ObjectHogTypes

\* MDL_ticket::get_ctx
CtxOf(x) == x[1]

\* MDL_lock::can_grant_lock.  The bitmaps decide first; the list of granted
\* tickets is consulted only when its bitmap shows a conflict.
CanGrant(k, type, c, ignore_lock_priority) ==
  /\ \/ ignore_lock_priority
     \/ waiting_bitmap[k] \cap WaitingIncompatible(k, type) = {}
  /\ \/ granted_bitmap[k] \cap GrantedIncompatible(k, type) = {}
     \/ \A x \in m_granted[k] :
          CtxOf(x) = c \/ m_type[x] \notin GrantedIncompatible(k, type)

\* Faulty variant of HasTicket: a weaker ticket is taken for the request.
HasWeakerTicket(c, k, type) ==
  \E x \in m_tickets[c] :
    /\ m_lock[x] = k
    /\ GrantedIncompatible(k, m_type[x]) \subseteq GrantedIncompatible(k, type)

\* MDL_context::find_ticket: a ticket of stronger or equal type.
HasTicket(c, k, type) ==
  \E x \in m_tickets[c] :
    /\ m_lock[x] = k
    /\ GrantedIncompatible(k, type) \subseteq GrantedIncompatible(k, m_type[x])

\* The memory of a ticket that MDL_ticket::create returns.
FreeTickets(c) == {x \in Ticket : CtxOf(x) = c /\ m_lock[x] = NULL}
NewTicket(c) == CHOOSE x \in FreeTickets(c) : TRUE

Create(x, k, type) ==
  /\ m_lock' = [m_lock EXCEPT ![x] = k]
  /\ m_type' = [m_type EXCEPT ![x] = type]

\* Faulty variants of the three definitions below.
ClearBitAlways(bitmap, type, rest) == bitmap \ {type}
NoneGranted(granted, waiting) == granted = {}
CountDown(k, type, n) == IF type \in HogTypes(k) THEN n + 1 ELSE n - 1

\* MDL_lock::Ticket_list::clear_bit_if_not_in_list, for a list that now has
\* the tickets rest.
ClearBit(bitmap, type, rest) ==
  IF \E x \in rest : m_type[x] = type THEN bitmap ELSE bitmap \ {type}

\* I_P_List::remove
Drop(s, x) == RemoveAt(s, CHOOSE i \in DOMAIN s : s[i] = x)

AddGranted(k, x, type) ==
  /\ m_granted' = [m_granted EXCEPT ![k] = @ \cup {x}]
  /\ granted_bitmap' = [granted_bitmap EXCEPT ![k] = @ \cup {type}]

\* MDL_lock::is_empty
IsEmpty(granted, waiting) == granted = {} /\ waiting = <<>>

\* m_hog_lock_count after a waiting request of the given type is granted.
CountHog(k, type, n) == IF type \in HogTypes(k) THEN n + 1 ELSE n
-----------------------------------------------------------------------------
(* MDL_context::acquire_lock, try_acquire_lock and clone_ticket *)

\* A request of context c that find_ticket does not satisfy; u is the ticket
\* to upgrade, or NULL.
MayRequest(c, k, type) ==
  /\ pc[c] = "idle"
  /\ ~HasTicket(c, k, type)
  /\ FreeTickets(c) # {}
  /\ m_rwlock[k] = NULL

\* try_acquire_lock_impl grants the request at once.
GrantAtOnce(c, k, type, u) ==
  LET x == NewTicket(c) IN
    /\ MayRequest(c, k, type)
    /\ CanGrant(k, type, c, FALSE)
    /\ Create(x, k, type)
    /\ AddGranted(k, x, type)
    /\ m_tickets' = [m_tickets EXCEPT ![c] = @ \cup {x}]
    /\ Goto(c, IF u = NULL THEN "idle" ELSE "merge")
    /\ ticket' = [ticket EXCEPT ![c] = IF u = NULL THEN NULL ELSE x]
    /\ upgraded' = [upgraded EXCEPT ![c] = u]
    /\ UNCHANGED <<m_waiting, waiting_bitmap, m_hog_lock_count, loop,
                   m_wait_status, m_waiting_for>>

\* acquire_lock adds the ticket to the waiting queue and opens the wait slot,
\* both under m_rwlock.  (try_acquire_lock gives up and changes nothing.)
Enqueue(c, k, type, u) ==
  LET x == NewTicket(c) IN
    /\ MayRequest(c, k, type)
    /\ ~CanGrant(k, type, c, FALSE)
    /\ Create(x, k, type)
    /\ m_waiting' = [m_waiting EXCEPT ![k] = Append(@, x)]
    /\ waiting_bitmap' = [waiting_bitmap EXCEPT ![k] = @ \cup {type}]
    /\ m_wait_status' = [m_wait_status EXCEPT ![c] = "EMPTY"]
    /\ Goto(c, "queued")
    /\ ticket' = [ticket EXCEPT ![c] = x]
    /\ upgraded' = [upgraded EXCEPT ![c] = u]
    /\ UNCHANGED <<m_tickets, m_granted, granted_bitmap, m_hog_lock_count,
                   loop, m_waiting_for>>

\* find_ticket has found a ticket for the request, of another or of explicit
\* duration: clone_ticket grants another one to the context.
CloneTicket(c, k, type) ==
  LET x == NewTicket(c) IN
    /\ pc[c] = "idle"
    /\ HasTicket(c, k, type)
    /\ FreeTickets(c) # {}
    /\ m_rwlock[k] = NULL
    /\ Create(x, k, type)
    /\ AddGranted(k, x, type)
    /\ m_tickets' = [m_tickets EXCEPT ![c] = @ \cup {x}]
    /\ UNCHANGED <<m_waiting, waiting_bitmap, m_hog_lock_count, loop,
                   m_wait_status, m_waiting_for, locals>>

\* acquire_lock tells the deadlock detector what the context waits for.
WillWaitFor(c) ==
  /\ pc[c] = "queued"
  /\ m_waiting_for' = [m_waiting_for EXCEPT ![c] = ticket[c]]
  /\ Goto(c, "search")
  /\ UNCHANGED <<tickets, queues, m_hog_lock_count, loop, m_wait_status,
                 ticket, upgraded>>

\* Faulty variants of the two definitions below.
Overwrite(c, status) ==
  m_wait_status' = [m_wait_status EXCEPT ![c] = status]
WaitKilled(c) == m_wait_status[c] = "KILLED"

\* acquire_lock has to give up: the wait ended with another status.
WaitFailed(c) == m_wait_status[c] # "GRANTED"

\* MDL_wait::set_status: a slot that is not empty keeps its value.
SetStatus(c, status) ==
  m_wait_status' = [m_wait_status EXCEPT
                      ![c] = IF @ = "EMPTY" THEN status ELSE @]

\* A round of find_deadlock has found a loop and chosen context v, which
\* waits: its m_LOCK_waiting_for is kept read-locked as long as needed.
ChooseVictim(c, v) ==
  /\ pc[c] = "search"
  /\ m_waiting_for[v] # NULL
  /\ SetStatus(v, "VICTIM")
  /\ Goto(c, IF v = c THEN "wait" ELSE "search")
  /\ UNCHANGED <<tickets, queues, m_hog_lock_count, loop, m_waiting_for,
                 ticket, upgraded>>

\* A round of find_deadlock has found nothing.
NoDeadlockFound(c) ==
  /\ pc[c] = "search"
  /\ Goto(c, "wait")
  /\ UNCHANGED <<tickets, queues, m_hog_lock_count, loop, m_wait_status,
                 m_waiting_for, ticket, upgraded>>

\* timed_wait: woken up by a status, or KILL or a timeout closes the slot.
WakeUp(c) ==
  /\ pc[c] = "wait"
  /\ m_wait_status[c] # "EMPTY"
  /\ Goto(c, "done")
  /\ UNCHANGED <<tickets, queues, m_hog_lock_count, loop, m_wait_status,
                 m_waiting_for, ticket, upgraded>>

AbortWait(c, status) ==
  /\ pc[c] = "wait"
  /\ m_wait_status[c] = "EMPTY"
  /\ m_wait_status' = [m_wait_status EXCEPT ![c] = status]
  /\ Goto(c, "done")
  /\ UNCHANGED <<tickets, queues, m_hog_lock_count, loop, m_waiting_for,
                 ticket, upgraded>>

\* done_waiting_for, and what acquire_lock does with a granted ticket.
DoneWaitingFor(c) ==
  /\ pc[c] = "done"
  /\ m_waiting_for' = [m_waiting_for EXCEPT ![c] = NULL]
  /\ IF WaitFailed(c)
     THEN Goto(c, "cancel") /\ UNCHANGED <<m_tickets, ticket>>
     ELSE /\ m_tickets' = [m_tickets EXCEPT ![c] = @ \cup {ticket[c]}]
          /\ IF upgraded[c] # NULL
             THEN Goto(c, "merge") /\ UNCHANGED ticket
             ELSE Goto(c, "idle") /\ ticket' = [ticket EXCEPT ![c] = NULL]
  /\ UNCHANGED <<m_lock, m_type, queues, m_hog_lock_count, loop,
                 m_wait_status, upgraded>>
-----------------------------------------------------------------------------
(* MDL_lock::reschedule_waiters *)

\* It is time to give way to low priority requests.
TooManyHogs(k) == m_hog_lock_count[k] >= MaxWriteLockCount

\* There are low priority requests among types.
WeakPending(k, types) == types \ HogTypes(k) # {}

\* Context c enters reschedule_waiters of k for the waiters w and their
\* bitmap types.
StartReschedule(c, k, w, types) ==
  /\ m_rwlock' = [m_rwlock EXCEPT ![k] = c]
  /\ it' = [it EXCEPT ![k] = w]
  /\ skip_high_priority' = [skip_high_priority EXCEPT ![k] =
       TooManyHogs(k) /\ WeakPending(k, types)]
  /\ Goto(c, "resched")

\* The waiter that is next in the iteration gets the lock.
Grantable(k, x) ==
  /\ ~(skip_high_priority[k] /\ m_type[x] \in HogTypes(k))
  /\ CanGrant(k, m_type[x], CtxOf(x), skip_high_priority[k])
  /\ m_wait_status[CtxOf(x)] = "EMPTY"

RescheduleGrant(c, k) ==
  LET x == Head(it[k]) IN
    /\ m_rwlock[k] = c
    /\ it[k] # <<>>
    /\ Grantable(k, x)
    /\ SetStatus(CtxOf(x), "GRANTED")
    /\ m_waiting' = [m_waiting EXCEPT ![k] = Drop(@, x)]
    /\ waiting_bitmap' = [waiting_bitmap EXCEPT
         ![k] = ClearBit(@, m_type[x], ToSet(Drop(m_waiting[k], x)))]
    /\ AddGranted(k, x, m_type[x])
    /\ m_hog_lock_count' = [m_hog_lock_count EXCEPT
         ![k] = CountHog(k, m_type[x], @)]
    /\ it' = [it EXCEPT ![k] = Tail(@)]
    /\ UNCHANGED <<tickets, m_rwlock, skip_high_priority, m_waiting_for,
                   locals>>

ReschedulePass(c, k) ==
  /\ m_rwlock[k] = c
  /\ it[k] # <<>>
  /\ ~Grantable(k, Head(it[k]))
  /\ it' = [it EXCEPT ![k] = Tail(@)]
  /\ UNCHANGED <<tickets, queues, m_hog_lock_count, m_rwlock,
                 skip_high_priority, m_wait_status, m_waiting_for, locals>>

\* The operation is over; a ticket that has left the lock is destroyed.
Finish(c, destroyed) ==
  /\ m_lock' = [x \in Ticket |-> IF x \in destroyed THEN NULL ELSE m_lock[x]]
  /\ m_type' = [x \in Ticket |-> IF x \in destroyed THEN NULL ELSE m_type[x]]
  /\ m_tickets' = [m_tickets EXCEPT ![c] = @ \ destroyed]
  /\ Goto(c, "idle")
  /\ ticket' = [ticket EXCEPT ![c] = NULL]
  /\ upgraded' = [upgraded EXCEPT ![c] = NULL]

RescheduleEnd(c, k) ==
  /\ m_rwlock[k] = c
  /\ it[k] = <<>>
  /\ m_hog_lock_count' = [m_hog_lock_count EXCEPT
       ![k] = IF WeakPending(k, waiting_bitmap[k]) THEN @ ELSE 0]
  /\ m_rwlock' = [m_rwlock EXCEPT ![k] = NULL]
  /\ skip_high_priority' = [skip_high_priority EXCEPT ![k] = FALSE]
  /\ Finish(c, {ticket[c]} \ m_granted[k])
  /\ UNCHANGED <<queues, it, m_wait_status, m_waiting_for>>
-----------------------------------------------------------------------------
(* MDL_lock::remove_ticket and its callers, downgrade and upgrade *)

\* After the ticket has left its queue: the empty lock goes to MDL_map::remove
\* (where the object may be kept with its m_hog_lock_count, or freed);
\* otherwise the waiters are rescheduled.
AfterRemoval(c, k, x, granted, waiting, types) ==
  IF IsEmpty(granted, waiting)
  THEN /\ m_hog_lock_count' \in
            {m_hog_lock_count, [m_hog_lock_count EXCEPT ![k] = 0]}
       /\ Finish(c, {x})
       /\ UNCHANGED loop
  ELSE /\ StartReschedule(c, k, waiting, types)
       /\ ticket' = [ticket EXCEPT ![c] = x]
       /\ UNCHANGED <<tickets, m_hog_lock_count, upgraded>>

ReleaseLock(c, x) ==
  LET k == m_lock[x] IN
    /\ pc[c] = "idle"
    /\ x \in m_tickets[c]
    /\ m_rwlock[k] = NULL
    /\ m_granted' = [m_granted EXCEPT ![k] = @ \ {x}]
    /\ granted_bitmap' = [granted_bitmap EXCEPT
         ![k] = ClearBit(@, m_type[x], m_granted[k] \ {x})]
    /\ AfterRemoval(c, k, x, m_granted[k] \ {x}, m_waiting[k],
                    waiting_bitmap[k])
    /\ UNCHANGED <<m_waiting, waiting_bitmap, m_wait_status, m_waiting_for>>

\* acquire_lock after a failed wait.  A failed upgrade leaves the original
\* ticket as it was.
CancelWait(c) ==
  LET x == ticket[c]
      k == m_lock[x]
      rest == Drop(m_waiting[k], x)
      types == ClearBit(waiting_bitmap[k], m_type[x], ToSet(rest))
  IN
    /\ pc[c] = "cancel"
    /\ m_rwlock[k] = NULL
    /\ m_waiting' = [m_waiting EXCEPT ![k] = rest]
    /\ waiting_bitmap' = [waiting_bitmap EXCEPT ![k] = types]
    /\ AfterRemoval(c, k, x, m_granted[k], rest, types)
    /\ UNCHANGED <<m_granted, granted_bitmap, m_wait_status, m_waiting_for>>

\* MDL_ticket::downgrade_exclusive_lock: out of the queue, a new type, into
\* the queue again, then the waiters.
Downgrade(c, x, type) ==
  LET k == m_lock[x] IN
    /\ pc[c] = "idle"
    /\ x \in m_tickets[c]
    /\ k \in ObjectKey
    /\ m_type[x] = "X"
    /\ m_rwlock[k] = NULL
    /\ m_type' = [m_type EXCEPT ![x] = type]
    /\ granted_bitmap' = [granted_bitmap EXCEPT
         ![k] = ClearBit(@, "X", m_granted[k] \ {x}) \cup {type}]
    /\ StartReschedule(c, k, m_waiting[k], waiting_bitmap[k])
    /\ ticket' = [ticket EXCEPT ![c] = x]
    /\ UNCHANGED <<m_lock, m_tickets, m_granted, m_waiting, waiting_bitmap,
                   m_hog_lock_count, m_wait_status, m_waiting_for, upgraded>>

\* upgrade_shared_lock_to_exclusive when the context has an X lock on the key
\* already: acquire_lock returns that ticket.
UpgradeOwnX(c, x) ==
  /\ pc[c] = "idle"
  /\ x \in m_tickets[c]
  /\ m_type[x] \in UpgradableType
  /\ HasTicket(c, m_lock[x], "X")
  /\ Goto(c, "merge")
  /\ upgraded' = [upgraded EXCEPT ![c] = x]
  /\ UNCHANGED <<tickets, queues, m_hog_lock_count, loop, m_wait_status,
                 m_waiting_for, ticket>>

\* The first step of an upgrade in all other cases.
Upgrade(c, x) ==
  /\ x \in m_tickets[c]
  /\ m_type[x] \in UpgradableType
  /\ \/ GrantAtOnce(c, m_lock[x], "X", x)
     \/ Enqueue(c, m_lock[x], "X", x)

\* The acquired X ticket, if it is a new one, is merged into the original.
Merge(c) ==
  LET u == upgraded[c]
      k == m_lock[u]
      new == {ticket[c]} \ {NULL}
      rest == m_granted[k] \ (new \cup {u})
  IN
    /\ pc[c] = "merge"
    /\ m_rwlock[k] = NULL
    /\ m_granted' = [m_granted EXCEPT ![k] = rest \cup {u}]
    /\ granted_bitmap' = [granted_bitmap EXCEPT
         ![k] = ClearBit(ClearBit(@, "X", rest \cup {u}), m_type[u], rest)
                \cup {"X"}]
    /\ m_lock' = [x \in Ticket |-> IF x \in new THEN NULL ELSE m_lock[x]]
    /\ m_type' = [x \in Ticket |-> IF x \in new THEN NULL
                                   ELSE IF x = u THEN "X" ELSE m_type[x]]
    /\ m_tickets' = [m_tickets EXCEPT ![c] = @ \ new]
    /\ Goto(c, "idle")
    /\ ticket' = [ticket EXCEPT ![c] = NULL]
    /\ upgraded' = [upgraded EXCEPT ![c] = NULL]
    /\ UNCHANGED <<m_waiting, waiting_bitmap, m_hog_lock_count, loop,
                   m_wait_status, m_waiting_for>>
-----------------------------------------------------------------------------
\* Requests, releases and changes of type that a connection decides upon.
Decide(c) ==
  \/ \E r \in Requests :
       \/ GrantAtOnce(c, r[1], r[2], NULL)
       \/ Enqueue(c, r[1], r[2], NULL)
       \/ CloneTicket(c, r[1], r[2])
  \/ \E x \in m_tickets[c] :
       \/ ReleaseLock(c, x)
       \/ Upgrade(c, x)
       \/ UpgradeOwnX(c, x)
       \/ \E type \in DowngradeTypes : Downgrade(c, x, type)

\* The further course of an operation, except for its wait.
Proceed(c) ==
  \/ WillWaitFor(c)
  \/ DoneWaitingFor(c)
  \/ CancelWait(c)
  \/ Merge(c)
  \/ \E k \in Key : RescheduleGrant(c, k) \/ ReschedulePass(c, k)
                    \/ RescheduleEnd(c, k)

Next ==
  \E c \in Ctx :
    \/ Decide(c)
    \/ Proceed(c)
    \/ WakeUp(c)
    \/ NoDeadlockFound(c)
    \/ \E v \in Ctx : ChooseVictim(c, v)
    \/ \E status \in AbortStatus : AbortWait(c, status)

Spec == Init /\ [][Next]_vars
-----------------------------------------------------------------------------
TypeOK ==
  /\ m_lock \in [Ticket -> Key \cup {NULL}]
  /\ m_type \in [Ticket -> MDLType \cup {NULL}]
  /\ m_granted \in [Key -> SUBSET Ticket]
  /\ granted_bitmap \in [Key -> SUBSET MDLType]
  /\ m_waiting \in [Key -> Seq(Ticket)]
  /\ waiting_bitmap \in [Key -> SUBSET MDLType]
  /\ m_hog_lock_count \in [Key -> Nat]
  /\ m_rwlock \in [Key -> Ctx \cup {NULL}]
  /\ it \in [Key -> Seq(Ticket)]
  /\ skip_high_priority \in [Key -> BOOLEAN]
  /\ m_wait_status \in [Ctx -> WaitStatus]
  /\ m_waiting_for \in [Ctx -> Ticket \cup {NULL}]
  /\ m_tickets \in [Ctx -> SUBSET Ticket]
  /\ pc \in [Ctx -> PC]
  /\ ticket \in [Ctx -> Ticket \cup {NULL}]
  /\ upgraded \in [Ctx -> Ticket \cup {NULL}]

\* The point of it all: two connections never hold incompatible locks on the
\* same object, whatever path (grant at once, reschedule_waiters, upgrade,
\* downgrade, clone) led there.
GrantedCompatible ==
  \A k \in Key : \A x, y \in m_granted[k] :
    CtxOf(x) # CtxOf(y) => m_type[x] \notin GrantedIncompatible(k, m_type[y])

\* The bitmaps are the types in the lists, across changes of a ticket's type:
\* can_grant_lock trusts them.
BitmapsExact ==
  \A k \in Key :
    /\ granted_bitmap[k] = {m_type[x] : x \in m_granted[k]}
    /\ waiting_bitmap[k] = {m_type[x] : x \in ToSet(m_waiting[k])}

\* A wait ends in agreement with the lock: the slot says GRANTED if and only
\* if the ticket has moved to m_granted, so that acquire_lock never returns
\* success without the lock, nor failure with it.
SlotMatchesQueue ==
  \A c \in Ctx : pc[c] \in {"queued", "search", "wait", "done", "cancel"} =>
    LET k == m_lock[ticket[c]] IN
      IF m_wait_status[c] = "GRANTED"
      THEN ticket[c] \in m_granted[k] /\ ticket[c] \notin ToSet(m_waiting[k])
      ELSE ticket[c] \notin m_granted[k] /\ ticket[c] \in ToSet(m_waiting[k])

\* No ticket is left behind: whatever is granted belongs to a context that
\* knows of it and will release it, whatever waits belongs to a context that
\* is in acquire_lock.
NoOrphanTicket ==
  \A k \in Key :
    /\ \A x \in m_granted[k] :
         \/ x \in m_tickets[CtxOf(x)]
         \/ ticket[CtxOf(x)] = x /\ m_wait_status[CtxOf(x)] = "GRANTED"
    /\ \A x \in ToSet(m_waiting[k]) :
         /\ ticket[CtxOf(x)] = x
         /\ pc[CtxOf(x)] \in {"queued", "search", "wait", "done", "cancel"}
    /\ \A x \in Ticket : x \in m_granted[k] => x \notin ToSet(m_waiting[k])

\* "There can be only one upgrader for a lock or we will have deadlock."
OneUpgrader ==
  \A c, d \in Ctx :
    (c # d /\ upgraded[c] # NULL /\ upgraded[d] # NULL)
      => m_lock[upgraded[c]] # m_lock[upgraded[d]]

Waiters(k) == {x \in ToSet(m_waiting[k]) : m_wait_status[CtxOf(x)] = "EMPTY"}

\* The edges of the wait-for graph that leave the waiting ticket x.
Blockers(k, x) ==
  {CtxOf(y) : y \in {z \in m_granted[k] :
                       m_type[z] \in GrantedIncompatible(k, m_type[x])}}
  \cup
  {CtxOf(y) : y \in {z \in ToSet(m_waiting[k]) :
                       m_type[z] \in WaitingIncompatible(k, m_type[x])}}

\* Somebody's ticket on the lock of k, granted or waiting, keeps request x
\* from being granted or will call reschedule_waiters when it goes away.  The
\* granted ticket may be compatible with x: reschedule_waiters passes over SNW
\* in favour of SR, and does not look at it again when SR has been granted.
HasReason(k, x) ==
  \/ \E y \in m_granted[k] : CtxOf(y) # CtxOf(x)
  \/ ToSet(m_waiting[k]) # Waiters(k)
  \/ Blockers(k, x) \ {CtxOf(x)} # {}

\* Nobody waits for nothing, as long as reschedule_waiters has not passed over
\* requests of high priority.
NoForgottenWaiter ==
  \A k \in Key :
    (m_rwlock[k] = NULL /\ m_hog_lock_count[k] < MaxWriteLockCount)
      => \A x \in Waiters(k) : HasReason(k, x)

\* "it is not an issue if we fail to wake up any pending waiters for weak
\* locks in the loop below. This would mean that all of them are either
\* killed, timed out or chosen as a victim": nobody waits for nothing after
\* requests of high priority have been passed over, either.
PassedOverWaiterHasReason ==
  \A k \in Key : m_rwlock[k] = NULL =>
    \A x \in Waiters(k) : HasReason(k, x)

\* "these lock types [...] are only granted max_write_lock_count times in a
\* row while other lock types are waiting"
HogsGiveWay ==
  \A k \in Key :
    m_rwlock[k] = NULL => m_hog_lock_count[k] <= MaxWriteLockCount

\* What can_grant_lock decides by agrees with the queues: the bitmaps hold
\* exactly the types that are granted and waiting, at most one context
\* upgrades a lock on a table, and the count of consecutive strong grants
\* stays below its limit.
QueuesConsistent == BitmapsExact /\ OneUpgrader /\ HogsGiveWay

\* "m_hog_lock_count is correctly reset after strong lock is released and
\* weak locks are granted (or there are no other lock requests)".
HogCountReset ==
  \A k \in Key :
    IsEmpty(m_granted[k], m_waiting[k]) => m_hog_lock_count[k] = 0
=============================================================================
