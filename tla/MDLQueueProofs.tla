--------------------------- MODULE MDLQueueProofs ---------------------------
(***************************************************************************)
(* What can_grant_lock decides by is right for any set of contexts, keys,  *)
(* tickets and requests: the bitmaps are exact, a lock has one upgrader at *)
(* most, strong requests give way after max_write_lock_count grants, and   *)
(* nobody waits for nothing.                                               *)
(*                                                                         *)
(* The parts rest on the inductive invariant of MDLProofs, which says      *)
(* where every ticket is.  Each is about one lock or about one context,    *)
(* and a step of the protocol concerns at most one lock and one context.   *)
(***************************************************************************)
EXTENDS MDLProofs

\* Every bit of a bitmap stands for a ticket of the list, and every waiting
\* ticket has its bit (BitmapCovers says the same of the granted ones).
GrantedBits(k) ==
  \A b \in granted_bitmap[k] : \E x \in m_granted[k] : m_type[x] = b

WaitingBits(k) ==
  /\ \A b \in waiting_bitmap[k] : \E x \in ToSet(m_waiting[k]) : m_type[x] = b
  /\ \A x \in ToSet(m_waiting[k]) : m_type[x] \in waiting_bitmap[k]

\* A strong lock has been granted, and none of the waiters that are still to
\* be visited belongs to its context.
HogGranted(k) ==
  \E x \in m_granted[k] :
    /\ m_type[x] \in HogTypes(k)
    /\ \A y \in ToSet(it[k]) : CtxOf(y) # CtxOf(x)

\* The count may pass its limit within reschedule_waiters, if no weak request
\* waits: it is reset at the end then.  Otherwise the loop grants one strong
\* request at most, and only if the limit was not reached at its start.
HogCount(k) ==
  /\ (m_rwlock[k] = NULL \/ skip_high_priority[k]) =>
       m_hog_lock_count[k] <= MaxWriteLockCount
  /\ (/\ m_rwlock[k] # NULL
      /\ ~skip_high_priority[k]
      /\ WeakPending(k, waiting_bitmap[k])) =>
       \/ m_hog_lock_count[k] < MaxWriteLockCount
       \/ m_hog_lock_count[k] = MaxWriteLockCount /\ HogGranted(k)

\* What keeps request x from being granted, or makes somebody reschedule the
\* waiters of k before it is forgotten: a lock of another context, a waiter
\* whose slot is closed (x itself, perhaps), or a waiter that has priority.
Reason(k, x) ==
  \/ \E y \in m_granted[k] : CtxOf(y) # CtxOf(x)
  \/ \E y \in ToSet(m_waiting[k]) : m_wait_status[CtxOf(y)] # "EMPTY"
  \/ \E y \in ToSet(m_waiting[k]) :
       CtxOf(y) # CtxOf(x) /\ m_type[y] \in WaitingIncompatible(k, m_type[x])

\* Every waiter has been looked at since its reason went away, except those
\* that reschedule_waiters has yet to visit, or has passed over in favour of
\* weak requests.  In the latter case a weak request is granted or the count
\* stays at its limit.
Attended(k) ==
  /\ (m_rwlock[k] = NULL /\ m_hog_lock_count[k] < MaxWriteLockCount) =>
       \A x \in ToSet(m_waiting[k]) : Reason(k, x)
  /\ (m_rwlock[k] # NULL /\ ~skip_high_priority[k]) =>
       \A x \in ToSet(m_waiting[k]) \ ToSet(it[k]) : Reason(k, x)
  /\ (m_rwlock[k] # NULL /\ skip_high_priority[k]) =>
       /\ m_hog_lock_count[k] >= MaxWriteLockCount
       /\ \/ WeakPending(k, waiting_bitmap[k])
          \/ \A x \in ToSet(m_waiting[k]) :
               \E y \in m_granted[k] : CtxOf(y) # CtxOf(x)

KeyInv(k) ==
  GrantedBits(k) /\ WaitingBits(k) /\ HogCount(k) /\ Attended(k)

\* The ticket being upgraded is one of the context's own, of a type that only
\* one context can have, and is not the new ticket.
UpgraderOf(c) ==
  upgraded[c] # NULL =>
    /\ upgraded[c] \in m_tickets[c]
    /\ m_type[upgraded[c]] \in UpgradableType
    /\ upgraded[c] # ticket[c]

QInv == (\A k \in Key : KeyInv(k)) /\ (\A c \in Ctx : UpgraderOf(c))
-----------------------------------------------------------------------------
(* What leaves a lock or a context alone *)

SameLists(k) ==
  /\ m_granted'[k] = m_granted[k] /\ granted_bitmap'[k] = granted_bitmap[k]
  /\ m_waiting'[k] = m_waiting[k] /\ waiting_bitmap'[k] = waiting_bitmap[k]
  /\ \A x \in m_granted[k] : m_type'[x] = m_type[x]
  /\ \A x \in ToSet(m_waiting[k]) : m_type'[x] = m_type[x]

SameCount(k) ==
  /\ m_hog_lock_count'[k] = m_hog_lock_count[k]
  /\ m_rwlock'[k] = m_rwlock[k] /\ it'[k] = it[k]
  /\ skip_high_priority'[k] = skip_high_priority[k]

\* No wait slot of a waiter of k is opened.
SlotsClose(k) ==
  \A y \in ToSet(m_waiting[k]) :
    m_wait_status[CtxOf(y)] # "EMPTY" => m_wait_status'[CtxOf(y)] # "EMPTY"

\* Contexts that hold the lock of k go on holding it, and a waiter goes on
\* waiting or gets the lock with its slot open.
KeepsReasons(k) ==
  /\ SlotsClose(k)
  /\ \A y \in m_granted[k] : \E z \in m_granted'[k] : CtxOf(z) = CtxOf(y)
  /\ \A y \in ToSet(m_waiting[k]) :
       /\ m_type'[y] = m_type[y]
       /\ \/ y \in ToSet(m_waiting'[k])
          \/ y \in m_granted'[k] /\ m_wait_status[CtxOf(y)] = "EMPTY"

\* A request that waits has its reason as long as the holders stay and the
\* waiters wait or are granted.
LEMMA ReasonKept ==
  ASSUME NEW k \in Key, NEW x \in ToSet(m_waiting[k]), Reason(k, x),
         KeepsReasons(k)
  PROVE  Reason(k, x)'
<1>0. m_type'[x] = m_type[x]
  BY DEF KeepsReasons
<1>1. ASSUME NEW y \in m_granted[k], CtxOf(y) # CtxOf(x) PROVE Reason(k, x)'
  <2>1. PICK z \in m_granted'[k] : CtxOf(z) = CtxOf(y)
    BY DEF KeepsReasons
  <2> QED
    BY <1>1, <2>1 DEF Reason
<1>2. ASSUME NEW y \in ToSet(m_waiting[k]), m_wait_status[CtxOf(y)] # "EMPTY"
      PROVE  Reason(k, x)'
  <2>1. y \in ToSet(m_waiting'[k]) /\ m_wait_status'[CtxOf(y)] # "EMPTY"
    BY <1>2 DEF KeepsReasons, SlotsClose
  <2> QED
    BY <2>1 DEF Reason
<1>3. ASSUME NEW y \in ToSet(m_waiting[k]), CtxOf(y) # CtxOf(x),
             m_type[y] \in WaitingIncompatible(k, m_type[x])
      PROVE  Reason(k, x)'
  <2>1. m_type'[y] \in WaitingIncompatible(k, m_type'[x])
    BY <1>0, <1>3 DEF KeepsReasons
  <2>2. y \in ToSet(m_waiting'[k]) \/ y \in m_granted'[k]
    BY DEF KeepsReasons
  <2> QED
    BY <1>3, <2>1, <2>2 DEF Reason
<1> QED
  BY <1>1, <1>2, <1>3 DEF Reason

\* Whoever was attended to still is, when the queue and the loop are as before.
LEMMA AttendedFrame ==
  ASSUME NEW k \in Key, Attended(k), KeepsReasons(k), SameCount(k),
         m_waiting'[k] = m_waiting[k], waiting_bitmap'[k] = waiting_bitmap[k]
  PROVE  Attended(k)'
<1>1. \A x \in ToSet(m_waiting[k]) : Reason(k, x) => Reason(k, x)'
  BY ReasonKept
<1>2. ASSUME NEW x \in ToSet(m_waiting[k]), NEW y \in m_granted[k],
             CtxOf(y) # CtxOf(x)
      PROVE  \E z \in m_granted'[k] : CtxOf(z) # CtxOf(x)
  BY <1>2 DEF KeepsReasons
<1> QED
  BY <1>1, <1>2 DEF Attended, SameCount, WeakPending

\* Nothing has changed for the lock of k.
LEMMA KeyFrame ==
  ASSUME NEW k \in Key, KeyInv(k), SameLists(k), SameCount(k), SlotsClose(k)
  PROVE  KeyInv(k)'
<1>1. GrantedBits(k)'
  BY DEF KeyInv, GrantedBits, SameLists
<1>2. WaitingBits(k)'
  BY DEF KeyInv, WaitingBits, SameLists
<1>3. HogGranted(k) => HogGranted(k)'
  BY DEF HogGranted, SameLists, SameCount
<1>4. HogCount(k)'
  BY <1>3 DEF KeyInv, HogCount, SameLists, SameCount, WeakPending
<1>5. Attended(k)'
  BY AttendedFrame DEF KeyInv, SameLists, KeepsReasons
<1> QED
  BY <1>1, <1>2, <1>4, <1>5 DEF KeyInv

\* Nothing has changed for the upgrade of context c.
LEMMA UpgraderFrame ==
  ASSUME NEW c \in Ctx, UpgraderOf(c),
         upgraded'[c] = upgraded[c],
         upgraded[c] \in m_tickets[c] =>
           /\ upgraded[c] \in m_tickets'[c]
           /\ m_type'[upgraded[c]] = m_type[upgraded[c]]
           /\ ticket'[c] # upgraded[c] \/ ticket'[c] = ticket[c]
  PROVE  UpgraderOf(c)'
BY DEF UpgraderOf

\* Strong locks exclude one another.
LEMMA HogFacts ==
  ASSUME NEW k \in Key, NEW a \in HogTypes(k), NEW b \in HogTypes(k)
  PROVE  a \in GrantedIncompatible(k, b)
BY DEF HogTypes, ObjectHogTypes, GrantedIncompatible, ObjectGrantedIncompatible,
       ObjectType

\* A list without the ticket that leaves it, and its bitmap.
LEMMA ClearBitExact ==
  ASSUME NEW list, NEW bits, NEW x,
         \A b \in bits : \E y \in list : m_type[y] = b,
         \A y \in list : m_type[y] \in bits
  PROVE  LET now == ClearBit(bits, m_type[x], list \ {x})
         IN  /\ \A b \in now : \E y \in list \ {x} : m_type[y] = b
             /\ \A y \in list \ {x} : m_type[y] \in now
             /\ now \subseteq bits
<1>1. CASE \E y \in list \ {x} : m_type[y] = m_type[x]
  BY <1>1 DEF ClearBit
<1>2. CASE ~\E y \in list \ {x} : m_type[y] = m_type[x]
  BY <1>2 DEF ClearBit
<1> QED
  BY <1>1, <1>2

\* The count outside of the loop, and when a context enters it.
LEMMA HogCountIdle ==
  ASSUME NEW k \in Key, m_rwlock[k] = NULL, HogCount(k),
         m_rwlock'[k] = NULL,
         \/ m_hog_lock_count'[k] = m_hog_lock_count[k]
         \/ m_hog_lock_count'[k] = 0
  PROVE  HogCount(k)'
BY MDLAssumption DEF HogCount

\* The count is right when the loop of reschedule_waiters starts.
LEMMA HogCountStart ==
  ASSUME TypeOK, NEW c \in Ctx, NEW k \in Key, NEW w, NEW types,
         m_rwlock[k] = NULL, HogCount(k),
         StartReschedule(c, k, w, types), waiting_bitmap'[k] = types,
         m_hog_lock_count' = m_hog_lock_count
  PROVE  HogCount(k)'
<1>1. skip_high_priority'[k] <=> (TooManyHogs(k) /\ WeakPending(k, types))
  <2>1. skip_high_priority' = [skip_high_priority EXCEPT ![k] =
          TooManyHogs(k) /\ WeakPending(k, types)]
    BY DEF StartReschedule
  <2> QED
    BY <2>1, Zenon DEF TypeOK
<1>2. m_hog_lock_count[k] <= MaxWriteLockCount /\ m_hog_lock_count[k] \in Nat
  BY DEF HogCount, TypeOK
<1>3. skip_high_priority'[k] \/ ~WeakPending(k, types) \/ ~TooManyHogs(k)
  BY <1>1, Zenon
<1>4. WeakPending(k, waiting_bitmap[k])' <=> WeakPending(k, types)
  BY DEF WeakPending
<1>5. ~TooManyHogs(k) => m_hog_lock_count[k] < MaxWriteLockCount
  BY <1>2, MDLAssumption DEF TooManyHogs
<1> QED
  BY <1>2, <1>3, <1>4, <1>5 DEF HogCount

\* All waiters are to be visited when the loop of reschedule_waiters starts.
LEMMA AttendedStart ==
  ASSUME TypeOK, NEW c \in Ctx, NEW k \in Key,
         StartReschedule(c, k, m_waiting'[k], waiting_bitmap'[k]),
         m_hog_lock_count' = m_hog_lock_count
  PROVE  Attended(k)'
<1>1. /\ m_rwlock'[k] = c /\ it'[k] = m_waiting'[k]
      /\ skip_high_priority'[k] <=>
           (TooManyHogs(k) /\ WeakPending(k, waiting_bitmap'[k]))
  <2>1. m_rwlock'[k] = c /\ it'[k] = m_waiting'[k]
    BY DEF StartReschedule, TypeOK
  <2>2. skip_high_priority' = [skip_high_priority EXCEPT ![k] =
          TooManyHogs(k) /\ WeakPending(k, waiting_bitmap'[k])]
    BY DEF StartReschedule
  <2>3. skip_high_priority'[k] <=>
          (TooManyHogs(k) /\ WeakPending(k, waiting_bitmap'[k]))
    BY <2>2, Zenon DEF TypeOK
  <2> QED
    BY <2>1, <2>3
<1>2. skip_high_priority'[k] => /\ m_hog_lock_count'[k] >= MaxWriteLockCount
                                /\ WeakPending(k, waiting_bitmap[k])'
  BY <1>1 DEF TooManyHogs, WeakPending
<1> QED
  BY <1>1, <1>2, Values DEF Attended

\* A type has no priority over itself.
LEMMA NoOwnPriority ==
  ASSUME NEW k \in Key, NEW type PROVE type \notin WaitingIncompatible(k, type)
BY DEF WaitingIncompatible, ObjectWaitingIncompatible, ScopedWaitingIncompatible

\* can_grant_lock refuses only what has a reason to wait.
LEMMA RefusedForReason ==
  ASSUME IInv, NEW k \in Key, WaitingBits(k), NEW type, NEW c \in Ctx,
         ~CanGrant(k, type, c, FALSE)
  PROVE  \/ \E y \in m_granted[k] : CtxOf(y) # c
         \/ \E y \in ToSet(m_waiting[k]) :
              m_type[y] # type /\ m_type[y] \in WaitingIncompatible(k, type)
<1>1. ASSUME NEW b \in waiting_bitmap[k], b \in WaitingIncompatible(k, type)
      PROVE  \E y \in ToSet(m_waiting[k]) :
               m_type[y] # type /\ m_type[y] \in WaitingIncompatible(k, type)
  <2>1. PICK y \in ToSet(m_waiting[k]) : m_type[y] = b
    BY DEF WaitingBits
  <2> QED
    BY <1>1, <2>1, NoOwnPriority
<1> QED
  BY <1>1 DEF CanGrant
-----------------------------------------------------------------------------
(* One lemma per operation *)

\* try_acquire_lock_impl and clone_ticket: a new ticket in m_granted.
LEMMA GrantQ ==
  ASSUME IInv, IInv', QInv, NEW c \in Ctx, NEW k \in Key, NEW type,
         FreeTickets(c) # {}, m_rwlock[k] = NULL,
         Create(NewTicket(c), k, type), AddGranted(k, NewTicket(c), type),
         UNCHANGED <<m_waiting, waiting_bitmap, m_hog_lock_count, loop,
                     m_wait_status>>
  PROVE  /\ \A j \in Key : KeyInv(j)'
         /\ \A d \in Ctx : \A y \in m_tickets[d] : m_type'[y] = m_type[y]
<1> DEFINE x == NewTicket(c)
<1>1. /\ x \in Ticket
      /\ \A j \in Key : x \notin m_granted[j] /\ x \notin ToSet(m_waiting[j])
      /\ \A d \in Ctx : x \notin m_tickets[d]
  BY NewTicketFacts, FreeTicketUnlisted
<1>2. m_type'[x] = type /\ \A y \in Ticket : y # x => m_type'[y] = m_type[y]
  BY <1>1 DEF Create, IInv, TypeOK
<1>3. \A j \in Key : /\ m_granted[j] \subseteq Ticket
                     /\ ToSet(m_waiting[j]) \subseteq Ticket
  BY ListFacts
<1>4. /\ m_granted'[k] = m_granted[k] \cup {x}
      /\ granted_bitmap'[k] = granted_bitmap[k] \cup {type}
      /\ \A j \in Key \ {k} : /\ m_granted'[j] = m_granted[j]
                              /\ granted_bitmap'[j] = granted_bitmap[j]
  BY DEF AddGranted, IInv, TypeOK
<1> HIDE DEF x
<1>5. /\ \A j \in Key : \A y \in m_granted[j] : m_type'[y] = m_type[y]
      /\ \A j \in Key : \A y \in ToSet(m_waiting[j]) : m_type'[y] = m_type[y]
  BY <1>1, <1>2, <1>3
<1>6. ASSUME NEW j \in Key, j # k PROVE KeyInv(j)'
  <2>1. SameLists(j)
    BY <1>4, <1>5, <1>6 DEF SameLists
  <2>2. SameCount(j) /\ SlotsClose(j)
    BY DEF SameCount, SlotsClose, loop
  <2> QED
    BY <2>1, <2>2, KeyFrame DEF QInv
<1>7. GrantedBits(k)'
  BY <1>2, <1>4, <1>5 DEF QInv, KeyInv, GrantedBits
<1>8. WaitingBits(k)'
  BY <1>5 DEF QInv, KeyInv, WaitingBits
<1>9. HogCount(k)'
  BY HogCountIdle DEF QInv, KeyInv, loop
<1>10. ASSUME NEW d \in Ctx, NEW y \in m_tickets[d] PROVE m_type'[y] = m_type[y]
  BY <1>1, <1>2 DEF IInv, TypeOK
<1>11. Attended(k)'
  <2>1. KeepsReasons(k)
    BY <1>4, <1>5 DEF KeepsReasons, SlotsClose
  <2>2. SameCount(k)
    BY DEF SameCount, loop
  <2> QED
    BY <2>1, <2>2, AttendedFrame DEF QInv, KeyInv
<1> QED
  BY <1>6, <1>7, <1>8, <1>9, <1>10, <1>11 DEF KeyInv

\* A request is granted: its bit is set, and the type was compatible.
LEMMA GrantAtOnceQ ==
  ASSUME IInv, IInv', QInv, NEW c \in Ctx, NEW k \in Key, NEW type,
         NEW u \in m_tickets[c] \cup {NULL},
         u # NULL => m_type[u] \in UpgradableType,
         GrantAtOnce(c, k, type, u)
  PROVE  QInv'
<1>1. /\ \A j \in Key : KeyInv(j)'
      /\ \A d \in Ctx : \A y \in m_tickets[d] : m_type'[y] = m_type[y]
  BY GrantQ DEF GrantAtOnce, MayRequest
<1> DEFINE x == NewTicket(c)
<1>2. /\ x \in Ticket /\ x \notin m_tickets[c]
  BY NewTicketFacts, FreeTicketUnlisted DEF GrantAtOnce, MayRequest
<1>3. /\ m_tickets' = [m_tickets EXCEPT ![c] = @ \cup {x}]
      /\ ticket' = [ticket EXCEPT ![c] = IF u = NULL THEN NULL ELSE x]
      /\ upgraded' = [upgraded EXCEPT ![c] = u]
      /\ TypeOK
  BY DEF GrantAtOnce, IInv
<1> HIDE DEF x
<1>4. ASSUME NEW d \in Ctx, d # c PROVE UpgraderOf(d)'
  BY <1>1, <1>3, <1>4, UpgraderFrame DEF QInv, TypeOK
<1>5. UpgraderOf(c)'
  BY <1>1, <1>2, <1>3 DEF UpgraderOf, TypeOK
<1> QED
  BY <1>1, <1>4, <1>5 DEF QInv

\* A clone has the type of a ticket of the same context.
LEMMA CloneTicketQ ==
  ASSUME IInv, IInv', QInv, NEW c \in Ctx, NEW k \in Key, NEW type,
         CloneTicket(c, k, type)
  PROVE  QInv'
<1>1. /\ \A j \in Key : KeyInv(j)'
      /\ \A d \in Ctx : \A y \in m_tickets[d] : m_type'[y] = m_type[y]
  BY GrantQ DEF CloneTicket
<1>2. \A d \in Ctx : /\ m_tickets[d] \subseteq m_tickets'[d]
                     /\ ticket'[d] = ticket[d] /\ upgraded'[d] = upgraded[d]
  BY DEF CloneTicket, locals, IInv, TypeOK
<1>3. ASSUME NEW d \in Ctx PROVE UpgraderOf(d)'
  BY <1>1, <1>2, UpgraderFrame DEF QInv
<1> QED
  BY <1>1, <1>3 DEF QInv

\* acquire_lock joins the queue.
LEMMA EnqueueQ ==
  ASSUME IInv, IInv', QInv, NEW c \in Ctx, NEW k \in Key, NEW type,
         NEW u \in m_tickets[c] \cup {NULL},
         u # NULL => m_type[u] \in UpgradableType,
         Enqueue(c, k, type, u)
  PROVE  QInv'
<1> DEFINE x == NewTicket(c)
<1>1. /\ x \in Ticket
      /\ \A j \in Key : x \notin m_granted[j] /\ x \notin ToSet(m_waiting[j])
      /\ \A d \in Ctx : x \notin m_tickets[d]
      /\ m_rwlock[k] = NULL
  BY NewTicketFacts, FreeTicketUnlisted DEF Enqueue, MayRequest
<1>2. m_type'[x] = type /\ \A y \in Ticket : y # x => m_type'[y] = m_type[y]
  BY <1>1 DEF Enqueue, Create, IInv, TypeOK
<1>3. \A j \in Key : /\ m_granted[j] \subseteq Ticket
                     /\ m_waiting[j] \in Seq(Ticket)
                     /\ ToSet(m_waiting[j]) \subseteq Ticket
  BY ListFacts
<1>4. /\ m_waiting'[k] = Append(m_waiting[k], x)
      /\ waiting_bitmap'[k] = waiting_bitmap[k] \cup {type}
      /\ \A j \in Key \ {k} : /\ m_waiting'[j] = m_waiting[j]
                              /\ waiting_bitmap'[j] = waiting_bitmap[j]
  BY DEF Enqueue, IInv, TypeOK
<1>5. ToSet(m_waiting'[k]) = ToSet(m_waiting[k]) \cup {x}
  <2>1. NoDuplicates(m_waiting[k])
    BY DEF IInv, Waiting
  <2> QED
    BY <1>1, <1>3, <1>4, <2>1, AppendFacts
<1>6. /\ m_granted' = m_granted /\ granted_bitmap' = granted_bitmap
      /\ m_hog_lock_count' = m_hog_lock_count /\ m_rwlock' = m_rwlock
      /\ it' = it /\ skip_high_priority' = skip_high_priority
      /\ m_tickets' = m_tickets
      /\ ticket' = [ticket EXCEPT ![c] = x]
      /\ upgraded' = [upgraded EXCEPT ![c] = u]
      /\ m_wait_status' = [m_wait_status EXCEPT ![c] = "EMPTY"]
      /\ pc[c] = "idle" /\ ~CanGrant(k, type, c, FALSE) /\ CtxOf(x) = c
  BY NewTicketFacts DEF Enqueue, MayRequest, loop
<1> HIDE DEF x
<1>7. /\ \A j \in Key : \A y \in m_granted[j] : m_type'[y] = m_type[y]
      /\ \A j \in Key : \A y \in ToSet(m_waiting[j]) : m_type'[y] = m_type[y]
      /\ \A d \in Ctx : \A y \in m_tickets[d] : m_type'[y] = m_type[y]
  BY <1>1, <1>2, <1>3 DEF IInv, TypeOK
<1>close. ASSUME NEW j \in Key
          PROVE  /\ SlotsClose(j)
                 /\ \A y \in ToSet(m_waiting[j]) : CtxOf(y) # c
  <2>1. \A y \in ToSet(m_waiting[j]) : CtxOf(y) # c /\ CtxOf(y) \in Ctx
    BY <1>3, <1>6, IdleFacts, Values
  <2> QED
    BY <1>6, <2>1 DEF SlotsClose, IInv, TypeOK
<1>8. ASSUME NEW j \in Key, j # k PROVE KeyInv(j)'
  <2>1. SameLists(j) /\ SameCount(j)
    BY <1>4, <1>6, <1>7, <1>8 DEF SameLists, SameCount
  <2> QED
    BY <1>close, <2>1, KeyFrame DEF QInv
<1>9. GrantedBits(k)'
  BY <1>6, <1>7 DEF QInv, KeyInv, GrantedBits
<1>10. WaitingBits(k)'
  BY <1>2, <1>4, <1>5, <1>7 DEF QInv, KeyInv, WaitingBits
<1>11. HogCount(k)'
  BY <1>1, <1>6, HogCountIdle DEF QInv, KeyInv
<1>12. ASSUME NEW d \in Ctx, d # c PROVE UpgraderOf(d)'
  BY <1>6, <1>7, <1>12, UpgraderFrame DEF QInv, IInv, TypeOK
<1>13. UpgraderOf(c)'
  BY <1>1, <1>6, <1>7 DEF UpgraderOf, IInv, TypeOK
<1>14. Attended(k)'
  <2>1. KeepsReasons(k)
    BY <1>5, <1>6, <1>7, <1>close DEF KeepsReasons
  <2>x. PICK w \in Ticket : w = x
    BY <1>1
  <2>2. Reason(k, w)'
    <3>1. \/ \E y \in m_granted[k] : CtxOf(y) # c
          \/ \E y \in ToSet(m_waiting[k]) :
               m_type[y] # type /\ m_type[y] \in WaitingIncompatible(k, type)
      BY <1>6, RefusedForReason DEF QInv, KeyInv
    <3>2. CASE \E y \in m_granted[k] : CtxOf(y) # c
      BY <1>6, <2>x, <3>2 DEF Reason
    <3>3. ASSUME NEW y \in ToSet(m_waiting[k]),
                 m_type[y] \in WaitingIncompatible(k, type)
          PROVE  Reason(k, w)'
      <4>1. /\ y \in ToSet(m_waiting'[k]) /\ CtxOf(y) # CtxOf(w)
            /\ m_type'[y] \in WaitingIncompatible(k, m_type'[w])
        BY <1>2, <1>5, <1>6, <1>7, <1>close, <2>x, <3>3
      <4> QED
        BY <4>1 DEF Reason
    <3> QED
      BY <3>1, <3>2, <3>3
  <2>3. m_hog_lock_count[k] < MaxWriteLockCount =>
          \A y \in ToSet(m_waiting[k]) : Reason(k, y)'
    BY <1>1, <2>1, ReasonKept DEF QInv, KeyInv, Attended
  <2> QED
    BY <1>1, <1>5, <1>6, <2>2, <2>3, <2>x DEF Attended
<1> QED
  BY <1>8, <1>9, <1>10, <1>11, <1>12, <1>13, <1>14 DEF QInv, KeyInv

\* A step that touches neither the tickets nor the locks.
LEMMA WaitStepQ ==
  ASSUME IInv, QInv, NEW c \in Ctx,
         UNCHANGED <<m_lock, m_type, queues, m_hog_lock_count, loop, upgraded>>,
         \A d \in Ctx : m_tickets[d] \subseteq m_tickets'[d],
         \A d \in Ctx : ticket'[d] \in {ticket[d], NULL},
         \A d \in Ctx : m_wait_status[d] # "EMPTY" =>
                         m_wait_status'[d] = m_wait_status[d]
  PROVE  QInv'
<1>1. ASSUME NEW j \in Key PROVE KeyInv(j)'
  <2>0. SlotsClose(j)
    BY ListFacts, Values DEF SlotsClose
  <2>1. SameLists(j) /\ SameCount(j) /\ SlotsClose(j)
    BY <2>0 DEF SameLists, SameCount, queues, loop
  <2> QED
    BY <2>1, KeyFrame DEF QInv
<1>2. ASSUME NEW d \in Ctx PROVE UpgraderOf(d)'
  <2>1. m_tickets[d] \subseteq Ticket
    BY DEF IInv, TypeOK
  <2>2. UpgraderOf(d)
    BY DEF QInv
  <2> QED
    BY <2>1, <2>2, Values DEF UpgraderOf
<1> QED
  BY <1>1, <1>2 DEF QInv

\* The steps of a wait.
LEMMA WaitQ ==
  ASSUME IInv, QInv, NEW c \in Ctx,
         \/ WillWaitFor(c)
         \/ NoDeadlockFound(c)
         \/ \E v \in Ctx : ChooseVictim(c, v)
         \/ WakeUp(c)
         \/ \E status \in AbortStatus : AbortWait(c, status)
  PROVE  QInv'
<1>1. \A d \in Ctx : m_wait_status[d] # "EMPTY" =>
                      m_wait_status'[d] = m_wait_status[d]
  BY DEF WillWaitFor, NoDeadlockFound, ChooseVictim, SetStatus, WakeUp, AbortWait,
         IInv, TypeOK
<1> QED
  BY <1>1, WaitStepQ DEF WillWaitFor, NoDeadlockFound, ChooseVictim, WakeUp,
                         AbortWait, tickets

\* The end of an acquisition or of an upgrade.
LEMMA DoneWaitingForQ ==
  ASSUME IInv, QInv, NEW c \in Ctx, DoneWaitingFor(c)
  PROVE  QInv'
<1>1. \A d \in Ctx : m_tickets[d] \subseteq m_tickets'[d]
  <2>1. \/ m_tickets' = m_tickets
        \/ m_tickets' = [m_tickets EXCEPT ![c] = @ \cup {ticket[c]}]
    BY DEF DoneWaitingFor
  <2> QED
    BY <2>1 DEF IInv, TypeOK
<1>2. \A d \in Ctx : ticket'[d] \in {ticket[d], NULL}
  <2>1. \/ ticket' = ticket
        \/ ticket' = [ticket EXCEPT ![c] = NULL]
    BY DEF DoneWaitingFor
  <2> QED
    BY <2>1 DEF IInv, TypeOK
<1> QED
  BY <1>1, <1>2, WaitStepQ DEF DoneWaitingFor

\* An upgrade in a context that has X.
LEMMA UpgradeOwnXQ ==
  ASSUME IInv, QInv, NEW c \in Ctx, NEW x \in m_tickets[c], UpgradeOwnX(c, x)
  PROVE  QInv'
<1>1. /\ UNCHANGED <<tickets, queues, m_hog_lock_count, loop, ticket,
                     m_wait_status>>
      /\ upgraded' = [upgraded EXCEPT ![c] = x]
      /\ m_type[x] \in UpgradableType /\ pc[c] = "idle"
  BY DEF UpgradeOwnX
<1>2. ASSUME NEW j \in Key PROVE KeyInv(j)'
  <2>1. SameLists(j) /\ SameCount(j)
    BY <1>1 DEF SameLists, SameCount, queues, loop, tickets
  <2> QED
    BY <1>1, <2>1, KeyFrame DEF QInv, SlotsClose
<1>3. ASSUME NEW d \in Ctx, d # c PROVE UpgraderOf(d)'
  BY <1>1, <1>3, UpgraderFrame DEF QInv, IInv, TypeOK, tickets
<1>4. UpgraderOf(c)'
  BY <1>1, IdleFacts, Values DEF UpgraderOf, IInv, TypeOK, tickets
<1> QED
  BY <1>2, <1>3, <1>4 DEF QInv

\* One iteration of reschedule_waiters.
LEMMA ReschedulePassQ ==
  ASSUME IInv, QInv, NEW c \in Ctx, NEW k \in Key, ReschedulePass(c, k)
  PROVE  QInv'
<1>1. /\ it[k] # <<>> /\ it' = [it EXCEPT ![k] = Tail(@)]
      /\ UNCHANGED <<m_lock, m_type, m_tickets, m_granted, granted_bitmap,
                     m_waiting, waiting_bitmap, m_hog_lock_count, m_rwlock,
                     skip_high_priority, m_wait_status, ticket, upgraded>>
  BY DEF ReschedulePass, tickets, queues, locals
<1>2. it'[k] = Tail(it[k]) /\ \A j \in Key \ {k} : it'[j] = it[j]
  BY <1>1 DEF IInv, TypeOK
<1>3. /\ ToSet(it'[k]) = ToSet(it[k]) \ {Head(it[k])}
      /\ Head(it[k]) \in ToSet(it[k])
  <2>1. NoDuplicates(it[k]) /\ it[k] \in Seq(Ticket)
    BY ListFacts DEF IInv, Iterating
  <2> QED
    BY <1>1, <1>2, <2>1, TailFacts
<1>4. ASSUME NEW j \in Key, j # k PROVE KeyInv(j)'
  <2>1. SameLists(j) /\ SameCount(j)
    BY <1>1, <1>2, <1>4 DEF SameLists, SameCount
  <2> QED
    BY <1>1, <2>1, KeyFrame DEF QInv, SlotsClose
<1>5. GrantedBits(k)' /\ WaitingBits(k)'
  BY <1>1 DEF QInv, KeyInv, GrantedBits, WaitingBits
<1>6. HogGranted(k) => HogGranted(k)'
  BY <1>1, <1>3 DEF HogGranted
<1>7. HogCount(k)'
  BY <1>1, <1>6 DEF QInv, KeyInv, HogCount, WeakPending
<1>8. ASSUME NEW d \in Ctx PROVE UpgraderOf(d)'
  BY <1>1, UpgraderFrame DEF QInv
<1>9. Attended(k)'
  <2>x. PICK x \in ToSet(m_waiting[k]) : x = Head(it[k])
    BY <1>3 DEF IInv, Iterating
  <2>1. \A y \in ToSet(m_waiting[k]) : Reason(k, y) => Reason(k, y)'
    BY <1>1 DEF Reason
  <2>2. m_rwlock[k] = c /\ ~Grantable(k, x) /\ c # NULL
    BY <2>x, Values DEF ReschedulePass
  <2>3. CASE ~skip_high_priority[k]
    <3>1. m_wait_status[CtxOf(x)] # "EMPTY" => Reason(k, x)
      BY DEF Reason
    <3>2. ASSUME m_wait_status[CtxOf(x)] = "EMPTY" PROVE Reason(k, x)
      <4>1. ~CanGrant(k, m_type[x], CtxOf(x), FALSE)
        <5>1. ~CanGrant(k, m_type[x], CtxOf(x), skip_high_priority[k])
          BY <2>2, <2>3, <3>2 DEF Grantable
        <5>2. skip_high_priority[k] = FALSE
          BY <2>3 DEF IInv, TypeOK
        <5> QED
          BY <5>1, <5>2
      <4>2. /\ CtxOf(x) \in Ctx
            /\ \A y \in ToSet(m_waiting[k]) : y # x => CtxOf(y) # CtxOf(x)
        BY ListFacts, Values DEF IInv, Waiting
      <4>3. \/ \E y \in m_granted[k] : CtxOf(y) # CtxOf(x)
            \/ \E y \in ToSet(m_waiting[k]) :
                 /\ m_type[y] # m_type[x]
                 /\ m_type[y] \in WaitingIncompatible(k, m_type[x])
        BY <4>1, <4>2, RefusedForReason DEF QInv, KeyInv
      <4> QED
        BY <4>2, <4>3 DEF Reason
    <3>3. Reason(k, x)
      BY <3>1, <3>2
    <3>4. \A y \in ToSet(m_waiting[k]) \ ToSet(it'[k]) : Reason(k, y)
      BY <1>3, <2>2, <2>3, <2>x, <3>3 DEF QInv, KeyInv, Attended
    <3> QED
      BY <1>1, <2>1, <2>2, <2>3, <3>4 DEF Attended
  <2>4. CASE skip_high_priority[k]
    BY <1>1, <2>2, <2>4 DEF QInv, KeyInv, Attended, WeakPending
  <2> QED
    BY <2>3, <2>4
<1> QED
  BY <1>4, <1>5, <1>7, <1>8, <1>9 DEF QInv, KeyInv

\* One iteration of reschedule_waiters that grants a request.
LEMMA RescheduleGrantQ ==
  ASSUME IInv, QInv, NEW c \in Ctx, NEW k \in Key, RescheduleGrant(c, k)
  PROVE  QInv'
<1> DEFINE x == Head(it[k])
           rest == Drop(m_waiting[k], x)
<1>1. NoDuplicates(it[k]) /\ it[k] \in Seq(Ticket) /\ it[k] # <<>>
  BY ListFacts DEF RescheduleGrant, IInv, Iterating
<1>2. /\ x \in ToSet(it[k])
      /\ ToSet(Tail(it[k])) = ToSet(it[k]) \ {x}
  BY <1>1, TailFacts
<1>3. /\ x \in ToSet(m_waiting[k]) /\ x \in Ticket
      /\ m_waiting[k] \in Seq(Ticket) /\ NoDuplicates(m_waiting[k])
      /\ \A y \in ToSet(it[k]) : y # x => CtxOf(y) # CtxOf(x)
  <2>1. ToSet(it[k]) \subseteq ToSet(m_waiting[k])
    BY DEF IInv, Iterating
  <2>2. \A y, w \in ToSet(m_waiting[k]) : CtxOf(y) = CtxOf(w) => y = w
    BY DEF IInv, Waiting
  <2>3. NoDuplicates(m_waiting[k])
    BY DEF IInv, Waiting
  <2> HIDE DEF x
  <2> QED
    BY <1>2, <2>1, <2>2, <2>3, ListFacts
<1>4. ToSet(rest) = ToSet(m_waiting[k]) \ {x}
  BY <1>3, DropFacts
<1>5. /\ m_rwlock[k] = c /\ Grantable(k, x)
      /\ m_waiting' = [m_waiting EXCEPT ![k] = rest]
      /\ waiting_bitmap' = [waiting_bitmap EXCEPT
           ![k] = ClearBit(@, m_type[x], ToSet(rest))]
      /\ m_granted' = [m_granted EXCEPT ![k] = @ \cup {x}]
      /\ granted_bitmap' = [granted_bitmap EXCEPT ![k] = @ \cup {m_type[x]}]
      /\ m_hog_lock_count' = [m_hog_lock_count EXCEPT
           ![k] = CountHog(k, m_type[x], @)]
      /\ it' = [it EXCEPT ![k] = Tail(@)]
      /\ SetStatus(CtxOf(x), "GRANTED")
      /\ UNCHANGED <<m_lock, m_type, m_tickets, m_rwlock, skip_high_priority,
                     ticket, upgraded>>
  BY DEF RescheduleGrant, AddGranted, tickets, locals
<1> HIDE DEF x, rest
<1>6. /\ m_waiting'[k] = rest /\ m_granted'[k] = m_granted[k] \cup {x}
      /\ waiting_bitmap'[k] = ClearBit(waiting_bitmap[k], m_type[x], ToSet(rest))
      /\ granted_bitmap'[k] = granted_bitmap[k] \cup {m_type[x]}
      /\ m_hog_lock_count'[k] = CountHog(k, m_type[x], m_hog_lock_count[k])
      /\ it'[k] = Tail(it[k])
  BY <1>5 DEF IInv, TypeOK
<1>close. ASSUME NEW j \in Key PROVE SlotsClose(j)
  BY <1>5, ListFacts, Values DEF SlotsClose, SetStatus, IInv, TypeOK
<1>7. ASSUME NEW j \in Key, j # k PROVE KeyInv(j)'
  <2>1. SameLists(j) /\ SameCount(j)
    BY <1>5, <1>7 DEF SameLists, SameCount, IInv, TypeOK
  <2> QED
    BY <1>close, <2>1, KeyFrame DEF QInv
<1>8. GrantedBits(k)'
  BY <1>5, <1>6 DEF QInv, KeyInv, GrantedBits
<1>9. /\ WaitingBits(k)'
      /\ waiting_bitmap'[k] \subseteq waiting_bitmap[k]
  <2>1. /\ \A b \in waiting_bitmap[k] :
             \E y \in ToSet(m_waiting[k]) : m_type[y] = b
        /\ \A y \in ToSet(m_waiting[k]) : m_type[y] \in waiting_bitmap[k]
    BY DEF QInv, KeyInv, WaitingBits
  <2>2. /\ \A b \in waiting_bitmap'[k] : \E y \in ToSet(rest) : m_type[y] = b
        /\ \A y \in ToSet(rest) : m_type[y] \in waiting_bitmap'[k]
        /\ waiting_bitmap'[k] \subseteq waiting_bitmap[k]
    <3> DEFINE list == ToSet(m_waiting[k])
               bits == ClearBit(waiting_bitmap[k], m_type[x], list \ {x})
    <3>1. /\ \A b \in bits : \E y \in list \ {x} : m_type[y] = b
          /\ \A y \in list \ {x} : m_type[y] \in bits
          /\ bits \subseteq waiting_bitmap[k]
      BY <2>1, ClearBitExact
    <3> QED
      BY <1>4, <1>6, <3>1
  <2> QED
    BY <1>5, <1>6, <2>2 DEF WaitingBits
<1>10. HogGranted(k) => HogGranted(k)'
  BY <1>2, <1>5, <1>6 DEF HogGranted
<1>11. WeakPending(k, waiting_bitmap[k])' => WeakPending(k, waiting_bitmap[k])
  BY <1>9 DEF WeakPending
<1>12. HogCount(k)'
  <2>1. HogCount(k) /\ m_hog_lock_count[k] \in Nat
        /\ m_rwlock[k] # NULL /\ m_rwlock'[k] = m_rwlock[k]
        /\ skip_high_priority'[k] = skip_high_priority[k]
    BY <1>5, Values DEF QInv, KeyInv, IInv, TypeOK
  <2>2. CASE m_type[x] \notin HogTypes(k)
    <3>1. m_hog_lock_count'[k] = m_hog_lock_count[k]
      BY <1>6, <2>2 DEF CountHog
    <3> QED
      BY <1>10, <1>11, <2>1, <3>1 DEF HogCount
  <2>3. CASE m_type[x] \in HogTypes(k)
    <3>1. m_hog_lock_count'[k] = m_hog_lock_count[k] + 1
      BY <1>6, <2>3 DEF CountHog
    <3>2. ~skip_high_priority[k]
      BY <1>5, <2>3 DEF Grantable
    <3>3. \A y \in m_granted[k] : \/ CtxOf(y) = CtxOf(x)
                                  \/ m_type[y] \notin GrantedIncompatible(k, m_type[x])
      BY <1>5, CanGrantSound DEF Grantable
    <3>4. ~HogGranted(k)
      BY <1>2, <2>3, <3>3, HogFacts DEF HogGranted
    <3>5. HogGranted(k)'
      <4>1. x \in m_granted'[k] /\ m_type'[x] \in HogTypes(k)
        BY <1>5, <1>6, <2>3
      <4>2. \A y \in ToSet(it'[k]) : CtxOf(y) # CtxOf(x)
        BY <1>2, <1>3, <1>6
      <4> QED
        BY <4>1, <4>2 DEF HogGranted
    <3> QED
      BY <1>11, <2>1, <3>1, <3>2, <3>4, <3>5, MDLAssumption DEF HogCount
  <2> QED
    BY <2>2, <2>3
<1>13. ASSUME NEW d \in Ctx PROVE UpgraderOf(d)'
  BY <1>5, UpgraderFrame DEF QInv
<1>14. Attended(k)'
  <2>1. KeepsReasons(k)
    BY <1>4, <1>5, <1>6, <1>close DEF KeepsReasons, Grantable
  <2>2. \A y \in ToSet(m_waiting'[k]) :
          y \in ToSet(m_waiting[k]) /\ CtxOf(y) # CtxOf(x)
    BY <1>3, <1>4, <1>6 DEF IInv, Waiting
  <2>3. m_rwlock'[k] = c /\ m_rwlock[k] = c /\ c # NULL
    BY <1>5, Values
  <2>4. \A y \in ToSet(m_waiting'[k]) : \E z \in m_granted'[k] : CtxOf(z) # CtxOf(y)
    BY <1>6, <2>2
  <2>5. \A y \in ToSet(m_waiting'[k]) : Reason(k, y)'
    BY <2>4 DEF Reason
  <2>6. skip_high_priority[k] => m_hog_lock_count'[k] >= MaxWriteLockCount
    <3>1. m_hog_lock_count'[k] >= m_hog_lock_count[k]
          /\ m_hog_lock_count[k] \in Nat /\ m_hog_lock_count'[k] \in Nat
      BY <1>6 DEF CountHog, IInv, TypeOK
    <3>2. skip_high_priority[k] => m_hog_lock_count[k] >= MaxWriteLockCount
      BY <2>3 DEF QInv, KeyInv, Attended
    <3> QED
      BY <3>1, <3>2, MDLAssumption
  <2> QED
    BY <1>5, <2>3, <2>4, <2>5, <2>6 DEF Attended
<1> QED
  BY <1>7, <1>8, <1>9, <1>12, <1>13, <1>14 DEF QInv, KeyInv

\* The end of the loop of reschedule_waiters.
LEMMA RescheduleEndQ ==
  ASSUME IInv, QInv, NEW c \in Ctx, NEW k \in Key, RescheduleEnd(c, k)
  PROVE  QInv'
<1> DEFINE z == ticket[c]
           gone == {z} \ m_granted[k]
<1>1. /\ m_rwlock[k] = c
      /\ m_hog_lock_count' = [m_hog_lock_count EXCEPT
           ![k] = IF WeakPending(k, waiting_bitmap[k]) THEN @ ELSE 0]
      /\ m_rwlock' = [m_rwlock EXCEPT ![k] = NULL]
      /\ skip_high_priority' = [skip_high_priority EXCEPT ![k] = FALSE]
      /\ m_type' = [x \in Ticket |-> IF x \in gone THEN NULL ELSE m_type[x]]
      /\ m_tickets' = [m_tickets EXCEPT ![c] = @ \ gone]
      /\ ticket' = [ticket EXCEPT ![c] = NULL]
      /\ upgraded' = [upgraded EXCEPT ![c] = NULL]
      /\ UNCHANGED <<m_granted, granted_bitmap, m_waiting, waiting_bitmap, it,
                     m_wait_status>>
      /\ it[k] = <<>>
  BY DEF RescheduleEnd, Finish, Goto, queues
<1>2. /\ pc[c] = "resched" /\ z \in Ticket /\ CtxOf(z) = c /\ m_lock[z] = k
      /\ c # NULL
  BY <1>1, Values DEF IInv, Iterating
<1>3. /\ \A j \in Key : \A y \in ToSet(m_waiting[j]) : y \in Ticket /\ y \notin gone
      /\ \A j \in Key : \A y \in m_granted[j] : y \in Ticket /\ y \notin gone
      /\ \A d \in Ctx \ {c} : \A y \in m_tickets[d] : y \in Ticket /\ y \notin gone
  <2>1. \A j \in Key : \A y \in ToSet(m_waiting[j]) : CtxOf(y) # c
    BY <1>2 DEF IInv, Waiting, Waits
  <2>2. \A j \in Key : \A y \in m_granted[j] : y \notin gone
    BY <1>2 DEF IInv, Placed
  <2>3. \A d \in Ctx \ {c} : \A y \in m_tickets[d] : CtxOf(y) = d /\ y \in Ticket
    BY DEF IInv, Owned, TypeOK
  <2> QED
    BY <1>2, <2>1, <2>2, <2>3, ListFacts
<1> HIDE DEF z, gone
<1>4. ASSUME NEW j \in Key PROVE SameLists(j)
  BY <1>1, <1>3 DEF SameLists
<1>5. ASSUME NEW j \in Key, j # k PROVE KeyInv(j)'
  <2>1. SameCount(j)
    BY <1>1, <1>5 DEF SameCount, IInv, TypeOK
  <2> QED
    BY <1>1, <1>4, <2>1, KeyFrame DEF QInv, SlotsClose
<1>6. GrantedBits(k)' /\ WaitingBits(k)'
  BY <1>4 DEF QInv, KeyInv, GrantedBits, WaitingBits, SameLists
<1>7. HogCount(k)'
  <2>1. /\ m_hog_lock_count'[k] = IF WeakPending(k, waiting_bitmap[k])
                                   THEN m_hog_lock_count[k] ELSE 0
        /\ m_rwlock'[k] = NULL
    BY <1>1 DEF IInv, TypeOK
  <2>2. HogCount(k) /\ m_hog_lock_count[k] \in Nat /\ m_rwlock[k] # NULL
    BY <1>1, <1>2 DEF QInv, KeyInv, IInv, TypeOK
  <2> QED
    BY <2>1, <2>2, MDLAssumption DEF HogCount
<1>8. ASSUME NEW d \in Ctx, d # c PROVE UpgraderOf(d)'
  <2>1. /\ upgraded'[d] = upgraded[d] /\ m_tickets'[d] = m_tickets[d]
        /\ ticket'[d] = ticket[d]
    BY <1>1, <1>8 DEF IInv, TypeOK
  <2> QED
    BY <1>1, <1>3, <1>8, <2>1, UpgraderFrame DEF QInv
<1>9. UpgraderOf(c)'
  BY <1>1 DEF UpgraderOf, IInv, TypeOK
<1>10. Attended(k)'
  <2>1. /\ m_rwlock'[k] = NULL
        /\ m_hog_lock_count'[k] = IF WeakPending(k, waiting_bitmap[k])
                                   THEN m_hog_lock_count[k] ELSE 0
        /\ m_rwlock[k] # NULL
    BY <1>1, <1>2 DEF IInv, TypeOK
  <2>2. ASSUME m_hog_lock_count'[k] < MaxWriteLockCount,
               NEW x \in ToSet(m_waiting[k])
        PROVE  Reason(k, x)
    <3>1. CASE ~skip_high_priority[k]
      <4>1. ToSet(it[k]) = {}
        BY <1>1 DEF ToSet
      <4> QED
        BY <2>1, <3>1, <4>1 DEF QInv, KeyInv, Attended
    <3>2. CASE skip_high_priority[k]
      <4>1. /\ m_hog_lock_count[k] >= MaxWriteLockCount
            /\ \/ WeakPending(k, waiting_bitmap[k])
               \/ \E y \in m_granted[k] : CtxOf(y) # CtxOf(x)
        BY <2>1, <3>2 DEF QInv, KeyInv, Attended
      <4>2. ~WeakPending(k, waiting_bitmap[k])
        <5>1. m_hog_lock_count[k] \in Nat
          BY DEF IInv, TypeOK
        <5> QED
          BY <2>1, <2>2, <4>1, <5>1, MDLAssumption
      <4> QED
        BY <4>1, <4>2 DEF Reason
    <3> QED
      BY <3>1, <3>2
  <2>3. KeepsReasons(k)
    BY <1>1, <1>4 DEF KeepsReasons, SlotsClose, SameLists
  <2> QED
    BY <1>1, <2>1, <2>2, <2>3, ReasonKept DEF Attended
<1> QED
  BY <1>5, <1>6, <1>7, <1>8, <1>9, <1>10 DEF QInv, KeyInv

\* Ticket x leaves the lists of k, and the bitmaps follow.
LeavesLists(k, x) ==
  /\ m_granted'[k] = m_granted[k] \ {x}
  /\ ToSet(m_waiting'[k]) = ToSet(m_waiting[k]) \ {x}
  /\ \A b \in granted_bitmap'[k] : \E y \in m_granted'[k] : m_type[y] = b
  /\ \A b \in waiting_bitmap'[k] :
       \E y \in ToSet(m_waiting'[k]) : m_type[y] = b
  /\ \A y \in ToSet(m_waiting'[k]) : m_type[y] \in waiting_bitmap'[k]
  /\ \A j \in Key \ {k} : /\ m_granted'[j] = m_granted[j]
                           /\ granted_bitmap'[j] = granted_bitmap[j]
                           /\ m_waiting'[j] = m_waiting[j]
                           /\ waiting_bitmap'[j] = waiting_bitmap[j]

\* remove_ticket: ticket x of context c has left the lists of its lock.
LEMMA RemovalQ ==
  ASSUME IInv, QInv, NEW c \in Ctx, NEW x \in Ticket, NEW k \in Key,
         CtxOf(x) = c, m_lock[x] = k, m_rwlock[k] = NULL, upgraded[c] # x,
         LeavesLists(k, x),
         NEW g, m_wait_status' = m_wait_status,
         AfterRemoval(c, k, x, g, m_waiting'[k], waiting_bitmap'[k])
  PROVE  QInv'
<1>1. TypeOK
  BY DEF IInv
<1>2. /\ \A y \in Ticket \ {x} : m_type'[y] = m_type[y]
      /\ UNCHANGED m_type \/ upgraded'[c] = NULL
  BY <1>1 DEF AfterRemoval, Finish, tickets, TypeOK
<1>3. \A j \in Key : /\ m_granted[j] \subseteq Ticket
                     /\ ToSet(m_waiting[j]) \subseteq Ticket
                     /\ j # k => x \notin m_granted[j] /\ x \notin ToSet(m_waiting[j])
  BY ListFacts DEF IInv, Placed
<1>4. ASSUME NEW j \in Key, j # k PROVE KeyInv(j)'
  <2>1. SameLists(j)
    BY <1>2, <1>3, <1>4 DEF SameLists, LeavesLists
  <2>2. SameCount(j)
    <3>1. CASE IsEmpty(g, m_waiting'[k])
      BY <1>1, <1>4, <3>1 DEF AfterRemoval, SameCount, loop, TypeOK
    <3>2. CASE ~IsEmpty(g, m_waiting'[k])
      BY <1>1, <1>4, <3>2 DEF AfterRemoval, SameCount, StartReschedule, TypeOK
    <3> QED
      BY <3>1, <3>2
  <2> QED
    BY <2>1, <2>2, KeyFrame DEF QInv, SlotsClose
<1>5. GrantedBits(k)'
  BY <1>2, <1>3 DEF GrantedBits, LeavesLists
<1>6. WaitingBits(k)'
  BY <1>2, <1>3 DEF WaitingBits, LeavesLists
<1>7. HogCount(k)'
  <2>1. HogCount(k)
    BY DEF QInv, KeyInv
  <2>2. CASE IsEmpty(g, m_waiting'[k])
    <3>1. m_hog_lock_count'[k] = m_hog_lock_count[k] \/ m_hog_lock_count'[k] = 0
      BY <1>1, <2>2 DEF AfterRemoval, TypeOK
    <3> QED
      BY <2>1, <2>2, <3>1, HogCountIdle DEF AfterRemoval, loop
  <2>3. CASE ~IsEmpty(g, m_waiting'[k])
    <3>1. /\ StartReschedule(c, k, m_waiting'[k], waiting_bitmap'[k])
          /\ m_hog_lock_count' = m_hog_lock_count
      BY <2>3 DEF AfterRemoval
    <3> QED
      BY <1>1, <2>1, <3>1, HogCountStart
  <2> QED
    BY <2>2, <2>3
<1>8. ASSUME NEW d \in Ctx, d # c PROVE UpgraderOf(d)'
  <2>1. /\ upgraded'[d] = upgraded[d] /\ ticket'[d] = ticket[d]
        /\ m_tickets'[d] = m_tickets[d]
    BY <1>1, <1>8 DEF AfterRemoval, Finish, tickets, TypeOK
  <2>2. x \notin m_tickets[d] /\ m_tickets[d] \subseteq Ticket
    BY <1>1, <1>8 DEF IInv, Owned, TypeOK
  <2> QED
    BY <1>2, <2>1, <2>2, UpgraderFrame DEF QInv
<1>9. UpgraderOf(c)'
  <2>1. CASE IsEmpty(g, m_waiting'[k])
    BY <1>1, <2>1 DEF AfterRemoval, Finish, UpgraderOf, TypeOK
  <2>2. CASE ~IsEmpty(g, m_waiting'[k])
    <3>1. /\ upgraded'[c] = upgraded[c] /\ m_type' = m_type
          /\ m_tickets' = m_tickets /\ ticket'[c] = x
      BY <1>1, <2>2 DEF AfterRemoval, tickets, TypeOK
    <3> QED
      BY <3>1, UpgraderFrame DEF QInv
  <2> QED
    BY <2>1, <2>2
<1>10. Attended(k)'
  <2>1. CASE IsEmpty(g, m_waiting'[k])
    <3>1. ToSet(m_waiting'[k]) = {} /\ m_rwlock'[k] = NULL
      BY <2>1 DEF AfterRemoval, loop, IsEmpty, ToSet
    <3> QED
      BY <3>1 DEF Attended
  <2>2. CASE ~IsEmpty(g, m_waiting'[k])
    BY <1>1, <2>2, AttendedStart DEF AfterRemoval
  <2> QED
    BY <2>1, <2>2
<1> QED
  BY <1>4, <1>5, <1>6, <1>7, <1>8, <1>9, <1>10 DEF QInv, KeyInv

\* A granted ticket leaves its list.
LEMMA ReleaseLockQ ==
  ASSUME IInv, QInv, NEW c \in Ctx, NEW x \in m_tickets[c], ReleaseLock(c, x)
  PROVE  QInv'
<1>k. PICK k \in Key : k = m_lock[x]
  BY DEF IInv, Owned
<1>1. TypeOK /\ pc[c] = "idle"
  BY DEF ReleaseLock, IInv
<1>2. /\ x \in Ticket /\ CtxOf(x) = c /\ k \in Key
      /\ x \notin ToSet(m_waiting[k]) /\ upgraded[c] # x
  BY <1>1, <1>k, IdleFacts, Values DEF IInv, TypeOK, Owned
<1>3. /\ m_rwlock[k] = NULL
      /\ m_granted' = [m_granted EXCEPT ![k] = @ \ {x}]
      /\ granted_bitmap' = [granted_bitmap EXCEPT
           ![k] = ClearBit(@, m_type[x], m_granted[k] \ {x})]
      /\ AfterRemoval(c, k, x, m_granted[k] \ {x}, m_waiting'[k],
                      waiting_bitmap'[k])
      /\ m_waiting' = m_waiting /\ waiting_bitmap' = waiting_bitmap
      /\ m_wait_status' = m_wait_status
  BY <1>k DEF ReleaseLock
<1>4. /\ m_granted'[k] = m_granted[k] \ {x}
      /\ granted_bitmap'[k] =
           ClearBit(granted_bitmap[k], m_type[x], m_granted[k] \ {x})
      /\ ToSet(m_waiting'[k]) = ToSet(m_waiting[k]) \ {x}
      /\ \A j \in Key \ {k} : /\ m_granted'[j] = m_granted[j]
                              /\ granted_bitmap'[j] = granted_bitmap[j]
                              /\ m_waiting'[j] = m_waiting[j]
                              /\ waiting_bitmap'[j] = waiting_bitmap[j]
  BY <1>1, <1>2, <1>3 DEF TypeOK
<1>5. \A b \in granted_bitmap'[k] : \E y \in m_granted'[k] : m_type[y] = b
  <2>1. /\ \A b \in granted_bitmap[k] : \E y \in m_granted[k] : m_type[y] = b
        /\ \A y \in m_granted[k] : m_type[y] \in granted_bitmap[k]
    BY <1>2 DEF QInv, KeyInv, GrantedBits, IInv, BitmapCovers
  <2>2. \A b \in ClearBit(granted_bitmap[k], m_type[x], m_granted[k] \ {x}) :
          \E y \in m_granted[k] \ {x} : m_type[y] = b
    BY <2>1, ClearBitExact
  <2> QED
    BY <1>4, <2>2
<1>6. /\ \A b \in waiting_bitmap'[k] :
           \E y \in ToSet(m_waiting'[k]) : m_type[y] = b
      /\ \A y \in ToSet(m_waiting'[k]) : m_type[y] \in waiting_bitmap'[k]
  BY <1>2, <1>3 DEF QInv, KeyInv, WaitingBits
<1>7. LeavesLists(k, x)
  BY <1>4, <1>5, <1>6 DEF LeavesLists
<1> QED
  BY <1>2, <1>3, <1>7, <1>k, RemovalQ

\* A waiting ticket leaves its list.
LEMMA CancelWaitQ ==
  ASSUME IInv, QInv, NEW c \in Ctx, CancelWait(c)
  PROVE  QInv'
<1>x. PICK x \in Ticket : x = ticket[c]
  BY DEF CancelWait, IInv, Slots, Waits
<1>k. PICK k \in Key : k = m_lock[x]
  BY <1>x DEF CancelWait, IInv, Slots, Waits
<1> DEFINE rest == Drop(m_waiting[k], x)
           types == ClearBit(waiting_bitmap[k], m_type[x], ToSet(rest))
<1>1. TypeOK /\ pc[c] = "cancel"
  BY DEF CancelWait, IInv
<1>2. /\ x \in Ticket /\ CtxOf(x) = c /\ k \in Key
      /\ x \in ToSet(m_waiting[k])
  <2>1. pc[c] \in Waits /\ m_wait_status[c] # "GRANTED"
    BY <1>1 DEF IInv, Slots, Waits
  <2> QED
    BY <1>x, <1>k, <2>1 DEF IInv, Slots
<1>3. /\ m_rwlock[k] = NULL
      /\ m_waiting' = [m_waiting EXCEPT ![k] = rest]
      /\ waiting_bitmap' = [waiting_bitmap EXCEPT ![k] = types]
      /\ AfterRemoval(c, k, x, m_granted[k], rest, types)
      /\ m_granted' = m_granted /\ granted_bitmap' = granted_bitmap
      /\ m_wait_status' = m_wait_status
  BY <1>x, <1>k DEF CancelWait
<1>4. ToSet(rest) = ToSet(m_waiting[k]) \ {x}
  BY <1>2, ListFacts, DropFacts DEF IInv, Waiting
<1>6. upgraded[c] # x
  BY <1>2, <1>x, Values DEF QInv, UpgraderOf
<1>7. types = ClearBit(waiting_bitmap[k], m_type[x], ToSet(m_waiting[k]) \ {x})
  BY <1>4
<1> HIDE DEF rest, types
<1>8. /\ m_granted'[k] = m_granted[k] \ {x}
      /\ m_waiting'[k] = rest /\ waiting_bitmap'[k] = types
      /\ granted_bitmap'[k] = granted_bitmap[k]
      /\ \A j \in Key \ {k} : /\ m_granted'[j] = m_granted[j]
                              /\ granted_bitmap'[j] = granted_bitmap[j]
                              /\ m_waiting'[j] = m_waiting[j]
                              /\ waiting_bitmap'[j] = waiting_bitmap[j]
  <2>1. x \notin m_granted[k]
    BY <1>2 DEF IInv, Waiting
  <2> QED
    BY <1>1, <1>2, <1>3, <2>1 DEF TypeOK
<1>9. \A b \in granted_bitmap'[k] : \E y \in m_granted'[k] : m_type[y] = b
  BY <1>2, <1>3 DEF QInv, KeyInv, GrantedBits
<1>10. /\ \A b \in waiting_bitmap'[k] :
            \E y \in ToSet(m_waiting'[k]) : m_type[y] = b
       /\ \A y \in ToSet(m_waiting'[k]) : m_type[y] \in waiting_bitmap'[k]
  <2> DEFINE list == ToSet(m_waiting[k])
             bits == ClearBit(waiting_bitmap[k], m_type[x], list \ {x})
  <2>1. /\ \A b \in waiting_bitmap[k] : \E y \in list : m_type[y] = b
        /\ \A y \in list : m_type[y] \in waiting_bitmap[k]
    BY <1>2 DEF QInv, KeyInv, WaitingBits
  <2>2. /\ \A b \in bits : \E y \in list \ {x} : m_type[y] = b
        /\ \A y \in list \ {x} : m_type[y] \in bits
    BY <2>1, ClearBitExact
  <2> QED
    BY <1>4, <1>7, <1>8, <2>2
<1>11. AfterRemoval(c, k, x, m_granted[k], m_waiting'[k], waiting_bitmap'[k])
  BY <1>3, <1>8
<1>12. ToSet(m_waiting'[k]) = ToSet(m_waiting[k]) \ {x}
  BY <1>4, <1>8
<1>13. LeavesLists(k, x)
  BY <1>8, <1>9, <1>10, <1>12 DEF LeavesLists
<1> QED
  BY <1>2, <1>3, <1>6, <1>11, <1>13, <1>k, RemovalQ

\* MDL_ticket::downgrade_exclusive_lock.
LEMMA DowngradeQ ==
  ASSUME IInv, QInv, NEW c \in Ctx, NEW x \in m_tickets[c],
         NEW type \in DowngradeTypes, Downgrade(c, x, type)
  PROVE  QInv'
<1>k. PICK k \in Key : k = m_lock[x]
  BY DEF IInv, Owned
<1> DEFINE bits == ClearBit(granted_bitmap[k], "X", m_granted[k] \ {x})
<1>1. TypeOK /\ pc[c] = "idle"
  BY DEF IInv, Downgrade
<1>2. /\ m_rwlock[k] = NULL /\ m_type[x] = "X"
      /\ m_type' = [m_type EXCEPT ![x] = type]
      /\ granted_bitmap' = [granted_bitmap EXCEPT
           ![k] = ClearBit(@, "X", m_granted[k] \ {x}) \cup {type}]
      /\ StartReschedule(c, k, m_waiting[k], waiting_bitmap[k])
      /\ ticket' = [ticket EXCEPT ![c] = x]
      /\ UNCHANGED <<m_lock, m_tickets, m_granted, m_waiting, waiting_bitmap,
                     m_hog_lock_count, m_wait_status, upgraded>>
  BY <1>k DEF Downgrade
<1>3. /\ x \in Ticket /\ CtxOf(x) = c /\ k \in Key /\ x \in m_granted[k]
      /\ upgraded[c] = NULL
      /\ \A j \in Key : x \notin ToSet(m_waiting[j])
      /\ \A j \in Key : x \in m_granted[j] => j = k
  BY <1>1, <1>k, IdleFacts DEF IInv, TypeOK, Owned, Placed
<1>4. granted_bitmap'[k] = bits \cup {type}
      /\ \A j \in Key \ {k} : granted_bitmap'[j] = granted_bitmap[j]
  BY <1>1, <1>2, <1>3 DEF TypeOK
<1>5. \A b \in bits : \E y \in m_granted[k] \ {x} : m_type[y] = b
  <2>1. /\ \A b \in granted_bitmap[k] : \E y \in m_granted[k] : m_type[y] = b
        /\ \A y \in m_granted[k] : m_type[y] \in granted_bitmap[k]
    BY <1>3 DEF QInv, KeyInv, GrantedBits, IInv, BitmapCovers
  <2>2. \A b \in ClearBit(granted_bitmap[k], m_type[x], m_granted[k] \ {x}) :
          \E y \in m_granted[k] \ {x} : m_type[y] = b
    BY <2>1, ClearBitExact
  <2> QED
    BY <1>2, <2>2
<1> HIDE DEF bits
<1>6. m_type'[x] = type /\ \A y \in Ticket \ {x} : m_type'[y] = m_type[y]
  BY <1>1, <1>2, <1>3 DEF TypeOK
<1>7. \A j \in Key : /\ m_granted[j] \subseteq Ticket
                     /\ ToSet(m_waiting[j]) \subseteq Ticket
  BY ListFacts
<1>8. ASSUME NEW j \in Key, j # k PROVE KeyInv(j)'
  <2>1. SameLists(j)
    BY <1>2, <1>3, <1>4, <1>6, <1>7, <1>8 DEF SameLists
  <2>2. SameCount(j)
    BY <1>1, <1>2, <1>8 DEF SameCount, StartReschedule, TypeOK
  <2> QED
    BY <1>2, <2>1, <2>2, KeyFrame DEF QInv, SlotsClose
<1>9. GrantedBits(k)'
  <2>1. m_granted' = m_granted
    BY <1>2
  <2>2. \A b \in bits : \E y \in m_granted[k] : m_type'[y] = b
    BY <1>5, <1>6, <1>7
  <2> QED
    BY <1>3, <1>4, <1>6, <2>1, <2>2 DEF GrantedBits
<1>10. WaitingBits(k)'
  BY <1>2, <1>3, <1>6, <1>7 DEF QInv, KeyInv, WaitingBits
<1>11. HogCount(k)'
  BY <1>1, <1>2, <1>3, HogCountStart DEF QInv, KeyInv
<1>12. ASSUME NEW d \in Ctx, d # c PROVE UpgraderOf(d)'
  <2>1. x \notin m_tickets[d] /\ m_tickets[d] \subseteq Ticket
    BY <1>1, <1>3, <1>12 DEF IInv, Owned, TypeOK
  <2>2. ticket'[d] = ticket[d]
    BY <1>1, <1>2, <1>12 DEF TypeOK
  <2> QED
    BY <1>2, <1>6, <2>1, <2>2, UpgraderFrame DEF QInv
<1>13. UpgraderOf(c)'
  BY <1>2, <1>3 DEF UpgraderOf
<1>14. Attended(k)'
  BY <1>1, <1>2, AttendedStart
<1> QED
  BY <1>8, <1>9, <1>10, <1>11, <1>12, <1>13, <1>14 DEF QInv, KeyInv

\* upgrade_shared_lock_to_exclusive merges the two tickets: the bit of the
\* original type goes unless another ticket has that type.
LEMMA MergeQ ==
  ASSUME IInv, QInv, NEW c \in Ctx, Merge(c)
  PROVE  QInv'
<1>1. TypeOK /\ pc[c] = "merge"
  BY DEF IInv, Merge
<1>u. PICK u \in m_tickets[c] : u = upgraded[c]
  BY <1>1 DEF IInv, Upgrading, UpgradingOf
<1>k. PICK k \in Key : k = m_lock[u]
  BY DEF IInv, Owned
<1> DEFINE new == {ticket[c]} \ {NULL}
           rest == m_granted[k] \ (new \cup {u})
           bits == ClearBit(granted_bitmap[k], "X", rest \cup {u})
           now == ClearBit(bits, m_type[u], rest)
<1>2. /\ m_rwlock[k] = NULL
      /\ m_granted' = [m_granted EXCEPT ![k] = rest \cup {u}]
      /\ granted_bitmap' = [granted_bitmap EXCEPT ![k] = now \cup {"X"}]
      /\ m_type' = [x \in Ticket |-> IF x \in new THEN NULL
                                     ELSE IF x = u THEN "X" ELSE m_type[x]]
      /\ m_tickets' = [m_tickets EXCEPT ![c] = @ \ new]
      /\ ticket' = [ticket EXCEPT ![c] = NULL]
      /\ upgraded' = [upgraded EXCEPT ![c] = NULL]
      /\ UNCHANGED <<m_waiting, waiting_bitmap, m_hog_lock_count, m_rwlock, it,
                     skip_high_priority, m_wait_status>>
  BY <1>u, <1>k DEF Merge, loop
<1>3. \A y \in m_tickets[c] : /\ y \in Ticket /\ CtxOf(y) = c
                             /\ m_lock[y] \in Key /\ y \in m_granted[m_lock[y]]
  BY <1>1 DEF IInv, TypeOK, Owned
<1>4. /\ u \in m_tickets[c]
      /\ new \subseteq m_tickets[c] \ {u}
      /\ \A y \in new : m_lock[y] = k /\ m_type[y] = "X"
  BY <1>1, <1>u, <1>k DEF IInv, Upgrading, UpgradingOf
<1>5. k \in Key /\ u \in m_granted[k] /\ u \in Ticket /\ u \notin new
  BY <1>3, <1>4, <1>k
<1>6. /\ \A j \in Key : \A y \in m_granted[j] : y \in new \cup {u} => j = k
      /\ \A j \in Key : \A y \in ToSet(m_waiting[j]) : y \notin new \cup {u}
      /\ \A d \in Ctx \ {c} : \A y \in m_tickets[d] : y \notin new \cup {u}
  <2>1. \A j \in Key : \A y \in ToSet(m_waiting[j]) : CtxOf(y) # c
    BY <1>1 DEF IInv, Waiting, Waits
  <2>2. \A d \in Ctx \ {c} : \A y \in m_tickets[d] : CtxOf(y) = d
    BY DEF IInv, Owned
  <2>3. \A y \in new \cup {u} : CtxOf(y) = c /\ m_lock[y] = k
    BY <1>3, <1>4, <1>k
  <2> QED
    BY <2>1, <2>2, <2>3 DEF IInv, Placed
<1>7. /\ now \subseteq bits /\ bits \subseteq granted_bitmap[k]
      /\ m_type[u] \in now => \E y \in rest : m_type[y] = m_type[u]
  BY DEF ClearBit
<1>8. /\ rest \cup {u} \subseteq m_granted[k]
      /\ m_granted[k] \subseteq rest \cup {u} \cup new
      /\ \A y \in rest : y \notin new /\ y # u
  BY <1>5
<1> HIDE DEF new, rest, bits, now
<1>9. /\ m_granted'[k] = rest \cup {u}
      /\ granted_bitmap'[k] = now \cup {"X"}
      /\ \A j \in Key \ {k} : /\ m_granted'[j] = m_granted[j]
                              /\ granted_bitmap'[j] = granted_bitmap[j]
  BY <1>1, <1>2, <1>5 DEF TypeOK
<1>10. /\ m_type'[u] = "X"
       /\ \A y \in Ticket : y \notin new \cup {u} => m_type'[y] = m_type[y]
  BY <1>2, <1>5
<1>11. \A j \in Key : /\ m_granted[j] \subseteq Ticket
                      /\ ToSet(m_waiting[j]) \subseteq Ticket
  BY ListFacts
<1>12. ASSUME NEW j \in Key, j # k PROVE KeyInv(j)'
  <2>1. SameLists(j) /\ SameCount(j)
    BY <1>2, <1>6, <1>9, <1>10, <1>11, <1>12 DEF SameLists, SameCount
  <2> QED
    BY <1>2, <2>1, KeyFrame DEF QInv, SlotsClose
<1>13. GrantedBits(k)'
  <2>1. ASSUME NEW b \in now, b # "X"
        PROVE  \E y \in m_granted'[k] : m_type'[y] = b
    <3>1. PICK y \in m_granted[k] : m_type[y] = b
      BY <1>5, <1>7 DEF QInv, KeyInv, GrantedBits
    <3>2. CASE y \in rest
      BY <1>8, <1>9, <1>10, <1>11, <3>1, <3>2, <1>5
    <3>3. CASE y = u
      <4>1. PICK z \in rest : m_type[z] = b
        BY <1>7, <2>1, <3>1, <3>3
      <4> QED
        BY <1>8, <1>9, <1>10, <1>11, <4>1, <1>5
    <3>4. y \notin new
      BY <1>4, <2>1, <3>1
    <3> QED
      BY <1>8, <3>2, <3>3, <3>4
  <2> QED
    BY <1>9, <1>10, <2>1 DEF GrantedBits
<1>14. WaitingBits(k)'
  BY <1>2, <1>5, <1>6, <1>10, <1>11 DEF QInv, KeyInv, WaitingBits
<1>15. HogCount(k)'
  BY <1>2, <1>5, HogCountIdle DEF QInv, KeyInv
<1>16. ASSUME NEW d \in Ctx, d # c PROVE UpgraderOf(d)'
  <2>1. /\ upgraded'[d] = upgraded[d] /\ ticket'[d] = ticket[d]
        /\ m_tickets'[d] = m_tickets[d] /\ m_tickets[d] \subseteq Ticket
    BY <1>1, <1>2, <1>16 DEF TypeOK
  <2> QED
    BY <1>6, <1>10, <1>16, <2>1, UpgraderFrame DEF QInv
<1>17. UpgraderOf(c)'
  BY <1>1, <1>2 DEF UpgraderOf, TypeOK
<1>18. Attended(k)'
  <2>1. \A y \in m_granted[k] : \E z \in m_granted'[k] : CtxOf(z) = CtxOf(y)
    <3>1. \A y \in new : CtxOf(y) = CtxOf(u)
      BY <1>3, <1>4
    <3> QED
      BY <1>8, <1>9, <3>1
  <2>2. KeepsReasons(k) /\ SameCount(k)
    BY <1>2, <1>6, <1>10, <1>11, <2>1 DEF KeepsReasons, SlotsClose, SameCount
  <2> QED
    BY <1>2, <2>2, AttendedFrame DEF QInv, KeyInv
<1> QED
  BY <1>12, <1>13, <1>14, <1>15, <1>16, <1>17, <1>18 DEF QInv, KeyInv
-----------------------------------------------------------------------------
(* The invariant, and what it says of the queues *)

\* The queues are empty at first.
LEMMA InitQInv == Init => QInv
<1> SUFFICES ASSUME Init PROVE QInv
  OBVIOUS
<1>1. ASSUME NEW k \in Key PROVE KeyInv(k)
  <2>1. ToSet(<<>>) = {}
    BY DEF ToSet
  <2>2. GrantedBits(k) /\ WaitingBits(k)
    BY <2>1 DEF Init, GrantedBits, WaitingBits
  <2>3. HogCount(k)
    BY MDLAssumption DEF Init, HogCount
  <2>4. Attended(k)
    BY <2>1 DEF Init, Attended
  <2> QED
    BY <2>2, <2>3, <2>4 DEF KeyInv
<1>2. \A c \in Ctx : UpgraderOf(c)
  BY DEF Init, UpgraderOf
<1> QED
  BY <1>1, <1>2 DEF QInv

\* What a context does about the outcome of its wait.
LEMMA DecideQ ==
  ASSUME IInv, IInv', QInv, NEW c \in Ctx, Decide(c)
  PROVE  QInv'
<1>1. ASSUME NEW r \in Requests PROVE r[1] \in Key
  BY MDLAssumption
<1>2. ASSUME NEW r \in Requests, GrantAtOnce(c, r[1], r[2], NULL) PROVE QInv'
  BY <1>1, <1>2, GrantAtOnceQ
<1>3. ASSUME NEW r \in Requests, Enqueue(c, r[1], r[2], NULL) PROVE QInv'
  BY <1>1, <1>3, EnqueueQ
<1>4. ASSUME NEW r \in Requests, CloneTicket(c, r[1], r[2]) PROVE QInv'
  BY <1>1, <1>4, CloneTicketQ
<1>5. ASSUME NEW x \in m_tickets[c], Upgrade(c, x) PROVE QInv'
  <2>1. m_lock[x] \in Key /\ m_type[x] \in UpgradableType
    BY <1>5 DEF IInv, Owned, Upgrade
  <2>2. CASE GrantAtOnce(c, m_lock[x], "X", x)
    BY <2>1, <2>2, GrantAtOnceQ
  <2>3. CASE Enqueue(c, m_lock[x], "X", x)
    BY <2>1, <2>3, EnqueueQ
  <2> QED
    BY <1>5, <2>2, <2>3 DEF Upgrade
<1> QED
  BY <1>2, <1>3, <1>4, <1>5, ReleaseLockQ, UpgradeOwnXQ, DowngradeQ DEF Decide

\* Every step keeps the queues consistent.
LEMMA NextQInv == IInv /\ IInv' /\ QInv /\ [Next]_vars => QInv'
<1> SUFFICES ASSUME IInv, IInv', QInv, [Next]_vars PROVE QInv'
  OBVIOUS
<1>1. CASE UNCHANGED vars
  <2> USE <1>1 DEF vars, tickets, queues, loop, locals
  <2>1. ASSUME NEW k \in Key PROVE KeyInv(k)'
    <3>1. SameLists(k) /\ SameCount(k) /\ SlotsClose(k)
      BY DEF SameLists, SameCount, SlotsClose
    <3> QED
      BY <3>1, KeyFrame DEF QInv
  <2>2. ASSUME NEW c \in Ctx PROVE UpgraderOf(c)'
    BY DEF QInv, UpgraderOf
  <2> QED
    BY <2>1, <2>2 DEF QInv
<1>2. ASSUME NEW c \in Ctx, Proceed(c) PROVE QInv'
  BY <1>2, WaitQ, DoneWaitingForQ, CancelWaitQ, MergeQ, RescheduleGrantQ,
     ReschedulePassQ, RescheduleEndQ DEF Proceed
<1> QED
  BY <1>1, <1>2, DecideQ, WaitQ DEF Next

\* Both invariants hold in every reachable state.
THEOREM QueueInvariance == Spec => [](IInv /\ QInv)
<1>1. Init => IInv /\ QInv
  BY InitIInv, InitQInv
<1>2. IInv /\ QInv /\ [Next]_vars => (IInv /\ QInv)'
  BY NextIInv, NextQInv
<1> QED
  BY <1>1, <1>2, PTL DEF Spec

\* can_grant_lock decides by bitmaps that say exactly what is granted and what
\* waits, at most one context upgrades its lock on an object, and no more than
\* max_write_lock_count strong locks are granted in a row.
THEOREM QueuesConsistentHolds == Spec => []QueuesConsistent
<1>1. IInv /\ QInv => QueuesConsistent
  <2> SUFFICES ASSUME IInv, QInv PROVE QueuesConsistent
    OBVIOUS
  <2>1. BitmapsExact
    BY DEF BitmapsExact, QInv, KeyInv, GrantedBits, WaitingBits, IInv,
           BitmapCovers
  <2>2. HogsGiveWay
    BY DEF HogsGiveWay, QInv, KeyInv, HogCount
  <2>3. OneUpgrader
    <3> SUFFICES ASSUME NEW c \in Ctx, NEW d \in Ctx, c # d,
                        upgraded[c] # NULL, upgraded[d] # NULL,
                        m_lock[upgraded[c]] = m_lock[upgraded[d]]
                 PROVE  FALSE
      BY DEF OneUpgrader
    <3> DEFINE x == upgraded[c]
               y == upgraded[d]
               k == m_lock[x]
    <3>1. /\ x \in m_tickets[c] /\ y \in m_tickets[d]
          /\ m_type[x] \in UpgradableType /\ m_type[y] \in UpgradableType
          /\ x # ticket[c] /\ y # ticket[d]
      BY DEF QInv, UpgraderOf
    <3>2. /\ k \in Key /\ x \in m_granted[k] /\ y \in m_granted[k]
          /\ CtxOf(x) = c /\ CtxOf(y) = d
      BY <3>1 DEF IInv, Owned
    <3> HIDE DEF x, y, k
    <3>3. m_type[x] \in HogTypes(k) /\ m_type[y] \in HogTypes(k)
      <4>1. m_type[x] \in TypesOf(k)
        BY <3>2 DEF IInv, Placed
      <4>2. k \notin ScopedKey
        BY <3>1, <4>1 DEF TypesOf, ScopedType, UpgradableType
      <4> QED
        BY <3>1, <4>2 DEF HogTypes, ObjectHogTypes, UpgradableType
    <3> QED
      BY <3>2, <3>3, HogFacts DEF IInv, GrantedCompatible
  <2> QED
    BY <2>1, <2>2, <2>3 DEF QueuesConsistent
<1> QED
  BY <1>1, QueueInvariance, PTL

\* reschedule_waiters wakes up everybody whom can_grant_lock would let through:
\* outside of it, and unless strong requests have been passed over, no open
\* request waits without a lock or a waiter that stands in its way.
THEOREM NoForgottenWaiterHolds == Spec => []NoForgottenWaiter
<1>1. IInv /\ QInv => NoForgottenWaiter
  <2> SUFFICES ASSUME IInv, QInv, NEW k \in Key, m_rwlock[k] = NULL,
                      m_hog_lock_count[k] < MaxWriteLockCount,
                      NEW x \in Waiters(k)
               PROVE  HasReason(k, x)
    BY DEF NoForgottenWaiter
  <2>1. Reason(k, x) /\ x \in ToSet(m_waiting[k])
    BY DEF QInv, KeyInv, Attended, Waiters
  <2>2. ASSUME NEW y \in ToSet(m_waiting[k]), m_wait_status[CtxOf(y)] # "EMPTY"
        PROVE  ToSet(m_waiting[k]) # Waiters(k)
    BY <2>2 DEF Waiters
  <2>3. ASSUME NEW y \in ToSet(m_waiting[k]), CtxOf(y) # CtxOf(x),
               m_type[y] \in WaitingIncompatible(k, m_type[x])
        PROVE  Blockers(k, x) \ {CtxOf(x)} # {}
    <3>1. CtxOf(y) \in Blockers(k, x)
      BY <2>3 DEF Blockers
    <3> QED
      BY <2>3, <3>1
  <2> QED
    BY <2>1, <2>2, <2>3 DEF Reason, HasReason
<1> QED
  BY <1>1, QueueInvariance, PTL
=============================================================================
