-------------------------- MODULE MDLDeadlockProofs -------------------------
(***************************************************************************)
(* The deadlock detector for any set of contexts, keys, tickets and        *)
(* requests and any MAX_SEARCH_DEPTH: it is one of the ways to choose      *)
(* victims that MDL allows, the paths it walks are real, and no deadlock   *)
(* escapes it.                                                             *)
(*                                                                         *)
(* Two arguments that have little in common.  That a path is real is due   *)
(* to the read locks, which a search keeps along its path.  That no        *)
(* deadlock escapes is due to the order of things in acquire_lock: a       *)
(* context publishes m_waiting_for before it searches, edges between two   *)
(* contexts that wait neither come nor go, and so the search of whichever  *)
(* member of a loop is the last to publish sees all of the loop.           *)
(***************************************************************************)
EXTENDS MDLDeadlock, MDLQueueProofs, WellFoundedInduction

\* m_waiting_for is set from will_wait_for to done_waiting_for.
Published ==
  \A v \in Ctx :
    m_waiting_for[v] = IF pc[v] \in {"search", "wait", "done"}
                       THEN ticket[v] ELSE NULL

SearchNode == [ctx : Ctx, todo : SUBSET Ctx]

SearchTypes ==
  /\ stack \in [Ctx -> Seq(SearchNode)]
  /\ victim \in [Ctx -> Ctx \cup {NULL}]
  /\ \A c \in Ctx : pc[c] # "search" => stack[c] = <<>> /\ victim[c] = NULL
  /\ \A c \in Ctx : victim[c] # NULL => stack[c] = <<>>

\* Node i on path s of c's search: it waits, the previous node waits for it,
\* and it waits for the nodes that remain to be visited.
RealNode(c, s, i) ==
  /\ m_waiting_for[s[i].ctx] # NULL
  /\ i = 1 => s[i].ctx = c
  /\ i > 1 => s[i].ctx \in Adjacent(s[i - 1].ctx)
  /\ s[i].todo \subseteq Adjacent(s[i].ctx)

RealPath(c) == \A i \in DOMAIN stack[c] : RealNode(c, stack[c], i)

\* A victim is kept waiting until it has been informed.
RealVictim(c) == victim[c] # NULL => m_waiting_for[victim[c]] # NULL

\* Contexts that wait, as the detector sees them.
Blocked ==
  {c \in Ctx : m_waiting_for[c] # NULL /\ m_wait_status[c] = "EMPTY"}

\* Every member of S waits for another member.
Deadlocked(S) == S # {} /\ \A c \in S : Adjacent(c) \cap S # {}

\* A search with path s has not turned its back on S: for every node of S on
\* the path, the next node or one that remains to be visited is in S.
Explores(s, S) ==
  \A i \in DOMAIN s :
    s[i].ctx \in S => \/ s[i].todo \cap S # {}
                      \/ i < Len(s) /\ s[i + 1].ctx \in S

\* Every deadlock is still being searched for by one of its members.
Detected ==
  \A S \in SUBSET Blocked :
    Deadlocked(S) => \E c \in S : pc[c] = "search" /\ Explores(stack[c], S)

SearchInv ==
  /\ SearchTypes
  /\ \A c \in Ctx : RealPath(c) /\ RealVictim(c)

DInv == IInv /\ Published /\ SearchInv /\ Detected
-----------------------------------------------------------------------------
(* What a step of the protocol leaves alone *)

\* Only tickets of context d enter or leave a list or change their type.
Local(d) ==
  \A z \in Ticket : CtxOf(z) # d =>
    /\ m_type'[z] = m_type[z]
    /\ \A k \in Key :
         /\ z \in m_granted'[k] <=> z \in m_granted[k]
         /\ z \in ToSet(m_waiting'[k]) <=> z \in ToSet(m_waiting[k])

\* The type of a ticket changes when the ticket is created or destroyed, and
\* later only while it is granted.
TypesStay ==
  \A z \in Ticket : m_type'[z] # m_type[z] =>
    \/ m_lock[z] = NULL
    \/ m_type'[z] = NULL
    \/ \E k \in Key : z \in m_granted[k]

\* The context that takes the step stays what it is for the detector.
PublishedStays(c) ==
  /\ m_waiting_for' = m_waiting_for
  /\ \A d \in Ctx \ {c} : pc'[d] = pc[d] /\ ticket'[d] = ticket[d]
  /\ \/ pc[c] \notin {"search", "wait", "done"}
        /\ pc'[c] \notin {"search", "wait", "done"}
     \/ /\ pc[c] \in {"search", "wait", "done"}
        /\ pc'[c] \in {"search", "wait", "done"}
        /\ ticket'[c] = ticket[c]

\* Nobody else enters or leaves the stretch of code where m_waiting_for is set.
LEMMA PublishedFrame ==
  ASSUME Published, NEW c \in Ctx, PublishedStays(c)
  PROVE  Published'
<1> SUFFICES ASSUME NEW v \in Ctx
             PROVE  m_waiting_for'[v] = IF pc'[v] \in {"search", "wait", "done"}
                                        THEN ticket'[v] ELSE NULL
  BY DEF Published
<1>1. m_waiting_for[v] = IF pc[v] \in {"search", "wait", "done"}
                         THEN ticket[v] ELSE NULL
  BY DEF Published
<1>2. CASE v = c
  BY <1>1, <1>2 DEF PublishedStays
<1>3. CASE v # c
  BY <1>1, <1>3 DEF PublishedStays
<1> QED
  BY <1>2, <1>3

\* A new ticket, granted (try_acquire_lock_impl, clone_ticket) or waiting.
LEMMA GrantAtOnceStep ==
  ASSUME IInv, NEW c \in Ctx, NEW k \in Key, NEW type, NEW u,
         GrantAtOnce(c, k, type, u)
  PROVE  Local(c) /\ TypesStay /\ PublishedStays(c)
<1> DEFINE x == NewTicket(c)
<1>1. x \in Ticket /\ CtxOf(x) = c /\ m_lock[x] = NULL /\ TypeOK
  BY NewTicketFacts DEF GrantAtOnce, MayRequest, IInv
<1>2. /\ m_type' = [m_type EXCEPT ![x] = type]
      /\ m_granted' = [m_granted EXCEPT ![k] = @ \cup {x}]
      /\ m_waiting' = m_waiting /\ m_waiting_for' = m_waiting_for
      /\ pc[c] = "idle"
      /\ pc' = [pc EXCEPT ![c] = IF u = NULL THEN "idle" ELSE "merge"]
      /\ ticket' = [ticket EXCEPT ![c] = IF u = NULL THEN NULL ELSE x]
  BY DEF GrantAtOnce, MayRequest, Create, AddGranted, Goto
<1> HIDE DEF x
<1>3. Local(c)
  BY <1>1, <1>2 DEF Local, TypeOK
<1>4. TypesStay
  BY <1>1, <1>2 DEF TypesStay, TypeOK
<1>5. PublishedStays(c)
  BY <1>1, <1>2 DEF PublishedStays, TypeOK
<1> QED
  BY <1>3, <1>4, <1>5

\* clone_ticket, a ticket granted beside one that the context holds.
LEMMA CloneTicketStep ==
  ASSUME IInv, NEW c \in Ctx, NEW k \in Key, NEW type, CloneTicket(c, k, type)
  PROVE  Local(c) /\ TypesStay /\ PublishedStays(c)
<1> DEFINE x == NewTicket(c)
<1>1. x \in Ticket /\ CtxOf(x) = c /\ m_lock[x] = NULL /\ TypeOK
  BY NewTicketFacts DEF CloneTicket, IInv
<1>2. /\ m_type' = [m_type EXCEPT ![x] = type]
      /\ m_granted' = [m_granted EXCEPT ![k] = @ \cup {x}]
      /\ m_waiting' = m_waiting /\ m_waiting_for' = m_waiting_for
      /\ pc[c] = "idle" /\ pc' = pc /\ ticket' = ticket
  BY DEF CloneTicket, Create, AddGranted, locals
<1> HIDE DEF x
<1>3. Local(c)
  BY <1>1, <1>2 DEF Local, TypeOK
<1>4. TypesStay
  BY <1>1, <1>2 DEF TypesStay, TypeOK
<1>5. PublishedStays(c)
  BY <1>2 DEF PublishedStays
<1> QED
  BY <1>3, <1>4, <1>5

\* A request that cannot be granted enters the queue of its lock.
LEMMA EnqueueStep ==
  ASSUME IInv, NEW c \in Ctx, NEW k \in Key, NEW type, NEW u,
         Enqueue(c, k, type, u)
  PROVE  Local(c) /\ TypesStay /\ PublishedStays(c)
<1> DEFINE x == NewTicket(c)
<1>1. /\ x \in Ticket /\ CtxOf(x) = c /\ m_lock[x] = NULL /\ TypeOK
      /\ x \notin ToSet(m_waiting[k])
  BY NewTicketFacts, FreeTicketUnlisted DEF Enqueue, MayRequest, IInv
<1>2. /\ m_type' = [m_type EXCEPT ![x] = type]
      /\ m_waiting' = [m_waiting EXCEPT ![k] = Append(@, x)]
      /\ m_granted' = m_granted /\ m_waiting_for' = m_waiting_for
      /\ pc[c] = "idle" /\ pc' = [pc EXCEPT ![c] = "queued"]
      /\ ticket' = [ticket EXCEPT ![c] = x]
  BY DEF Enqueue, MayRequest, Create, Goto
<1> HIDE DEF x
<1>3. /\ ToSet(m_waiting'[k]) = ToSet(m_waiting[k]) \cup {x}
      /\ \A j \in Key \ {k} : m_waiting'[j] = m_waiting[j]
  <2>1. NoDuplicates(m_waiting[k]) /\ m_waiting[k] \in Seq(Ticket)
    BY ListFacts DEF IInv, Waiting
  <2>2. ToSet(Append(m_waiting[k], x)) = ToSet(m_waiting[k]) \cup {x}
    BY <1>1, <2>1, AppendFacts
  <2> QED
    BY <1>1, <1>2, <2>2 DEF TypeOK
<1>4. Local(c)
  BY <1>1, <1>2, <1>3 DEF Local, TypeOK
<1>5. TypesStay
  BY <1>1, <1>2 DEF TypesStay, TypeOK
<1>6. PublishedStays(c)
  BY <1>1, <1>2 DEF PublishedStays, TypeOK
<1> QED
  BY <1>4, <1>5, <1>6

\* remove_ticket: ticket x of context c leaves its list.
LEMMA RemovalStep ==
  ASSUME IInv, NEW c \in Ctx, NEW x \in Ticket, CtxOf(x) = c, NEW k \in Key,
         NEW g, NEW w, NEW types, AfterRemoval(c, k, x, g, w, types)
  PROVE  /\ \A z \in Ticket \ {x} : m_type'[z] = m_type[z]
         /\ m_type'[x] \in {m_type[x], NULL}
         /\ \A d \in Ctx \ {c} : pc'[d] = pc[d] /\ ticket'[d] = ticket[d]
         /\ pc'[c] \in {"idle", "resched"}
<1>1. TypeOK
  BY DEF IInv
<1>2. CASE IsEmpty(g, w)
  BY <1>1, <1>2 DEF AfterRemoval, Finish, Goto, TypeOK
<1>3. CASE ~IsEmpty(g, w)
  BY <1>1, <1>3 DEF AfterRemoval, StartReschedule, Goto, tickets, TypeOK
<1> QED
  BY <1>2, <1>3

\* release_lock takes a granted ticket off its list.
LEMMA ReleaseLockStep ==
  ASSUME IInv, NEW c \in Ctx, NEW x \in m_tickets[c], ReleaseLock(c, x)
  PROVE  Local(c) /\ TypesStay /\ PublishedStays(c)
<1>k. PICK k \in Key : k = m_lock[x]
  BY DEF IInv, Owned
<1>1. x \in Ticket /\ CtxOf(x) = c /\ TypeOK
  BY DEF IInv, Owned, TypeOK
<1>2. /\ m_granted' = [m_granted EXCEPT ![k] = @ \ {x}]
      /\ m_waiting' = m_waiting /\ m_waiting_for' = m_waiting_for
      /\ pc[c] = "idle"
      /\ AfterRemoval(c, k, x, m_granted[k] \ {x}, m_waiting[k],
                      waiting_bitmap[k])
  BY <1>k DEF ReleaseLock
<1>3. /\ \A z \in Ticket \ {x} : m_type'[z] = m_type[z]
      /\ m_type'[x] \in {m_type[x], NULL}
      /\ \A d \in Ctx \ {c} : pc'[d] = pc[d] /\ ticket'[d] = ticket[d]
      /\ pc'[c] \in {"idle", "resched"}
  BY <1>1, <1>2, RemovalStep
<1>4. Local(c)
  BY <1>1, <1>2, <1>3 DEF Local, TypeOK
<1>5. TypesStay
  BY <1>1, <1>3 DEF TypesStay
<1>6. PublishedStays(c)
  BY <1>2, <1>3 DEF PublishedStays
<1> QED
  BY <1>4, <1>5, <1>6

\* A wait that has failed takes the request out of the queue.
LEMMA CancelWaitStep ==
  ASSUME IInv, NEW c \in Ctx, CancelWait(c)
  PROVE  Local(c) /\ TypesStay /\ PublishedStays(c)
<1>0. TypeOK /\ pc[c] = "cancel" /\ pc[c] \in Waits /\ m_wait_status[c] # "GRANTED"
  BY DEF CancelWait, IInv, Slots, Waits
<1>x. PICK x \in Ticket : x = ticket[c]
  BY <1>0 DEF IInv, Slots
<1>k. PICK k \in Key : k = m_lock[x]
  BY <1>0, <1>x DEF IInv, Slots
<1>1. CtxOf(x) = c /\ x \in ToSet(m_waiting[k])
  BY <1>0, <1>x, <1>k DEF IInv, Slots
<1>2. ToSet(Drop(m_waiting[k], x)) = ToSet(m_waiting[k]) \ {x}
  BY <1>1, ListFacts, DropFacts DEF IInv, Waiting
<1>3. /\ m_waiting' = [m_waiting EXCEPT ![k] = Drop(m_waiting[k], x)]
      /\ m_granted' = m_granted /\ m_waiting_for' = m_waiting_for
      /\ \E types : AfterRemoval(c, k, x, m_granted[k], Drop(m_waiting[k], x), types)
  BY <1>x, <1>k DEF CancelWait
<1>4. /\ \A z \in Ticket \ {x} : m_type'[z] = m_type[z]
      /\ m_type'[x] \in {m_type[x], NULL}
      /\ \A d \in Ctx \ {c} : pc'[d] = pc[d] /\ ticket'[d] = ticket[d]
      /\ pc'[c] \in {"idle", "resched"}
  BY <1>1, <1>3, RemovalStep
<1>5. \A j \in Key : \A z \in Ticket \ {x} :
        z \in ToSet(m_waiting'[j]) <=> z \in ToSet(m_waiting[j])
  BY <1>0, <1>2, <1>3 DEF TypeOK
<1>6. Local(c)
  BY <1>1, <1>3, <1>4, <1>5 DEF Local
<1>7. TypesStay
  BY <1>4 DEF TypesStay
<1>8. PublishedStays(c)
  BY <1>0, <1>3, <1>4 DEF PublishedStays
<1> QED
  BY <1>6, <1>7, <1>8

\* downgrade_exclusive_lock changes the type of a granted ticket.
LEMMA DowngradeStep ==
  ASSUME IInv, NEW c \in Ctx, NEW x \in m_tickets[c], NEW type,
         Downgrade(c, x, type)
  PROVE  Local(c) /\ TypesStay /\ PublishedStays(c)
<1>k. PICK k \in Key : k = m_lock[x]
  BY DEF IInv, Owned
<1>1. x \in Ticket /\ CtxOf(x) = c /\ TypeOK /\ pc[c] = "idle"
  BY DEF IInv, Owned, TypeOK, Downgrade
<1>2. x \in m_granted[k]
  BY <1>1, <1>k, IdleFacts
<1>3. /\ m_type' = [m_type EXCEPT ![x] = type]
      /\ m_granted' = m_granted /\ m_waiting' = m_waiting
      /\ m_waiting_for' = m_waiting_for
      /\ pc' = [pc EXCEPT ![c] = "resched"]
      /\ ticket' = [ticket EXCEPT ![c] = x]
  BY DEF Downgrade, StartReschedule, Goto
<1>4. Local(c)
  BY <1>1, <1>3 DEF Local, TypeOK
<1>5. TypesStay
  BY <1>1, <1>2, <1>3 DEF TypesStay, TypeOK
<1>6. PublishedStays(c)
  BY <1>1, <1>3 DEF PublishedStays, TypeOK
<1> QED
  BY <1>4, <1>5, <1>6

\* Upgrading beside an own X moves no ticket.
LEMMA UpgradeOwnXStep ==
  ASSUME IInv, NEW c \in Ctx, NEW x, UpgradeOwnX(c, x)
  PROVE  Local(c) /\ TypesStay /\ PublishedStays(c)
<1>1. Local(c) /\ TypesStay
  BY DEF UpgradeOwnX, Local, TypesStay, tickets, queues
<1>2. PublishedStays(c)
  BY DEF UpgradeOwnX, Goto, PublishedStays, IInv, TypeOK
<1> QED
  BY <1>1, <1>2

\* The end of an upgrade turns two granted tickets into one.
LEMMA MergeStep ==
  ASSUME IInv, NEW c \in Ctx, Merge(c)
  PROVE  Local(c) /\ TypesStay /\ PublishedStays(c)
<1>1. TypeOK /\ pc[c] = "merge"
  BY DEF IInv, Merge
<1>u. PICK u \in m_tickets[c] : u = upgraded[c]
  BY <1>1 DEF IInv, Upgrading, UpgradingOf
<1>k. PICK k \in Key : k = m_lock[u]
  BY DEF IInv, Owned
<1>n. PICK new \in SUBSET m_tickets[c] : new = {ticket[c]} \ {NULL}
  BY <1>1 DEF IInv, Upgrading, UpgradingOf
<1>2. /\ m_granted' = [m_granted EXCEPT
           ![k] = (m_granted[k] \ (new \cup {u})) \cup {u}]
      /\ m_type' = [x \in Ticket |-> IF x \in new THEN NULL
                                     ELSE IF x = u THEN "X" ELSE m_type[x]]
      /\ m_waiting' = m_waiting /\ m_waiting_for' = m_waiting_for
      /\ pc' = [pc EXCEPT ![c] = "idle"]
      /\ ticket' = [ticket EXCEPT ![c] = NULL]
  BY <1>u, <1>k, <1>n DEF Merge, Goto
<1>3. \A y \in new \cup {u} : y \in Ticket /\ CtxOf(y) = c
  BY <1>1 DEF IInv, TypeOK, Owned
<1>4. u \in m_granted[k]
  BY <1>1, <1>k DEF IInv, Owned
<1>5. Local(c)
  BY <1>1, <1>2, <1>3 DEF Local, TypeOK
<1>6. TypesStay
  BY <1>2, <1>3, <1>4 DEF TypesStay
<1>7. PublishedStays(c)
  BY <1>1, <1>2 DEF PublishedStays, TypeOK
<1> QED
  BY <1>5, <1>6, <1>7

\* reschedule_waiters ends and a ticket that has been removed is destroyed.
LEMMA RescheduleEndStep ==
  ASSUME IInv, NEW c \in Ctx, NEW k \in Key, RescheduleEnd(c, k)
  PROVE  Local(c) /\ TypesStay /\ PublishedStays(c) /\ pc[c] = "resched"
<1>1. /\ TypeOK /\ pc[c] = "resched" /\ ticket[c] \in Ticket
      /\ CtxOf(ticket[c]) = c
  BY Values DEF IInv, Iterating, RescheduleEnd
<1> DEFINE gone == {ticket[c]} \ m_granted[k]
<1>2. /\ m_type' = [x \in Ticket |-> IF x \in gone THEN NULL ELSE m_type[x]]
      /\ m_granted' = m_granted /\ m_waiting' = m_waiting
      /\ m_waiting_for' = m_waiting_for
      /\ pc' = [pc EXCEPT ![c] = "idle"]
      /\ ticket' = [ticket EXCEPT ![c] = NULL]
  BY DEF RescheduleEnd, Finish, Goto, queues
<1>3. \A z \in gone : CtxOf(z) = c
  BY <1>1
<1> HIDE DEF gone
<1>4. Local(c)
  BY <1>2, <1>3 DEF Local
<1>5. TypesStay
  BY <1>2 DEF TypesStay
<1>6. PublishedStays(c)
  BY <1>1, <1>2 DEF PublishedStays, TypeOK
<1> QED
  BY <1>1, <1>4, <1>5, <1>6

\* A grant from the queue concerns the context that is granted its request.
LEMMA RescheduleGrantStep ==
  ASSUME IInv, NEW c \in Ctx, NEW k \in Key, RescheduleGrant(c, k)
  PROVE  /\ TypesStay
         /\ UNCHANGED <<pc, ticket, m_waiting_for>>
         /\ \E d \in Ctx : Local(d) /\ m_wait_status'[d] # "EMPTY"
<1>1. it[k] \in Seq(Ticket) /\ NoDuplicates(it[k]) /\ it[k] # <<>>
  BY ListFacts DEF IInv, Iterating, RescheduleGrant
<1>x. PICK x \in Ticket : x = Head(it[k]) /\ x \in ToSet(m_waiting[k])
  <2>1. Head(it[k]) \in ToSet(it[k])
    BY <1>1, TailFacts
  <2>2. Head(it[k]) \in ToSet(m_waiting[k])
    BY <2>1 DEF IInv, Iterating
  <2> QED
    BY <2>2, ListFacts
<1>2. ToSet(Drop(m_waiting[k], x)) = ToSet(m_waiting[k]) \ {x}
  BY <1>x, ListFacts, DropFacts DEF IInv, Waiting
<1>3. /\ m_waiting' = [m_waiting EXCEPT ![k] = Drop(@, x)]
      /\ m_granted' = [m_granted EXCEPT ![k] = @ \cup {x}]
      /\ m_type' = m_type /\ UNCHANGED <<pc, ticket, m_waiting_for>>
      /\ SetStatus(CtxOf(x), "GRANTED")
  BY <1>x DEF RescheduleGrant, AddGranted, tickets, locals
<1>4. \A j \in Key : \A z \in Ticket \ {x} :
        /\ z \in ToSet(m_waiting'[j]) <=> z \in ToSet(m_waiting[j])
        /\ z \in m_granted'[j] <=> z \in m_granted[j]
  BY <1>2, <1>3 DEF IInv, TypeOK
<1>5. Local(CtxOf(x))
  BY <1>3, <1>4 DEF Local
<1>6. CtxOf(x) \in Ctx
  BY Values
<1>7. m_wait_status'[CtxOf(x)] # "EMPTY"
  BY <1>3, <1>6 DEF SetStatus, IInv, TypeOK
<1>8. TypesStay
  BY <1>3 DEF TypesStay
<1> QED
  BY <1>3, <1>5, <1>6, <1>7, <1>8

\* The tickets of context w are where they were, and of the same types.
Stays(w) ==
  /\ m_waiting_for'[w] = m_waiting_for[w]
  /\ \A z \in Ticket : CtxOf(z) = w =>
       /\ m_type'[z] = m_type[z]
       /\ \A k \in Key :
            /\ z \in m_granted'[k] <=> z \in m_granted[k]
            /\ z \in ToSet(m_waiting'[k]) <=> z \in ToSet(m_waiting[k])

\* A step outside of find_deadlock: contexts that wait and go on waiting have
\* their tickets where they were, and who begins to wait begins a search.
CalmStep ==
  /\ TypesStay
  /\ Published'
  /\ \A w \in Ctx : w \in Blocked /\ w \in Blocked' => Stays(w)
  /\ \A w \in Ctx : w \in Blocked' /\ w \notin Blocked =>
       pc[w] # "search" /\ pc'[w] = "search"
  /\ \A w \in Ctx : pc[w] = "search" => pc'[w] = "search"

\* A context that waits with an open slot is searching or asleep.
LEMMA BlockedFacts ==
  ASSUME IInv, Published, NEW w \in Ctx, w \in Blocked
  PROVE  /\ pc[w] \in {"search", "wait"}
         /\ m_waiting_for[w] = ticket[w] /\ ticket[w] \in Ticket
         /\ CtxOf(ticket[w]) = w /\ m_lock[ticket[w]] \in Key
         /\ ticket[w] \in ToSet(m_waiting[m_lock[ticket[w]]])
<1>1. m_waiting_for[w] # NULL /\ m_wait_status[w] = "EMPTY"
  BY DEF Blocked
<1>2. pc[w] \in {"search", "wait", "done"} /\ m_waiting_for[w] = ticket[w]
  BY <1>1 DEF Published
<1>3. pc[w] # "done"
  BY <1>1 DEF IInv, Slots
<1> QED
  BY <1>1, <1>2, <1>3 DEF IInv, Slots, Waits

\* A step of a context that does not wait, on its own tickets.
LEMMA LocalStep ==
  ASSUME IInv, Published, NEW c \in Ctx, pc[c] \notin {"search", "wait", "done"},
         Local(c), TypesStay, PublishedStays(c),
         \A d \in Ctx \ {c} : m_wait_status'[d] = m_wait_status[d]
  PROVE  CalmStep
<1>1. Published'
  BY PublishedFrame
<1>2. c \notin Blocked /\ c \notin Blocked'
  BY DEF Blocked, Published, PublishedStays
<1>3. ASSUME NEW w \in Ctx, w # c
      PROVE  /\ Stays(w)
             /\ w \in Blocked' <=> w \in Blocked
             /\ pc'[w] = pc[w]
  BY <1>3 DEF Local, Stays, Blocked, PublishedStays
<1> QED
  BY <1>1, <1>2, <1>3 DEF CalmStep

\* A step that moves no ticket, and closes wait slots at most.
LEMMA WaitStep ==
  ASSUME IInv, Published, Published',
         UNCHANGED <<m_type, m_granted, m_waiting>>,
         \A w \in Ctx : pc[w] = "search" => pc'[w] = "search",
         \A w \in Ctx : \/ m_waiting_for'[w] \in {m_waiting_for[w], NULL}
                        \/ pc[w] = "queued" /\ pc'[w] = "search",
         \A w \in Ctx : m_wait_status'[w] = "EMPTY" => m_wait_status[w] = "EMPTY"
  PROVE  CalmStep
<1>1. TypesStay
  BY DEF TypesStay
<1>2. ASSUME NEW w \in Ctx, w \in Blocked, w \in Blocked' PROVE Stays(w)
  <2>1. m_waiting_for'[w] = m_waiting_for[w]
    <3>1. pc[w] \in {"search", "wait"}
      BY <1>2, BlockedFacts
    <3>2. m_waiting_for'[w] # NULL /\ m_wait_status[w] = "EMPTY"
      BY <1>2 DEF Blocked
    <3>3. CASE m_waiting_for'[w] \in {m_waiting_for[w], NULL}
      BY <3>2, <3>3
    <3>4. CASE pc[w] = "queued"
      BY <3>1, <3>4
    <3> QED
      BY <3>3, <3>4
  <2> QED
    BY <2>1 DEF Stays
<1>3. ASSUME NEW w \in Ctx, w \in Blocked', w \notin Blocked
      PROVE  pc[w] # "search" /\ pc'[w] = "search"
  BY <1>3 DEF Blocked
<1> QED
  BY <1>1, <1>2, <1>3 DEF CalmStep

\* The operations that a connection may begin are calm.
LEMMA DecideCalm ==
  ASSUME IInv, Published, NEW c \in Ctx, Decide(c)
  PROVE  CalmStep
<1>0. \A r \in Requests : r[1] \in Key
  BY MDLAssumption
<1>1. ASSUME NEW k \in Key, NEW type, NEW u,
             GrantAtOnce(c, k, type, u) \/ Enqueue(c, k, type, u)
      PROVE  CalmStep
  <2>1. /\ pc[c] = "idle"
        /\ \A d \in Ctx \ {c} : m_wait_status'[d] = m_wait_status[d]
    BY <1>1 DEF GrantAtOnce, Enqueue, MayRequest, IInv, TypeOK
  <2>2. Local(c) /\ TypesStay /\ PublishedStays(c)
    BY <1>1, GrantAtOnceStep, EnqueueStep
  <2> QED
    BY <2>1, <2>2, LocalStep
<1>2. ASSUME NEW k \in Key, NEW type, CloneTicket(c, k, type) PROVE CalmStep
  BY <1>2, CloneTicketStep, LocalStep DEF CloneTicket
<1>3. ASSUME NEW x \in m_tickets[c], ReleaseLock(c, x) PROVE CalmStep
  BY <1>3, ReleaseLockStep, LocalStep DEF ReleaseLock
<1>4. ASSUME NEW x \in m_tickets[c], Upgrade(c, x) PROVE CalmStep
  <2>1. m_lock[x] \in Key
    BY DEF IInv, Owned
  <2> QED
    BY <1>1, <1>4, <2>1 DEF Upgrade
<1>5. ASSUME NEW x \in m_tickets[c], UpgradeOwnX(c, x) PROVE CalmStep
  BY <1>5, UpgradeOwnXStep, LocalStep DEF UpgradeOwnX
<1>6. ASSUME NEW x \in m_tickets[c], NEW type, Downgrade(c, x, type)
      PROVE  CalmStep
  BY <1>6, DowngradeStep, LocalStep DEF Downgrade
<1> QED
  BY <1>0, <1>1, <1>2, <1>3, <1>4, <1>5, <1>6 DEF Decide

\* So is the further course of an operation, the search excepted.
LEMMA ProceedCalm ==
  ASSUME IInv, Published, NEW c \in Ctx, Proceed(c)
  PROVE  CalmStep
<1>0. TypeOK
  BY DEF IInv
<1>1. CASE WillWaitFor(c)
  <2>1. /\ pc[c] = "queued" /\ pc' = [pc EXCEPT ![c] = "search"]
        /\ m_waiting_for' = [m_waiting_for EXCEPT ![c] = ticket[c]]
        /\ UNCHANGED <<m_type, m_granted, m_waiting, m_wait_status, ticket>>
    BY <1>1 DEF WillWaitFor, Goto, tickets, queues
  <2>2. Published'
    BY <1>0, <2>1 DEF Published, TypeOK
  <2> QED
    BY <1>0, <2>1, <2>2, WaitStep DEF TypeOK
<1>2. CASE DoneWaitingFor(c)
  <2>1. /\ pc[c] = "done"
        /\ \E label \in {"cancel", "merge", "idle"} : pc' = [pc EXCEPT ![c] = label]
        /\ m_waiting_for' = [m_waiting_for EXCEPT ![c] = NULL]
        /\ ticket' = ticket \/ ticket' = [ticket EXCEPT ![c] = NULL]
        /\ UNCHANGED <<m_type, m_granted, m_waiting, m_wait_status>>
    BY <1>2 DEF DoneWaitingFor, Goto, queues
  <2>2. Published'
    <3> SUFFICES ASSUME NEW v \in Ctx
                 PROVE  m_waiting_for'[v] =
                          IF pc'[v] \in {"search", "wait", "done"}
                          THEN ticket'[v] ELSE NULL
      BY DEF Published
    <3>1. CASE v = c
      BY <1>0, <2>1, <3>1 DEF TypeOK
    <3>2. CASE v # c
      BY <1>0, <2>1, <3>2 DEF TypeOK, Published
    <3> QED
      BY <3>1, <3>2
  <2>3. \A w \in Ctx : pc[w] = "search" => pc'[w] = "search"
    BY <1>0, <2>1 DEF TypeOK
  <2>4. \A w \in Ctx : m_waiting_for'[w] \in {m_waiting_for[w], NULL}
    BY <1>0, <2>1 DEF TypeOK
  <2> QED
    BY <2>1, <2>2, <2>3, <2>4, WaitStep
<1>3. CASE CancelWait(c)
  BY <1>3, CancelWaitStep, LocalStep DEF CancelWait
<1>4. CASE Merge(c)
  BY <1>4, MergeStep, LocalStep DEF Merge
<1>5. ASSUME NEW k \in Key, ReschedulePass(c, k) PROVE CalmStep
  <2>1. UNCHANGED <<m_type, m_granted, m_waiting, m_wait_status, m_waiting_for,
                    pc, ticket>>
    BY <1>5 DEF ReschedulePass, tickets, queues, locals
  <2>2. Published'
    BY <2>1 DEF Published
  <2> QED
    BY <2>1, <2>2, WaitStep
<1>6. ASSUME NEW k \in Key, RescheduleEnd(c, k) PROVE CalmStep
  BY <1>6, RescheduleEndStep, LocalStep DEF RescheduleEnd
<1>7. ASSUME NEW k \in Key, RescheduleGrant(c, k) PROVE CalmStep
  <2>1. TypesStay /\ UNCHANGED <<pc, ticket, m_waiting_for>>
    BY <1>7, RescheduleGrantStep
  <2>2. PICK d \in Ctx : Local(d) /\ m_wait_status'[d] # "EMPTY"
    BY <1>7, RescheduleGrantStep
  <2>3. \A w \in Ctx : m_wait_status'[w] = "EMPTY" => m_wait_status[w] = "EMPTY"
    <3>1. it[k] \in Seq(Ticket) /\ it[k] # <<>>
      BY <1>7, ListFacts DEF RescheduleGrant
    <3>2. Head(it[k]) \in Ticket
      BY <3>1, HeadTailProperties
    <3> QED
      BY <1>0, <1>7, <3>2, Values DEF RescheduleGrant, SetStatus, TypeOK
  <2>4. Published'
    BY <2>1 DEF Published
  <2>5. ASSUME NEW w \in Ctx, w \in Blocked' PROVE w \in Blocked /\ Stays(w)
    <3>1. w # d /\ w \in Blocked
      BY <2>1, <2>2, <2>3, <2>5 DEF Blocked
    <3> QED
      BY <2>1, <2>2, <3>1 DEF Stays, Local
  <2> QED
    BY <2>1, <2>4, <2>5 DEF CalmStep
<1> QED
  BY <1>1, <1>2, <1>3, <1>4, <1>5, <1>6, <1>7 DEF Proceed

\* The end of a wait is calm.
LEMMA WakeUpCalm ==
  ASSUME IInv, Published, NEW c \in Ctx,
         WakeUp(c) \/ \E status \in AbortStatus : AbortWait(c, status)
  PROVE  CalmStep
<1>1. /\ pc[c] = "wait" /\ pc' = [pc EXCEPT ![c] = "done"]
      /\ UNCHANGED <<m_type, m_granted, m_waiting, m_waiting_for, ticket>>
      /\ TypeOK
  BY DEF WakeUp, AbortWait, Goto, tickets, queues, IInv
<1>2. \A w \in Ctx : m_wait_status'[w] = "EMPTY" => m_wait_status[w] = "EMPTY"
  BY <1>1 DEF WakeUp, AbortWait, TypeOK
<1>3. Published'
  BY <1>1 DEF Published, TypeOK
<1> QED
  BY <1>1, <1>2, <1>3, WaitStep DEF TypeOK
-----------------------------------------------------------------------------
(* Edges of the wait-for graph *)

\* What it means to wait for a context.
LEMMA AdjacentMeans ==
  ASSUME NEW u \in Ctx, NEW w, NEW x, NEW k, x = m_waiting_for[u], k = m_lock[x]
  PROVE  w \in Adjacent(u) <=>
           /\ w # u
           /\ \/ \E z \in m_granted[k] :
                   CtxOf(z) = w /\ m_type[z] \in GrantedIncompatible(k, m_type[x])
              \/ \E z \in ToSet(m_waiting[k]) :
                   CtxOf(z) = w /\ m_type[z] \in WaitingIncompatible(k, m_type[x])
BY DEF Adjacent, Blockers

\* The same after a step.
LEMMA AdjacentMeansNext ==
  ASSUME NEW u \in Ctx, NEW w, NEW x, NEW k,
         x = m_waiting_for'[u], k = m_lock'[x]
  PROVE  w \in Adjacent(u)' <=>
           /\ w # u
           /\ \/ \E z \in m_granted'[k] :
                   CtxOf(z) = w /\ m_type'[z] \in GrantedIncompatible(k, m_type'[x])
              \/ \E z \in ToSet(m_waiting'[k]) :
                   CtxOf(z) = w /\ m_type'[z] \in WaitingIncompatible(k, m_type'[x])
BY DEF Adjacent, Blockers

\* Only contexts are waited for.
LEMMA AdjacentType ==
  ASSUME IInv, Published, NEW v \in Ctx, m_waiting_for[v] # NULL
  PROVE  Adjacent(v) \subseteq Ctx
<1>1. m_lock[m_waiting_for[v]] \in Key
  BY DEF Published, IInv, Slots, Waits
<1>2. /\ \A z \in m_granted[m_lock[m_waiting_for[v]]] : CtxOf(z) \in Ctx
      /\ \A z \in ToSet(m_waiting[m_lock[m_waiting_for[v]]]) : CtxOf(z) \in Ctx
  BY <1>1, ListFacts, Values
<1> QED
  BY <1>2 DEF Adjacent, Blockers

\* Edges between two contexts that wait neither come nor go.
LEMMA EdgesStay ==
  ASSUME IInv, IInv', Published, NEW u \in Ctx, NEW w \in Ctx,
         u \in Blocked, Stays(u), Stays(w)
  PROVE  w \in Adjacent(u)' <=> w \in Adjacent(u)
<1>x. PICK x \in Ticket : /\ x = m_waiting_for[u] /\ CtxOf(x) = u
                          /\ x = ticket[u] /\ m_lock[x] \in Key
                          /\ x \in ToSet(m_waiting[m_lock[x]])
  BY BlockedFacts
<1>k. PICK k \in Key : k = m_lock[x] /\ x \in ToSet(m_waiting[k])
  BY <1>x
<1>1. /\ m_waiting_for'[u] = x /\ m_type'[x] = m_type[x]
      /\ x \in ToSet(m_waiting'[k])
  BY <1>x, <1>k DEF Stays
<1>2. m_lock'[x] = k
  BY <1>1 DEF IInv, Placed
<1>3. \A z \in Ticket : CtxOf(z) = w =>
        /\ m_type'[z] = m_type[z]
        /\ z \in m_granted'[k] <=> z \in m_granted[k]
        /\ z \in ToSet(m_waiting'[k]) <=> z \in ToSet(m_waiting[k])
  BY DEF Stays
<1>4. /\ m_granted[k] \subseteq Ticket /\ ToSet(m_waiting[k]) \subseteq Ticket
  BY ListFacts
<1>5. /\ m_granted'[k] \subseteq Ticket /\ ToSet(m_waiting'[k]) \subseteq Ticket
  <2>1. m_granted'[k] \subseteq Ticket /\ m_waiting'[k] \in Seq(Ticket)
    BY DEF IInv, TypeOK
  <2> QED
    BY <2>1, ToSetFacts
<1>6. w \in Adjacent(u) <=>
        /\ w # u
        /\ \/ \E z \in m_granted[k] :
                CtxOf(z) = w /\ m_type[z] \in GrantedIncompatible(k, m_type[x])
           \/ \E z \in ToSet(m_waiting[k]) :
                CtxOf(z) = w /\ m_type[z] \in WaitingIncompatible(k, m_type[x])
  <2>1. x = m_waiting_for[u] /\ k = m_lock[x]
    BY <1>x, <1>k
  <2> QED
    BY <2>1, AdjacentMeans
<1>7. w \in Adjacent(u)' <=>
        /\ w # u
        /\ \/ \E z \in m_granted'[k] :
                CtxOf(z) = w /\ m_type'[z] \in GrantedIncompatible(k, m_type'[x])
           \/ \E z \in ToSet(m_waiting'[k]) :
                CtxOf(z) = w /\ m_type'[z] \in WaitingIncompatible(k, m_type'[x])
  BY <1>1, <1>2, AdjacentMeansNext
<1> QED
  BY <1>1, <1>3, <1>4, <1>5, <1>6, <1>7

\* The edges that leave a node stay as long as the lists of the lock that it
\* waits for stay.
LEMMA EdgesRespected ==
  ASSUME IInv, IInv', Published, TypesStay, NEW v \in Ctx,
         m_waiting_for[v] # NULL, m_waiting_for'[v] = m_waiting_for[v],
         NEW k \in Key, k = m_lock[m_waiting_for[v]],
         m_granted'[k] = m_granted[k], m_waiting'[k] = m_waiting[k],
         \A z \in m_granted[k] : m_type'[z] = m_type[z]
  PROVE  Adjacent(v)' = Adjacent(v)
<1>x. PICK x \in Ticket : /\ x = m_waiting_for[v]
                          /\ x \in m_granted[k] \/ x \in ToSet(m_waiting[k])
  BY DEF Published, IInv, Slots, Waits
<1>1. m_lock[x] = k /\ m_lock'[x] = k
  BY <1>x DEF IInv, Placed
<1>2. ASSUME NEW z \in ToSet(m_waiting[k]) PROVE m_type'[z] = m_type[z]
  <2>1. z \in Ticket /\ m_lock[z] = k /\ k # NULL
    BY ListFacts, Values DEF IInv, Placed
  <2>2. m_type'[z] # NULL
    <3>1. m_type'[z] \in TypesOf(k)
      BY DEF IInv, Placed
    <3> QED
      BY <3>1, TypeFacts, Values
  <2>3. \A j \in Key : z \notin m_granted[j]
    BY <2>1 DEF IInv, Placed, Waiting
  <2> QED
    BY <2>1, <2>2, <2>3 DEF TypesStay
<1>3. m_type'[x] = m_type[x]
  BY <1>x, <1>2
<1>4. ASSUME NEW w PROVE w \in Adjacent(v)' <=> w \in Adjacent(v)
  <2>1. w \in Adjacent(v) <=>
          /\ w # v
          /\ \/ \E z \in m_granted[k] :
                  CtxOf(z) = w /\ m_type[z] \in GrantedIncompatible(k, m_type[x])
             \/ \E z \in ToSet(m_waiting[k]) :
                  CtxOf(z) = w /\ m_type[z] \in WaitingIncompatible(k, m_type[x])
    BY <1>x, <1>1, AdjacentMeans
  <2>2. w \in Adjacent(v)' <=>
          /\ w # v
          /\ \/ \E z \in m_granted'[k] :
                  CtxOf(z) = w /\ m_type'[z] \in GrantedIncompatible(k, m_type'[x])
             \/ \E z \in ToSet(m_waiting'[k]) :
                  CtxOf(z) = w /\ m_type'[z] \in WaitingIncompatible(k, m_type'[x])
    <3>1. x = m_waiting_for'[v]
      BY <1>x
    <3> QED
      BY <1>1, <3>1, AdjacentMeansNext
  <2> QED
    BY <1>2, <1>3, <2>1, <2>2
<1> QED
  BY <1>4
-----------------------------------------------------------------------------
(* Steps outside of find_deadlock *)

\* The read locks of a search protect its path and its victim.
LEMMA CalmKeepsPath ==
  ASSUME IInv, IInv', Published, SearchInv, CalmStep, RespectReadLocks,
         UNCHANGED searchVars
  PROVE  SearchInv'
<1>1. stack' = stack /\ victim' = victim
  BY DEF searchVars
<1>2. SearchTypes'
  BY <1>1 DEF SearchInv, SearchTypes, CalmStep
<1>3. ASSUME NEW c \in Ctx, NEW i \in DOMAIN stack[c]
      PROVE  /\ stack[c][i].ctx \in Ctx
             /\ m_waiting_for'[stack[c][i].ctx] = m_waiting_for[stack[c][i].ctx]
             /\ Adjacent(stack[c][i].ctx)' = Adjacent(stack[c][i].ctx)
  <2>1. stack[c][i] \in SearchNode
    BY LenProperties, ElementOfSeq DEF SearchInv, SearchTypes
  <2>v. PICK v \in Ctx : v = stack[c][i].ctx
    BY <2>1 DEF SearchNode
  <2>2. OnPath(c, v) /\ m_waiting_for[v] # NULL
    BY <2>v DEF OnPath, SearchInv, RealPath, RealNode
  <2>3. m_waiting_for'[v] = m_waiting_for[v]
    BY <2>2 DEF RespectReadLocks, ContextRead
  <2>k. PICK k \in Key : k = m_lock[m_waiting_for[v]]
    BY <2>2 DEF Published, IInv, Slots, Waits
  <2>4. LockRead(k)
    BY <2>2, <2>k DEF LockRead
  <2>5. /\ m_granted'[k] = m_granted[k] /\ m_waiting'[k] = m_waiting[k]
        /\ \A z \in m_granted[k] : m_type'[z] = m_type[z]
    BY <2>4 DEF RespectReadLocks
  <2>6. Adjacent(v)' = Adjacent(v)
    BY <2>2, <2>3, <2>5, <2>k, EdgesRespected DEF CalmStep
  <2> QED
    BY <1>1, <2>3, <2>6, <2>v
<1>4. ASSUME NEW c \in Ctx PROVE RealPath(c)'
  <2> SUFFICES ASSUME NEW i \in DOMAIN stack[c] PROVE RealNode(c, stack[c], i)'
    BY <1>1 DEF RealPath
  <2>1. RealNode(c, stack[c], i)
    BY DEF SearchInv, RealPath
  <2>2. i > 1 => i - 1 \in DOMAIN stack[c]
    BY LenProperties DEF SearchInv, SearchTypes
  <2> QED
    BY <1>1, <1>3, <2>1, <2>2 DEF RealNode
<1>5. ASSUME NEW c \in Ctx PROVE RealVictim(c)'
  <2> SUFFICES ASSUME victim[c] # NULL PROVE m_waiting_for'[victim[c]] # NULL
    BY <1>1 DEF RealVictim
  <2>v. PICK v \in Ctx : v = victim[c]
    BY DEF SearchInv, SearchTypes
  <2>1. m_waiting_for[v] # NULL
    BY <2>v DEF SearchInv, RealVictim
  <2>2. m_waiting_for'[v] = m_waiting_for[v]
    BY <2>v DEF RespectReadLocks, ContextRead
  <2> QED
    BY <2>1, <2>2, <2>v
<1> QED
  BY <1>2, <1>4, <1>5 DEF SearchInv

\* The search of a context that begins to wait sees all deadlocks that this
\* wait completes, and no other deadlock arises.
LEMMA CalmKeepsDetected ==
  ASSUME IInv, IInv', Published, SearchInv, Detected, CalmStep,
         UNCHANGED searchVars
  PROVE  Detected'
<1>1. stack' = stack
  BY DEF searchVars
<1> SUFFICES ASSUME NEW S, S \subseteq Blocked', Deadlocked(S)'
             PROVE  \E c \in S : pc'[c] = "search" /\ Explores(stack[c], S)'
  BY DEF Detected
<1>0. Blocked \subseteq Ctx /\ S \subseteq Ctx
  BY DEF Blocked
<1>2. CASE S \subseteq Blocked
  <2>1. \A u, w \in S : w \in Adjacent(u)' <=> w \in Adjacent(u)
    BY <1>0, <1>2, EdgesStay DEF CalmStep
  <2>2. S # {} /\ \A u \in S : Adjacent(u)' \cap S # {}
    BY DEF Deadlocked
  <2>3. Deadlocked(S)
    BY <2>1, <2>2 DEF Deadlocked
  <2>4. PICK c \in S : pc[c] = "search" /\ Explores(stack[c], S)
    BY <1>2, <2>3 DEF Detected
  <2>5. pc'[c] = "search" /\ Explores(stack[c], S)'
    BY <1>0, <1>1, <2>4 DEF CalmStep, Explores
  <2> QED
    BY <2>5
<1>3. CASE ~(S \subseteq Blocked)
  <2>1. PICK w \in S : w \notin Blocked
    BY <1>3
  <2>2. pc[w] # "search" /\ pc'[w] = "search"
    BY <1>0, <2>1 DEF CalmStep
  <2>3. stack'[w] = <<>>
    BY <1>0, <1>1, <2>2 DEF SearchInv, SearchTypes
  <2>4. Explores(stack[w], S)'
    BY <2>3 DEF Explores
  <2> QED
    BY <2>2, <2>4
<1> QED
  BY <1>2, <1>3
-----------------------------------------------------------------------------
(* Steps of find_deadlock *)

\* A search moves no ticket, and at most closes a wait slot.
Quiet ==
  /\ UNCHANGED <<m_lock, m_type, m_granted, m_waiting, m_waiting_for, ticket>>
  /\ \A w \in Ctx : m_wait_status'[w] = "EMPTY" => m_wait_status[w] = "EMPTY"

\* The graph that a search walks does not change under its own steps.
LEMMA QuietEdges ==
  ASSUME Quiet
  PROVE  /\ \A v \in Ctx : Adjacent(v)' = Adjacent(v)
         /\ Blocked' \subseteq Blocked
BY DEF Quiet, Adjacent, Blockers, Blocked

\* What a step of the search of c must keep to: its new path s and its new
\* victim v are real, and it does not miss a deadlock of which c is a member.
LEMMA SearchFrame ==
  ASSUME IInv, Published, SearchInv, Detected, Quiet, NEW c \in Ctx,
         pc[c] = "search",
         NEW label \in {"search", "wait"}, pc' = [pc EXCEPT ![c] = label],
         NEW s \in Seq(SearchNode), stack' = [stack EXCEPT ![c] = s],
         NEW v \in Ctx \cup {NULL}, victim' = [victim EXCEPT ![c] = v],
         label # "search" => s = <<>> /\ v = NULL,
         v # NULL => s = <<>> /\ m_waiting_for[v] # NULL,
         \A i \in DOMAIN s : RealNode(c, s, i),
         \A S \in SUBSET Blocked' :
           Deadlocked(S) /\ c \in S /\ Explores(stack[c], S) =>
             label = "search" /\ Explores(s, S)
  PROVE  Published' /\ SearchInv' /\ Detected'
<1>0. TypeOK /\ SearchTypes
  BY DEF IInv, SearchInv
<1>1. Published'
  <2>1. PublishedStays(c)
    BY <1>0 DEF PublishedStays, Quiet, TypeOK
  <2> QED
    BY <2>1, PublishedFrame
<1>2. /\ stack'[c] = s /\ victim'[c] = v /\ pc'[c] = label
      /\ \A d \in Ctx \ {c} : /\ stack'[d] = stack[d] /\ victim'[d] = victim[d]
                              /\ pc'[d] = pc[d]
  BY <1>0 DEF SearchTypes, TypeOK
<1>3. SearchTypes'
  <2>1. stack' \in [Ctx -> Seq(SearchNode)] /\ victim' \in [Ctx -> Ctx \cup {NULL}]
    BY <1>0 DEF SearchTypes
  <2>2. ASSUME NEW d \in Ctx
        PROVE  /\ pc'[d] # "search" => stack'[d] = <<>> /\ victim'[d] = NULL
               /\ victim'[d] # NULL => stack'[d] = <<>>
    <3>1. CASE d = c
      BY <1>2, <3>1
    <3>2. CASE d # c
      BY <1>0, <1>2, <3>2 DEF SearchTypes
    <3> QED
      BY <3>1, <3>2
  <2> QED
    BY <2>1, <2>2 DEF SearchTypes
<1>4. ASSUME NEW d \in Ctx PROVE RealPath(d)' /\ RealVictim(d)'
  <2>p. PICK p \in Seq(SearchNode) : p = stack'[d]
    BY <1>3 DEF SearchTypes
  <2>1. \A i \in DOMAIN p : RealNode(d, p, i)
    <3>1. CASE d = c
      BY <1>2, <2>p, <3>1
    <3>2. CASE d # c
      BY <1>2, <2>p, <3>2 DEF SearchInv, RealPath
    <3> QED
      BY <3>1, <3>2
  <2>2. ASSUME NEW i \in DOMAIN p PROVE RealNode(d, p, i)'
    <3>1. /\ p[i].ctx \in Ctx
          /\ i > 1 => p[i - 1].ctx \in Ctx
      <4>1. p[i] \in SearchNode /\ (i > 1 => p[i - 1] \in SearchNode)
        BY LenProperties
      <4> QED
        BY <4>1 DEF SearchNode
    <3>2. /\ Adjacent(p[i].ctx)' = Adjacent(p[i].ctx)
          /\ i > 1 => Adjacent(p[i - 1].ctx)' = Adjacent(p[i - 1].ctx)
      BY <3>1, QuietEdges
    <3> QED
      BY <2>1, <3>2 DEF RealNode, Quiet
  <2>3. RealPath(d)'
    BY <2>2, <2>p DEF RealPath
  <2>4. RealVictim(d)'
    <3>1. CASE d = c
      BY <1>2, <3>1 DEF RealVictim, Quiet
    <3>2. CASE d # c
      BY <1>2, <3>2 DEF SearchInv, RealVictim, Quiet
    <3> QED
      BY <3>1, <3>2
  <2> QED
    BY <2>3, <2>4
<1>5. SearchInv'
  BY <1>3, <1>4 DEF SearchInv
<1>6. Detected'
  <2> SUFFICES ASSUME NEW S, S \subseteq Blocked', Deadlocked(S)'
               PROVE  \E d \in S : pc'[d] = "search" /\ Explores(stack[d], S)'
    BY DEF Detected
  <2>1. S \subseteq Ctx /\ S \subseteq Blocked
    BY QuietEdges DEF Blocked
  <2>2. Deadlocked(S)
    BY <2>1, QuietEdges DEF Deadlocked
  <2>3. PICK d \in S : pc[d] = "search" /\ Explores(stack[d], S)
    BY <2>1, <2>2 DEF Detected
  <2>4. CASE d = c
    <3>1. label = "search" /\ Explores(s, S)
      BY <2>2, <2>3, <2>4
    <3>2. Explores(stack[c], S)'
      BY <1>2, <3>1 DEF Explores
    <3> QED
      BY <1>2, <2>4, <3>1, <3>2
  <2>5. CASE d # c
    <3>1. Explores(stack[d], S)'
      BY <1>2, <2>1, <2>3, <2>5 DEF Explores
    <3> QED
      BY <1>2, <2>1, <2>3, <2>5, <3>1
  <2> QED
    BY <2>4, <2>5
<1> QED
  BY <1>1, <1>5, <1>6

\* The path of a search is a sequence of nodes.
LEMMA StackFacts ==
  ASSUME SearchInv, NEW c \in Ctx
  PROVE  /\ stack[c] \in Seq(SearchNode) /\ Len(stack[c]) \in Nat
         /\ DOMAIN stack[c] = 1 .. Len(stack[c])
         /\ stack[c] # <<>> => Len(stack[c]) > 0
         /\ \A i \in 1 .. Len(stack[c]) :
              /\ stack[c][i] \in SearchNode /\ stack[c][i].ctx \in Ctx
              /\ stack[c][i].todo \in SUBSET Ctx
              /\ RealNode(c, stack[c], i)
<1>1. stack[c] \in Seq(SearchNode)
  BY DEF SearchInv, SearchTypes
<1>2. /\ Len(stack[c]) \in Nat /\ DOMAIN stack[c] = 1 .. Len(stack[c])
      /\ \A i \in 1 .. Len(stack[c]) : stack[c][i] \in SearchNode
  BY <1>1, LenProperties
<1>3. stack[c] # <<>> => Len(stack[c]) > 0
  BY <1>1, EmptySeq
<1>4. \A i \in 1 .. Len(stack[c]) :
        stack[c][i].ctx \in Ctx /\ stack[c][i].todo \in SUBSET Ctx
  BY <1>2 DEF SearchNode
<1>5. \A i \in 1 .. Len(stack[c]) : RealNode(c, stack[c], i)
  BY <1>2 DEF SearchInv, RealPath
<1> QED
  BY <1>1, <1>2, <1>3, <1>4, <1>5

\* Being done with v takes v off the nodes to be visited from the top of the
\* path, and changes nothing else.
LEMMA DoneFacts ==
  ASSUME SearchInv, NEW c \in Ctx, NEW v
  PROVE  /\ Done(c, v) \in Seq(SearchNode)
         /\ Len(Done(c, v)) = Len(stack[c])
         /\ \A i \in 1 .. Len(stack[c]) :
              /\ Done(c, v)[i].ctx = stack[c][i].ctx
              /\ Done(c, v)[i].todo =
                   stack[c][i].todo \ (IF i = Len(stack[c]) THEN {v} ELSE {})
<1>1. CASE stack[c] = <<>>
  BY <1>1, EmptySeq DEF Done
<1>2. CASE stack[c] # <<>>
  <2>s. PICK s \in Seq(SearchNode) : s = stack[c]
    BY StackFacts
  <2>n. PICK n \in 1 .. Len(s) : n = Len(s)
    BY <1>2, <2>s, StackFacts
  <2>1. s[n] \in SearchNode
    BY <2>s, StackFacts
  <2>e. PICK e : e = [s[n] EXCEPT !.todo = @ \ {v}]
    OBVIOUS
  <2>2. /\ e \in SearchNode /\ e.ctx = s[n].ctx /\ e.todo = s[n].todo \ {v}
    BY <2>1, <2>e DEF SearchNode
  <2>3. Done(c, v) = [s EXCEPT ![n] = e]
    BY <1>2, <2>s, <2>n, <2>e DEF Done
  <2>4. /\ [s EXCEPT ![n] = e] \in Seq(SearchNode)
        /\ Len([s EXCEPT ![n] = e]) = Len(s)
        /\ \A j \in 1 .. Len(s) :
             [s EXCEPT ![n] = e][j] = IF j = n THEN e ELSE s[j]
    BY <2>2, ExceptSeq
  <2>5. \A j \in 1 .. Len(s) : Done(c, v)[j] = IF j = n THEN e ELSE s[j]
    BY <2>3, <2>4
  <2> QED
    BY <2>2, <2>3, <2>4, <2>5, <2>s, <2>n
<1> QED
  BY <1>1, <1>2

\* A non-empty set of natural numbers has a smallest element.
LEMMA Smallest ==
  ASSUME NEW T \in SUBSET Nat, T # {}
  PROVE  \E i \in T : \A j \in T : i <= j
<1> DEFINE R == {x \in Nat \X Nat : x[1] < x[2]}
<1>1. IsWellFoundedOn(R, Nat)
  BY NatLessThanWellFounded, Zenon DEF OpToRel
<1>2. PICK i \in T : \A j \in T : ~(<<j, i>> \in R)
  <2> HIDE DEF R
  <2> QED
    BY <1>1, WFMin
<1>3. ASSUME NEW j \in T PROVE i <= j
  <2>1. i \in Nat /\ j \in Nat /\ ~(<<j, i>> \in R)
    BY <1>2
  <2> QED
    BY <2>1
<1> QED
  BY <1>3

\* opt_change_victim_to always finds a victim on the path.
LEMMA VictimOnPath ==
  ASSUME NEW n \in Nat, n > 0, NEW path, DOMAIN path = 1 .. n
  PROVE  \E i \in 1 .. n : VictimOf(path) = path[i]
<1> DEFINE Best(i) ==
      \A j \in DOMAIN path :
         \/ DeadlockWeight(path[i]) < DeadlockWeight(path[j])
         \/ DeadlockWeight(path[i]) = DeadlockWeight(path[j]) /\ i <= j
<1>1. \A i \in 1 .. n : DeadlockWeight(path[i]) \in {0, 100}
  BY DEF DeadlockWeight
<1> DEFINE T == {i \in 1 .. n : DeadlockWeight(path[i]) = 0}
<1>2. \E i \in DOMAIN path : Best(i)
  <2>1. CASE T = {}
    <3>1. \A i \in 1 .. n : DeadlockWeight(path[i]) = 100
      BY <1>1, <2>1
    <3>2. 1 \in DOMAIN path /\ Best(1)
      BY <3>1
    <3> QED
      BY <3>2
  <2>2. CASE T # {}
    <3>0. T \in SUBSET Nat
      OBVIOUS
    <3>1. PICK i \in T : \A j \in T : i <= j
      BY <2>2, <3>0, Smallest
    <3>2. i \in DOMAIN path /\ Best(i)
      BY <1>1, <3>1
    <3> QED
      BY <3>2
  <2> QED
    BY <2>1, <2>2
<1>3. VictimOf(path) = path[CHOOSE i \in DOMAIN path : Best(i)]
  BY DEF VictimOf
<1> HIDE DEF Best
<1>4. (CHOOSE i \in DOMAIN path : Best(i)) \in DOMAIN path
  BY <1>2
<1> QED
  BY <1>3, <1>4

\* Nodes that do not wait, or whose wait is over, are in no deadlock.
LEMMA VisitNotWaitingKeeps ==
  ASSUME IInv, Published, SearchInv, Detected, NEW c \in Ctx,
         NEW v \in ToVisit(c), VisitNotWaiting(c, v)
  PROVE  Published' /\ SearchInv' /\ Detected'
<1>0. /\ pc[c] = "search" /\ victim[c] = NULL /\ victim' = victim
      /\ TypeOK /\ SearchTypes
  BY DEF VisitNotWaiting, Searching, IInv, SearchInv
<1>1. v \notin Blocked
  BY DEF VisitNotWaiting, NotWaiting, Blocked
<1>2. victim' = [victim EXCEPT ![c] = NULL]
  BY <1>0 DEF SearchTypes
<1>3. CASE stack[c] = <<>>
  <2>1. NoDeadlockFound(c) /\ stack' = stack /\ v = c
    BY <1>3 DEF VisitNotWaiting, ToVisit
  <2>2. Quiet
    BY <2>1 DEF NoDeadlockFound, Quiet, tickets, queues
  <2>3. stack' = [stack EXCEPT ![c] = <<>>] /\ <<>> \in Seq(SearchNode)
    BY <1>0, <1>3, <2>1 DEF SearchTypes
  <2>4. pc' = [pc EXCEPT ![c] = "wait"]
    BY <2>1 DEF NoDeadlockFound, Goto
  <2>5. \A S \in SUBSET Blocked' : c \notin S
    BY <1>1, <2>1, <2>2, QuietEdges
  <2>6. DOMAIN <<>> = {}
    OBVIOUS
  <2> QED
    BY <1>0, <1>2, <2>2, <2>3, <2>4, <2>5, <2>6, SearchFrame
<1>4. CASE stack[c] # <<>>
  <2>1. stack' = [stack EXCEPT ![c] = Done(c, v)] /\ UNCHANGED vars
    BY <1>4 DEF VisitNotWaiting
  <2>2. Quiet /\ pc' = [pc EXCEPT ![c] = "search"]
    BY <1>0, <2>1 DEF vars, tickets, queues, locals, Quiet, TypeOK
  <2>s. PICK s \in Seq(SearchNode) :
          /\ s = Done(c, v) /\ Len(s) = Len(stack[c])
          /\ DOMAIN s = 1 .. Len(stack[c])
    BY DoneFacts, LenProperties
  <2>3. \A i \in 1 .. Len(stack[c]) :
          /\ s[i].ctx = stack[c][i].ctx
          /\ s[i].todo = stack[c][i].todo \ (IF i = Len(stack[c]) THEN {v} ELSE {})
    BY <2>s, DoneFacts
  <2>4. ASSUME NEW i \in DOMAIN s PROVE RealNode(c, s, i)
    BY <2>s, <2>3, <2>4, StackFacts DEF RealNode
  <2>5. ASSUME NEW S \in SUBSET Blocked', Explores(stack[c], S)
        PROVE  Explores(s, S)
    <3>1. v \notin S
      BY <1>1, <2>2, QuietEdges
    <3>2. \A i \in 1 .. Len(stack[c]) :
            stack[c][i].todo \cap S # {} => s[i].todo \cap S # {}
      BY <2>3, <3>1
    <3> QED
      BY <2>s, <2>3, <2>5, <3>2, StackFacts DEF Explores
  <2> QED
    BY <1>0, <1>2, <2>1, <2>2, <2>s, <2>4, <2>5, SearchFrame
<1> QED
  BY <1>3, <1>4

\* A search that enters v has entered the deadlock if v is in it.
LEMMA VisitEnterKeeps ==
  ASSUME IInv, Published, SearchInv, Detected, NEW c \in Ctx,
         NEW v \in ToVisit(c), VisitEnter(c, v)
  PROVE  Published' /\ SearchInv' /\ Detected'
<1>0. /\ pc[c] = "search" /\ victim[c] = NULL /\ victim' = victim
      /\ TypeOK /\ SearchTypes
  BY DEF VisitEnter, Searching, IInv, SearchInv
<1>1. /\ stack' = [stack EXCEPT ![c] = Append(Done(c, v), Node(v, Adjacent(v)))]
      /\ m_waiting_for[v] # NULL /\ UNCHANGED vars
  BY DEF VisitEnter, NotWaiting
<1>2. victim' = [victim EXCEPT ![c] = NULL]
  BY <1>0 DEF SearchTypes
<1>3. Quiet /\ pc' = [pc EXCEPT ![c] = "search"]
  BY <1>0, <1>1 DEF vars, tickets, queues, locals, Quiet, TypeOK
<1>n. PICK n \in Nat : n = Len(stack[c])
  BY StackFacts
<1>4. /\ v \in Ctx
      /\ n = 0 => v = c
      /\ n > 0 => v \in Adjacent(stack[c][n].ctx)
  <2>1. CASE stack[c] = <<>>
    BY <1>n, <2>1 DEF ToVisit
  <2>2. CASE stack[c] # <<>>
    <3>1. n > 0 /\ v \in stack[c][n].todo
      BY <1>n, <2>2, StackFacts DEF ToVisit, Last
    <3> QED
      BY <1>n, <3>1, StackFacts DEF RealNode
  <2> QED
    BY <2>1, <2>2
<1>5. Node(v, Adjacent(v)) \in SearchNode
  BY <1>1, <1>4, AdjacentType DEF Node, SearchNode
<1>s. PICK s \in Seq(SearchNode) :
        /\ s = Append(Done(c, v), Node(v, Adjacent(v)))
        /\ Len(s) = n + 1 /\ DOMAIN s = 1 .. n + 1
        /\ s[n + 1].ctx = v /\ s[n + 1].todo = Adjacent(v)
        /\ \A i \in 1 .. n : s[i] = Done(c, v)[i]
  <2>1. Done(c, v) \in Seq(SearchNode) /\ Len(Done(c, v)) = n
    BY <1>n, DoneFacts
  <2>2. /\ Append(Done(c, v), Node(v, Adjacent(v))) \in Seq(SearchNode)
        /\ Len(Append(Done(c, v), Node(v, Adjacent(v)))) = n + 1
        /\ \A i \in 1 .. n :
             Append(Done(c, v), Node(v, Adjacent(v)))[i] = Done(c, v)[i]
        /\ Append(Done(c, v), Node(v, Adjacent(v)))[n + 1] = Node(v, Adjacent(v))
    BY <1>5, <2>1, AppendProperties
  <2>3. DOMAIN Append(Done(c, v), Node(v, Adjacent(v))) = 1 .. n + 1
    BY <2>2, LenProperties
  <2>4. Node(v, Adjacent(v)).ctx = v /\ Node(v, Adjacent(v)).todo = Adjacent(v)
    BY DEF Node
  <2> QED
    BY <2>2, <2>3, <2>4
<1>6. \A i \in 1 .. n :
        /\ s[i].ctx = stack[c][i].ctx
        /\ s[i].todo = stack[c][i].todo \ (IF i = n THEN {v} ELSE {})
  BY <1>n, <1>s, DoneFacts
<1>7. ASSUME NEW i \in DOMAIN s PROVE RealNode(c, s, i)
  <2>1. CASE i = n + 1
    <3>1. i > 1 => s[i - 1].ctx = stack[c][n].ctx
      BY <1>6, <2>1
    <3> QED
      BY <1>1, <1>4, <1>s, <2>1, <3>1 DEF RealNode
  <2>2. CASE i # n + 1
    <3>1. i \in 1 .. n /\ (i > 1 => i - 1 \in 1 .. n)
      BY <1>s, <2>2
    <3>2. RealNode(c, stack[c], i)
      BY <1>n, <3>1, StackFacts
    <3> QED
      BY <1>6, <3>1, <3>2 DEF RealNode
  <2> QED
    BY <2>1, <2>2
<1>8. ASSUME NEW S \in SUBSET Blocked', Deadlocked(S), Explores(stack[c], S)
      PROVE  Explores(s, S)
  <2> SUFFICES ASSUME NEW i \in 1 .. n + 1, s[i].ctx \in S
               PROVE  \/ s[i].todo \cap S # {}
                      \/ i < n + 1 /\ s[i + 1].ctx \in S
    BY <1>s DEF Explores
  <2>1. CASE i = n + 1
    BY <1>8, <1>s, <2>1 DEF Deadlocked
  <2>2. CASE i # n + 1
    <3>1. i \in 1 .. n /\ (i < n => i + 1 \in 1 .. n)
      BY <2>2
    <3>2. stack[c][i].ctx \in S
      BY <1>6, <3>1
    <3>3. \/ stack[c][i].todo \cap S # {}
          \/ i < n /\ stack[c][i + 1].ctx \in S
      BY <1>8, <1>n, <3>1, <3>2, StackFacts DEF Explores
    <3>4. CASE i < n /\ stack[c][i + 1].ctx \in S
      BY <1>6, <3>1, <3>4
    <3>5. CASE stack[c][i].todo \cap S # {}
      <4>1. CASE i = n /\ v \in S
        BY <1>s, <4>1
      <4>2. CASE ~(i = n /\ v \in S)
        BY <1>6, <3>1, <3>5, <4>2
      <4> QED
        BY <4>1, <4>2
    <3> QED
      BY <3>3, <3>4, <3>5
  <2> QED
    BY <2>1, <2>2
<1>9. stack' = [stack EXCEPT ![c] = s]
  BY <1>1, <1>s
<1> QED
  BY <1>0, <1>2, <1>3, <1>7, <1>8, <1>9, SearchFrame

\* The victim of a loop is one of the nodes on the path, which all wait.
LEMMA VisitFoundKeeps ==
  ASSUME IInv, Published, SearchInv, Detected, NEW c \in Ctx,
         NEW v \in ToVisit(c), VisitFound(c, v)
  PROVE  Published' /\ SearchInv' /\ Detected'
<1>0. pc[c] = "search" /\ victim[c] = NULL /\ TypeOK /\ SearchTypes
  BY DEF VisitFound, Searching, IInv, SearchInv
<1>n. PICK n \in Nat : n = Len(stack[c]) /\ DOMAIN stack[c] = 1 .. n
  BY StackFacts
<1>f. PICK f : f = [i \in DOMAIN stack[c] |-> stack[c][i].ctx]
  OBVIOUS
<1>1. /\ victim' = [victim EXCEPT ![c] = VictimOf(f \o <<v>>)]
      /\ stack' = [stack EXCEPT ![c] = <<>>] /\ UNCHANGED vars
      /\ m_waiting_for[v] # NULL
  BY <1>f DEF VisitFound, NotWaiting
<1>2. v \in Ctx
  <2>1. CASE stack[c] = <<>>
    BY <2>1 DEF ToVisit
  <2>2. CASE stack[c] # <<>>
    BY <2>2, StackFacts DEF ToVisit, Last
  <2> QED
    BY <2>1, <2>2
<1>3. f \in Seq(Ctx) /\ Len(f) = n
  <2>1. f \in [1 .. n -> Ctx]
    BY <1>n, <1>f, StackFacts
  <2> QED
    BY <2>1
<1>p. PICK path \in Seq(Ctx) :
        /\ path = f \o <<v>> /\ Len(path) = n + 1 /\ DOMAIN path = 1 .. n + 1
        /\ \A i \in 1 .. n + 1 : path[i] = IF i <= n THEN f[i] ELSE v
  <2>1. <<v>> \in Seq(Ctx) /\ Len(<<v>>) = 1 /\ <<v>>[1] = v
    BY <1>2
  <2>2. /\ f \o <<v>> \in Seq(Ctx)
        /\ Len(f \o <<v>>) = n + 1
        /\ \A i \in 1 .. n + 1 :
             (f \o <<v>>)[i] = IF i <= n THEN f[i] ELSE <<v>>[i - n]
    BY <1>3, <2>1, ConcatProperties
  <2>3. DOMAIN (f \o <<v>>) = 1 .. n + 1
    BY <2>2, LenProperties
  <2>4. \A i \in 1 .. n + 1 : ~(i <= n) => i - n = 1
    OBVIOUS
  <2> QED
    BY <2>1, <2>2, <2>3, <2>4
<1>4. \A i \in 1 .. n + 1 : path[i] \in Ctx /\ m_waiting_for[path[i]] # NULL
  <2>1. \A i \in 1 .. n : f[i] \in Ctx /\ m_waiting_for[f[i]] # NULL
    BY <1>n, <1>f, StackFacts DEF RealNode
  <2> QED
    BY <1>1, <1>2, <1>p, <2>1
<1>w. PICK w \in Ctx : w = VictimOf(path) /\ m_waiting_for[w] # NULL
  <2>1. PICK i \in 1 .. n + 1 : VictimOf(path) = path[i]
    <3>1. n + 1 \in Nat /\ n + 1 > 0
      OBVIOUS
    <3> QED
      BY <1>p, <3>1, VictimOnPath
  <2> QED
    BY <1>4, <2>1
<1>5. Quiet /\ pc' = [pc EXCEPT ![c] = "search"]
  BY <1>0, <1>1 DEF vars, tickets, queues, locals, Quiet, TypeOK
<1>6. victim' = [victim EXCEPT ![c] = w]
  BY <1>1, <1>p, <1>w
<1>7. <<>> \in Seq(SearchNode) /\ DOMAIN <<>> = {} /\ \A S : Explores(<<>>, S)
  BY DEF Explores
<1> QED
  BY <1>0, <1>1, <1>5, <1>6, <1>7, <1>w, SearchFrame

\* A node that has been explored and is left is in no deadlock.
LEMMA LeaveNodeKeeps ==
  ASSUME IInv, Published, SearchInv, Detected, NEW c \in Ctx, LeaveNode(c)
  PROVE  Published' /\ SearchInv' /\ Detected'
<1>0. /\ pc[c] = "search" /\ victim[c] = NULL /\ victim' = victim
      /\ TypeOK /\ SearchTypes
  BY DEF LeaveNode, Searching, IInv, SearchInv
<1>n. PICK n \in Nat : n = Len(stack[c]) /\ n > 0 /\ DOMAIN stack[c] = 1 .. n
  BY StackFacts DEF LeaveNode
<1>1. stack[c][n].todo = {} /\ stack' = [stack EXCEPT ![c] = Front(stack[c])]
  BY <1>n DEF LeaveNode, Last
<1>2. victim' = [victim EXCEPT ![c] = NULL]
  BY <1>0 DEF SearchTypes
<1>3. ASSUME NEW S, Explores(stack[c], S) PROVE stack[c][n].ctx \notin S
  <2>1. n \in DOMAIN stack[c] /\ ~(n < Len(stack[c]))
    BY <1>n
  <2> QED
    BY <1>1, <1>3, <2>1 DEF Explores
<1>s. PICK s \in Seq(SearchNode) :
        /\ s = Front(stack[c]) /\ Len(s) = n - 1 /\ DOMAIN s = 1 .. n - 1
        /\ \A i \in 1 .. n - 1 : s[i] = stack[c][i]
  <2>1. \A i \in 1 .. n - 1 : stack[c][i] \in SearchNode
    BY <1>n, StackFacts
  <2>2. /\ SubSeq(stack[c], 1, n - 1) \in Seq(SearchNode)
        /\ Len(SubSeq(stack[c], 1, n - 1)) =
             IF 1 <= n - 1 THEN (n - 1) - 1 + 1 ELSE 0
        /\ \A i \in 1 .. (n - 1) - 1 + 1 :
             SubSeq(stack[c], 1, n - 1)[i] = stack[c][1 + i - 1]
    <3>1. 1 \in Int /\ n - 1 \in Int
      BY <1>n
    <3> QED
      BY <2>1, <3>1, SubSeqProperties
  <2>3. Front(stack[c]) = SubSeq(stack[c], 1, n - 1)
    BY <1>n DEF Front
  <2>4. /\ Len(Front(stack[c])) = n - 1
        /\ \A i \in 1 .. n - 1 : Front(stack[c])[i] = stack[c][i]
    <3>1. \A i \in 1 .. n - 1 : i \in 1 .. (n - 1) - 1 + 1 /\ 1 + i - 1 = i
      OBVIOUS
    <3>2. (IF 1 <= n - 1 THEN (n - 1) - 1 + 1 ELSE 0) = n - 1
      BY <1>n
    <3> QED
      BY <2>2, <2>3, <3>1, <3>2
  <2>5. DOMAIN Front(stack[c]) = 1 .. n - 1
    BY <2>2, <2>3, <2>4, LenProperties
  <2> QED
    BY <2>2, <2>3, <2>4, <2>5
<1>4. ASSUME NEW i \in DOMAIN s PROVE RealNode(c, s, i)
  <2>1. i \in 1 .. n /\ s[i] = stack[c][i] /\ (i > 1 => s[i - 1] = stack[c][i - 1])
    BY <1>s, <1>n
  <2>2. RealNode(c, stack[c], i)
    BY <1>n, <2>1, StackFacts
  <2> QED
    BY <2>1, <2>2 DEF RealNode
<1>5. stack' = [stack EXCEPT ![c] = s]
  BY <1>1, <1>s
<1>6. CASE n = 1
  <2>1. NoDeadlockFound(c)
    BY <1>n, <1>6 DEF LeaveNode
  <2>2. Quiet /\ pc' = [pc EXCEPT ![c] = "wait"]
    BY <2>1 DEF NoDeadlockFound, Quiet, Goto, tickets, queues
  <2>3. s = <<>>
    BY <1>s, <1>6, EmptySeq
  <2>4. stack[c][1].ctx = c
    BY <1>n, StackFacts DEF RealNode
  <2>5. \A S : Explores(stack[c], S) => c \notin S
    BY <1>3, <1>6, <2>4
  <2> QED
    BY <1>0, <1>2, <1>4, <1>5, <2>2, <2>3, <2>5, SearchFrame
<1>7. CASE n # 1
  <2>1. UNCHANGED vars
    BY <1>n, <1>7 DEF LeaveNode
  <2>2. Quiet /\ pc' = [pc EXCEPT ![c] = "search"]
    BY <1>0, <2>1 DEF vars, tickets, queues, locals, Quiet, TypeOK
  <2>3. ASSUME NEW S, Explores(stack[c], S) PROVE Explores(s, S)
    <3> SUFFICES ASSUME NEW i \in 1 .. n - 1, s[i].ctx \in S
                 PROVE  \/ s[i].todo \cap S # {}
                        \/ i < n - 1 /\ s[i + 1].ctx \in S
      BY <1>s DEF Explores
    <3>1. i \in 1 .. n /\ s[i] = stack[c][i]
      BY <1>s
    <3>2. \/ stack[c][i].todo \cap S # {}
          \/ i < n /\ stack[c][i + 1].ctx \in S
      BY <1>n, <2>3, <3>1 DEF Explores
    <3>3. i = n - 1 => stack[c][i + 1].ctx \notin S
      BY <1>3, <2>3
    <3>4. i < n - 1 => s[i + 1] = stack[c][i + 1]
      BY <1>s
    <3> QED
      BY <3>1, <3>2, <3>3, <3>4
  <2> QED
    BY <1>0, <1>2, <1>4, <1>5, <2>2, <2>3, SearchFrame
<1> QED
  BY <1>6, <1>7

\* The victim is out of every deadlock, and the search begins anew unless it
\* was the victim itself.
LEMMA SignalVictimKeeps ==
  ASSUME IInv, Published, SearchInv, Detected, NEW c \in Ctx, SignalVictim(c)
  PROVE  Published' /\ SearchInv' /\ Detected'
<1>0. pc[c] = "search" /\ victim[c] # NULL /\ TypeOK /\ SearchTypes
  BY DEF SignalVictim, IInv, SearchInv
<1>v. PICK v \in Ctx : v = victim[c]
  BY <1>0 DEF SearchTypes
<1>l. PICK label \in {"search", "wait"} : label = AfterVictim(c, v)
  BY DEF AfterVictim
<1>1. /\ SetStatus(v, "VICTIM") /\ pc' = [pc EXCEPT ![c] = label]
      /\ victim' = [victim EXCEPT ![c] = NULL] /\ stack' = stack
  BY <1>v, <1>l DEF SignalVictim, Goto
<1>2. stack[c] = <<>> /\ <<>> \in Seq(SearchNode)
  BY <1>0 DEF SearchTypes
<1>3. stack' = [stack EXCEPT ![c] = <<>>]
  BY <1>0, <1>1, <1>2 DEF SearchTypes
<1>4. Quiet
  <2>1. \A w \in Ctx : m_wait_status'[w] = "EMPTY" => m_wait_status[w] = "EMPTY"
    BY <1>0, <1>1 DEF SetStatus, TypeOK
  <2> QED
    BY <2>1 DEF SignalVictim, Quiet, tickets, queues
<1>5. m_wait_status'[v] # "EMPTY"
  BY <1>0, <1>1 DEF SetStatus, TypeOK
<1>6. ASSUME NEW S \in SUBSET Blocked', c \in S PROVE label = "search"
  <2>1. c # v
    BY <1>5, <1>6 DEF Blocked
  <2> QED
    BY <1>l, <2>1 DEF AfterVictim
<1>7. DOMAIN <<>> = {} /\ \A S : Explores(<<>>, S)
  BY DEF Explores
<1> QED
  BY <1>0, <1>1, <1>2, <1>3, <1>4, <1>6, <1>7, SearchFrame
-----------------------------------------------------------------------------
(* The theorems *)

\* Every step of the detector is a step of MDL or leaves MDL alone.
LEMMA DNextNext ==
  ASSUME DInv, [DNext]_allVars
  PROVE  [Next]_vars
<1>1. CASE UNCHANGED allVars
  BY <1>1 DEF allVars
<1>2. ASSUME NEW c \in Ctx, Ask(c) \/ Exclude(c) \/ Release(c) PROVE Decide(c)
  BY <1>2 DEF Ask, Exclude, Release, Decide
<1>3. ASSUME NEW c \in Ctx, GoOn(c) PROVE Proceed(c) \/ WakeUp(c)
  BY <1>3 DEF GoOn
<1>4. ASSUME NEW c \in Ctx, Abort(c)
      PROVE  \E status \in AbortStatus : AbortWait(c, status)
  BY <1>4 DEF Abort
<1>5. ASSUME NEW c \in Ctx, Search(c)
      PROVE  \/ UNCHANGED vars \/ NoDeadlockFound(c)
             \/ \E v \in Ctx : ChooseVictim(c, v)
  <2>1. ASSUME NEW v, VisitNotWaiting(c, v) \/ VisitFound(c, v) \/ VisitEnter(c, v)
        PROVE  UNCHANGED vars \/ NoDeadlockFound(c)
    BY <2>1 DEF VisitNotWaiting, VisitFound, VisitEnter
  <2>2. CASE LeaveNode(c)
    BY <2>2 DEF LeaveNode
  <2>3. CASE SignalVictim(c)
    <3>1. victim[c] \in Ctx /\ m_waiting_for[victim[c]] # NULL
      BY <2>3 DEF SignalVictim, DInv, SearchInv, SearchTypes, RealVictim
    <3>2. ChooseVictim(c, victim[c])
      BY <2>3, <3>1 DEF SignalVictim, ChooseVictim, AfterVictim
    <3> QED
      BY <3>1, <3>2
  <2> QED
    BY <1>5, <2>1, <2>2, <2>3 DEF Search
<1> QED
  BY <1>1, <1>2, <1>3, <1>4, <1>5 DEF DNext, Next

\* Nobody waits and nobody searches at first.
LEMMA InitDInv == DInit => DInv
<1> SUFFICES ASSUME DInit PROVE DInv
  OBVIOUS
<1>1. Init /\ stack = [c \in Ctx |-> <<>>] /\ victim = [c \in Ctx |-> NULL]
  BY DEF DInit
<1>2. IInv
  BY <1>1, InitIInv
<1>3. /\ \A v \in Ctx : pc[v] = "idle" /\ m_waiting_for[v] = NULL
  BY <1>1 DEF Init
<1>4. Published
  BY <1>3 DEF Published
<1>5. SearchTypes
  <2>1. <<>> \in Seq(SearchNode)
    OBVIOUS
  <2> QED
    BY <1>1, <2>1 DEF SearchTypes
<1>6. ASSUME NEW c \in Ctx PROVE RealPath(c) /\ RealVictim(c)
  BY <1>1 DEF RealPath, RealVictim
<1>7. Detected
  BY <1>3 DEF Detected, Blocked, Deadlocked
<1> QED
  BY <1>2, <1>4, <1>5, <1>6, <1>7 DEF DInv, SearchInv

\* Steps of the protocol keep what the searches rely on because they respect
\* the read locks, steps of a search because it does not turn its back on a
\* deadlock.
LEMMA NextDInv ==
  ASSUME DInv, [DNext]_allVars
  PROVE  DInv'
<1>0. IInv /\ Published /\ SearchInv /\ Detected
  BY DEF DInv
<1>1. IInv'
  BY <1>0, DNextNext, NextIInv
<1>2. ASSUME CalmStep, RespectReadLocks, UNCHANGED searchVars
      PROVE  Published' /\ SearchInv' /\ Detected'
  BY <1>0, <1>1, <1>2, CalmKeepsPath, CalmKeepsDetected DEF CalmStep
<1>3. CASE UNCHANGED allVars
  <2>1. UNCHANGED <<vars, stack, victim>>
    BY <1>3 DEF allVars, searchVars
  <2>2. /\ UNCHANGED <<m_lock, m_type, m_granted, granted_bitmap, m_waiting>>
        /\ UNCHANGED <<m_rwlock, m_wait_status, m_waiting_for, pc, ticket>>
    BY <2>1 DEF vars, tickets, queues, loop, locals
  <2>3. Published'
    BY <1>0, <2>2 DEF Published
  <2>4. CalmStep
    BY <1>0, <2>2, <2>3, WaitStep
  <2>5. RespectReadLocks /\ UNCHANGED searchVars
    BY <2>1, <2>2 DEF RespectReadLocks, searchVars
  <2> QED
    BY <1>1, <1>2, <2>4, <2>5 DEF DInv
<1>4. ASSUME NEW c \in Ctx, Ask(c) \/ Exclude(c) \/ Release(c) PROVE DInv'
  <2>1. Decide(c)
    BY <1>4 DEF Ask, Exclude, Release, Decide
  <2>2. RespectReadLocks /\ UNCHANGED searchVars
    BY <1>4 DEF Ask, Exclude, Release
  <2> QED
    BY <1>0, <1>1, <1>2, <2>1, <2>2, DecideCalm DEF DInv
<1>5. ASSUME NEW c \in Ctx, GoOn(c) PROVE DInv'
  <2>1. /\ Proceed(c) \/ WakeUp(c)
        /\ RespectReadLocks /\ UNCHANGED searchVars
    BY <1>5 DEF GoOn
  <2> QED
    BY <1>0, <1>1, <1>2, <2>1, ProceedCalm, WakeUpCalm DEF DInv
<1>6. ASSUME NEW c \in Ctx, Abort(c) PROVE DInv'
  <2>1. /\ \E status \in AbortStatus : AbortWait(c, status)
        /\ UNCHANGED searchVars
    BY <1>6 DEF Abort
  <2>2. RespectReadLocks
    BY <2>1 DEF AbortWait, RespectReadLocks, tickets, queues, loop
  <2> QED
    BY <1>0, <1>1, <1>2, <2>1, <2>2, WakeUpCalm DEF DInv
<1>7. ASSUME NEW c \in Ctx, Search(c) PROVE DInv'
  <2>1. ASSUME NEW v \in ToVisit(c),
               VisitNotWaiting(c, v) \/ VisitFound(c, v) \/ VisitEnter(c, v)
        PROVE  Published' /\ SearchInv' /\ Detected'
    BY <1>0, <2>1, VisitNotWaitingKeeps, VisitFoundKeeps, VisitEnterKeeps
  <2>2. ASSUME LeaveNode(c) \/ SignalVictim(c)
        PROVE  Published' /\ SearchInv' /\ Detected'
    BY <1>0, <2>2, LeaveNodeKeeps, SignalVictimKeeps
  <2> QED
    BY <1>1, <1>7, <2>1, <2>2 DEF Search, DInv
<1> QED
  BY <1>3, <1>4, <1>5, <1>6, <1>7 DEF DNext

\* The inductive invariant of the detector.
THEOREM DInvariance == DSpec => []DInv
<1>1. DInv /\ [DNext]_allVars => DInv'
  BY NextDInv
<1> QED
  BY <1>1, InitDInv, PTL DEF DSpec

\* The detector is one of those that MDL allows: what is proved of the locking
\* protocol with an arbitrary choice of victims holds with find_deadlock.
THEOREM Implements == DSpec => Spec
<1>1. DInit => Init
  BY DEF DInit
<1>2. DInv /\ [DNext]_allVars => [Next]_vars
  BY DNextNext
<1> QED
  BY <1>1, <1>2, DInvariance, PTL DEF DSpec, Spec

\* So no connection holds a metadata lock against another one, and no request
\* is forgotten, in the protocol with its detector.
THEOREM DetectorKeepsLocks ==
  DSpec => [](GrantedCompatible /\ SlotMatchesQueue /\ NoOrphanTicket
              /\ NoForgottenWaiter)
BY Implements, GrantedCompatibleHolds, SlotMatchesQueueHolds,
   NoOrphanTicketHolds, NoForgottenWaiterHolds, PTL

\* A victim is chosen for a path that exists, not for one that has existed:
\* m_rwlock and m_LOCK_waiting_for are kept along the path of visit_subgraph.
THEOREM PathIsRealHolds == DSpec => []PathIsReal
<1>1. DInv => PathIsReal
  BY DEF DInv, SearchInv, RealPath, RealNode, PathIsReal
<1> QED
  BY <1>1, DInvariance, PTL

\* Whatever the order of new waits and searches, contexts that all sleep do
\* not wait for each other in a circle: find_deadlock has broken it.
THEOREM NoMissedDeadlockHolds == DSpec => []NoMissedDeadlock
<1>1. ASSUME DInv PROVE NoMissedDeadlock
  <2> SUFFICES ASSUME NEW S \in SUBSET Asleep, S # {},
                      \A c \in S : (Blockers(m_lock[ticket[c]], ticket[c]) \ {c})
                                     \cap S # {}
               PROVE  FALSE
    BY DEF NoMissedDeadlock
  <2>1. ASSUME NEW c \in S
        PROVE  /\ c \in Ctx /\ pc[c] = "wait" /\ m_wait_status[c] = "EMPTY"
               /\ m_waiting_for[c] = ticket[c] /\ ticket[c] \in Ticket
    <3>1. c \in Ctx /\ pc[c] = "wait" /\ m_wait_status[c] = "EMPTY"
      BY DEF Asleep
    <3> QED
      BY <1>1, <3>1 DEF DInv, Published, IInv, Slots, Waits
  <2>2. S \subseteq Blocked
    BY <2>1, Values DEF Blocked
  <2>3. Deadlocked(S)
    BY <2>1 DEF Deadlocked, Adjacent
  <2>4. PICK c \in S : pc[c] = "search"
    BY <1>1, <2>2, <2>3 DEF DInv, Detected
  <2> QED
    BY <2>1, <2>4
<1> QED
  BY <1>1, DInvariance, PTL
=============================================================================
