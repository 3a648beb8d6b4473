------------------------------ MODULE MDLProofs -----------------------------
(***************************************************************************)
(* The safety of the metadata locking protocol for any set of contexts,    *)
(* keys, tickets and requests.                                             *)
(*                                                                         *)
(* The inductive invariant says where every ticket is: on the list of its  *)
(* own lock, waiting or granted but not both, known to its context as soon *)
(* as it is granted, and in step with the context's wait slot.             *)
(***************************************************************************)
EXTENDS MDL, SequenceTheorems, TLAPS

\* In acquire_lock, the ticket in m_waiting or just moved out of it.
Waits == {"queued", "search", "wait", "done", "cancel"}

NoDuplicates(s) == \A i, j \in DOMAIN s : s[i] = s[j] => i = j

\* A ticket on a list belongs to the lock of that list.
Placed ==
  \A k \in Key :
    /\ \A x \in m_granted[k] : m_lock[x] = k /\ m_type[x] \in TypesOf(k)
    /\ \A x \in ToSet(m_waiting[k]) :
         m_lock[x] = k /\ m_type[x] \in TypesOf(k)

\* What waits is waited for, and is not granted.
Waiting ==
  \A k \in Key :
    /\ NoDuplicates(m_waiting[k])
    /\ \A x \in ToSet(m_waiting[k]) :
         /\ x \notin m_granted[k]
         /\ ticket[CtxOf(x)] = x
         /\ pc[CtxOf(x)] \in Waits

\* reschedule_waiters iterates over waiting tickets only, and it is run by a
\* context whose own ticket is none of them.
Iterating ==
  \A k \in Key :
    /\ NoDuplicates(it[k])
    /\ ToSet(it[k]) \subseteq ToSet(m_waiting[k])
    /\ m_rwlock[k] = NULL => it[k] = <<>>
    /\ m_rwlock[k] # NULL =>
         /\ pc[m_rwlock[k]] = "resched"
         /\ ticket[m_rwlock[k]] \in Ticket
         /\ CtxOf(ticket[m_rwlock[k]]) = m_rwlock[k]
         /\ m_lock[ticket[m_rwlock[k]]] = k

\* A ticket that a context knows of is granted, or has just left the list.
Owned ==
  \A c \in Ctx : \A x \in m_tickets[c] :
    /\ CtxOf(x) = c
    /\ m_lock[x] \in Key
    /\ x \in m_granted[m_lock[x]] \/ (pc[c] = "resched" /\ ticket[c] = x)

\* What is granted is known to its context, or about to be.
Known ==
  \A k \in Key : \A x \in m_granted[k] :
    \/ x \in m_tickets[CtxOf(x)]
    \/ /\ ticket[CtxOf(x)] = x
       /\ m_wait_status[CtxOf(x)] = "GRANTED"
       /\ pc[CtxOf(x)] \in Waits

\* The wait slot agrees with the lists, and is not empty once the wait is over.
Slots ==
  \A c \in Ctx :
    /\ pc[c] \in Waits =>
         /\ ticket[c] \in Ticket
         /\ CtxOf(ticket[c]) = c
         /\ m_lock[ticket[c]] \in Key
         /\ ticket[c] \notin m_tickets[c]
         /\ IF m_wait_status[c] = "GRANTED"
            THEN ticket[c] \in m_granted[m_lock[ticket[c]]]
            ELSE ticket[c] \in ToSet(m_waiting[m_lock[ticket[c]]])
    /\ pc[c] \in {"done", "cancel"} => m_wait_status[c] # "EMPTY"
    /\ pc[c] = "cancel" => m_wait_status[c] # "GRANTED"
    /\ pc[c] = "idle" => ticket[c] = NULL /\ upgraded[c] = NULL

\* An upgrade is about a ticket of the context, and at the merge the context
\* has an exclusive ticket on the same lock.
UpgradingOf(c) ==
  /\ (pc[c] \in Waits /\ upgraded[c] # NULL) =>
       /\ upgraded[c] \in m_tickets[c]
       /\ m_lock[ticket[c]] = m_lock[upgraded[c]]
       /\ m_type[ticket[c]] = "X"
  /\ pc[c] = "merge" =>
       /\ upgraded[c] \in m_tickets[c]
       /\ ticket[c] # NULL => ticket[c] \in m_tickets[c] \ {upgraded[c]}
       /\ \E x \in m_tickets[c] :
            /\ m_lock[x] = m_lock[upgraded[c]] /\ m_type[x] = "X"
            /\ ticket[c] # NULL => x = ticket[c]

Upgrading == \A c \in Ctx : UpgradingOf(c)

\* can_grant_lock may skip the list when the bitmap shows no conflict.
BitmapCovers ==
  \A k \in Key : \A x \in m_granted[k] : m_type[x] \in granted_bitmap[k]

IInv ==
  /\ TypeOK
  /\ Placed
  /\ Waiting
  /\ Iterating
  /\ Owned
  /\ Known
  /\ Slots
  /\ Upgrading
  /\ BitmapCovers
  /\ GrantedCompatible
-----------------------------------------------------------------------------
(* Lists *)

\* Taking a ticket out of a list without duplicates takes out that ticket.
LEMMA DropFacts ==
  ASSUME NEW S, NEW s \in Seq(S), NoDuplicates(s), NEW x \in ToSet(s)
  PROVE  /\ Drop(s, x) \in Seq(S)
         /\ ToSet(Drop(s, x)) = ToSet(s) \ {x}
         /\ NoDuplicates(Drop(s, x))
<1> DEFINE n == CHOOSE i \in DOMAIN s : s[i] = x
           a == SubSeq(s, 1, n - 1)
           b == SubSeq(s, n + 1, Len(s))
<1>1. Len(s) \in Nat /\ DOMAIN s = 1..Len(s)
  BY LenProperties
<1>2. n \in 1..Len(s) /\ s[n] = x
  BY <1>1 DEF ToSet
<1> HIDE DEF n
<1>3. \A i \in 1..Len(s) : s[i] \in S
  BY ElementOfSeq
<1>4. /\ a \in Seq(S) /\ Len(a) = n - 1
      /\ \A i \in 1..(n - 1) : a[i] = s[i]
  <2>1. \A i \in 1..(n - 1) : s[i] \in S
    BY <1>1, <1>2, <1>3
  <2>2. /\ a \in Seq(S)
        /\ Len(a) = IF 1 <= n - 1 THEN (n - 1) - 1 + 1 ELSE 0
        /\ \A i \in 1..((n - 1) - 1 + 1) : a[i] = s[1 + i - 1]
    BY <1>1, <1>2, <2>1, SubSeqProperties
  <2>3. QED
    BY <1>1, <1>2, <2>2
<1>5. /\ b \in Seq(S) /\ Len(b) = Len(s) - n
      /\ \A i \in 1..(Len(s) - n) : b[i] = s[n + i]
  <2>1. \A i \in (n + 1)..Len(s) : s[i] \in S
    BY <1>1, <1>2, <1>3
  <2>2. /\ b \in Seq(S)
        /\ Len(b) = IF n + 1 <= Len(s) THEN Len(s) - (n + 1) + 1 ELSE 0
        /\ \A i \in 1..(Len(s) - (n + 1) + 1) : b[i] = s[(n + 1) + i - 1]
    BY <1>1, <1>2, <2>1, SubSeqProperties
  <2> HIDE DEF b
  <2>3. Len(b) = Len(s) - n
    <3>1. CASE n + 1 <= Len(s)
      BY <1>1, <1>2, <2>2, <3>1
    <3>2. CASE n = Len(s)
      BY <1>1, <2>2, <3>2
    <3>3. n \in Nat /\ Len(s) \in Nat /\ n <= Len(s)
      BY <1>1, <1>2
    <3>4. n + 1 <= Len(s) \/ n = Len(s)
      BY <3>3
    <3>5. QED
      BY <3>1, <3>2, <3>4
  <2>4. ASSUME NEW i \in 1..(Len(s) - n) PROVE b[i] = s[n + i]
    <3>1. /\ i \in 1..(Len(s) - (n + 1) + 1)
          /\ (n + 1) + i - 1 = n + i
      BY <1>1, <1>2
    <3>2. QED
      BY <2>2, <3>1
  <2>5. QED
    BY <2>2, <2>3, <2>4
<1> DEFINE d == Drop(s, x)
<1>6. d = a \o b
  BY DEF Drop, RemoveAt, n
<1> HIDE DEF a, b, d
<1>7. /\ d \in Seq(S) /\ Len(d) = Len(s) - 1
      /\ \A i \in 1..(Len(s) - 1) :
           d[i] = IF i <= n - 1 THEN s[i] ELSE s[i + 1]
  <2>1. /\ a \o b \in Seq(S) /\ Len(a \o b) = Len(a) + Len(b)
        /\ \A i \in 1..(Len(a) + Len(b)) :
             (a \o b)[i] = IF i <= Len(a) THEN a[i] ELSE b[i - Len(a)]
    BY <1>4, <1>5, ConcatProperties
  <2>2. Len(a) = n - 1 /\ Len(b) = Len(s) - n
    BY <1>4, <1>5
  <2>3. Len(a) + Len(b) = Len(s) - 1
    BY <1>1, <1>2, <2>2
  <2>4. ASSUME NEW i \in 1..(Len(s) - 1)
        PROVE  d[i] = IF i <= n - 1 THEN s[i] ELSE s[i + 1]
    <3>1. d[i] = IF i <= n - 1 THEN a[i] ELSE b[i - (n - 1)]
      BY <1>6, <2>1, <2>2, <2>3
    <3>2. CASE i <= n - 1
      BY <1>1, <1>2, <1>4, <3>1, <3>2
    <3>3. CASE ~(i <= n - 1)
      <4>1. /\ i - (n - 1) \in 1..(Len(s) - n)
            /\ n + (i - (n - 1)) = i + 1
        BY <1>1, <1>2, <3>3
      <4>2. QED
        BY <1>5, <3>1, <3>3, <4>1
    <3>4. QED
      BY <3>2, <3>3
  <2>5. QED
    BY <1>6, <2>1, <2>3, <2>4
<1>8. DOMAIN d = 1..(Len(s) - 1)
  BY <1>7, LenProperties
<1> DEFINE Shift(i) == IF i <= n - 1 THEN i ELSE i + 1
<1>9. \A i \in DOMAIN d : /\ Shift(i) \in DOMAIN s \ {n}
                          /\ d[i] = s[Shift(i)]
  BY <1>1, <1>2, <1>7, <1>8
<1>10. NoDuplicates(d)
  <2>1. \A i, j \in DOMAIN d : Shift(i) = Shift(j) => i = j
    BY <1>1, <1>2, <1>8
  <2> HIDE DEF Shift
  <2>2. QED
    BY <1>9, <2>1 DEF NoDuplicates
<1>11. \A j \in DOMAIN s \ {n} : \E i \in DOMAIN d : Shift(i) = j
  <2>1. ASSUME NEW j \in 1..Len(s), j < n PROVE \E i \in DOMAIN d : Shift(i) = j
    <3>1. j \in DOMAIN d /\ Shift(j) = j
      BY <1>1, <1>2, <1>8, <2>1
    <3>2. QED
      BY <3>1
  <2>2. ASSUME NEW j \in 1..Len(s), j > n PROVE \E i \in DOMAIN d : Shift(i) = j
    <3>1. j - 1 \in DOMAIN d /\ Shift(j - 1) = j
      BY <1>1, <1>2, <1>8, <2>2
    <3>2. QED
      BY <3>1
  <2>3. QED
    BY <1>1, <1>2, <2>1, <2>2
<1>12. ToSet(d) = ToSet(s) \ {x}
  <2> HIDE DEF Shift
  <2>1. ASSUME NEW y \in ToSet(d) PROVE y \in ToSet(s) \ {x}
    BY <1>1, <1>2, <1>9 DEF NoDuplicates, ToSet
  <2>2. ASSUME NEW y \in ToSet(s) \ {x} PROVE y \in ToSet(d)
    BY <1>1, <1>2, <1>9, <1>11 DEF ToSet
  <2>3. QED
    BY <2>1, <2>2
<1>13. QED
  BY <1>7, <1>10, <1>12 DEF d

\* A new ticket at the end of a list.
LEMMA AppendFacts ==
  ASSUME NEW S, NEW s \in Seq(S), NoDuplicates(s), NEW x \in S,
         x \notin ToSet(s)
  PROVE  /\ Append(s, x) \in Seq(S)
         /\ ToSet(Append(s, x)) = ToSet(s) \cup {x}
         /\ NoDuplicates(Append(s, x))
<1>1. Len(s) \in Nat /\ DOMAIN s = 1..Len(s)
  BY LenProperties
<1>2. /\ Append(s, x) \in Seq(S)
      /\ Len(Append(s, x)) = Len(s) + 1
      /\ \A i \in 1..Len(s) : Append(s, x)[i] = s[i]
      /\ Append(s, x)[Len(s) + 1] = x
  BY AppendProperties
<1>3. DOMAIN Append(s, x) = 1..(Len(s) + 1)
  BY <1>2, LenProperties
<1>4. QED
  BY <1>1, <1>2, <1>3 DEF ToSet, NoDuplicates

\* One step of an iteration over a list.
LEMMA TailFacts ==
  ASSUME NEW S, NEW s \in Seq(S), NoDuplicates(s), s # <<>>
  PROVE  /\ Head(s) \in ToSet(s)
         /\ Tail(s) \in Seq(S)
         /\ ToSet(Tail(s)) = ToSet(s) \ {Head(s)}
         /\ NoDuplicates(Tail(s))
<1>1. Len(s) \in Nat /\ DOMAIN s = 1..Len(s) /\ Len(s) # 0
  BY LenProperties, EmptySeq
<1>2. /\ Tail(s) \in Seq(S)
      /\ Len(Tail(s)) = Len(s) - 1
      /\ \A i \in 1..(Len(s) - 1) : Tail(s)[i] = s[i + 1]
  BY HeadTailProperties
<1>3. DOMAIN Tail(s) = 1..(Len(s) - 1) /\ Head(s) = s[1]
  BY <1>2, LenProperties
<1>4. Head(s) \in ToSet(s)
  BY <1>1, <1>3 DEF ToSet
<1>5. NoDuplicates(Tail(s))
  BY <1>1, <1>2, <1>3 DEF NoDuplicates
<1>6. ASSUME NEW y \in ToSet(Tail(s)) PROVE y \in ToSet(s) \ {Head(s)}
  BY <1>1, <1>2, <1>3, <1>6 DEF ToSet, NoDuplicates
<1>7. ASSUME NEW y \in ToSet(s), y # Head(s) PROVE y \in ToSet(Tail(s))
  <2>1. PICK j \in 1..Len(s) : s[j] = y
    BY <1>1 DEF ToSet
  <2>2. j - 1 \in 1..(Len(s) - 1) /\ Tail(s)[j - 1] = y
    BY <1>1, <1>2, <1>3, <1>7, <2>1
  <2>3. QED
    BY <1>3, <2>2 DEF ToSet
<1>8. QED
  BY <1>2, <1>4, <1>5, <1>6, <1>7

\* The elements of a list.
LEMMA ToSetFacts ==
  ASSUME NEW S, NEW s \in Seq(S)
  PROVE  ToSet(s) \subseteq S /\ ToSet(<<>>) = {} /\ NoDuplicates(<<>>)
BY LenProperties, ElementOfSeq DEF ToSet, NoDuplicates
-----------------------------------------------------------------------------
(* Types and tickets *)

\* The tables of compatibility are symmetric, and X is the strongest type.
LEMMA TypeFacts ==
  ASSUME NEW k \in Key
  PROVE  /\ "X" \in TypesOf(k)
         /\ TypesOf(k) \subseteq MDLType
         /\ \A a, b \in TypesOf(k) :
              a \in GrantedIncompatible(k, b) <=> b \in GrantedIncompatible(k, a)
         /\ \A a \in TypesOf(k) : a \in GrantedIncompatible(k, "X")
         /\ \A a \in TypesOf(k) :
              GrantedIncompatible(k, "X") \subseteq GrantedIncompatible(k, a)
                => a = "X"
         /\ k \in ObjectKey => TypesOf(k) = ObjectType
<1> USE DEF TypesOf, ObjectType, ScopedType, MDLType, GrantedIncompatible,
            ObjectGrantedIncompatible, ScopedGrantedIncompatible
<1>1. CASE k \in ScopedKey
  BY <1>1, MDLAssumption
<1>2. CASE k \notin ScopedKey
  <2>1. "X" \in TypesOf(k) /\ TypesOf(k) \subseteq MDLType
    BY <1>2
  <2>2. \A a, b \in TypesOf(k) :
          a \in GrantedIncompatible(k, b) <=> b \in GrantedIncompatible(k, a)
    BY <1>2
  <2>3. \A a \in TypesOf(k) : a \in GrantedIncompatible(k, "X")
    BY <1>2
  <2>4. \A a \in TypesOf(k) : a # "X" => a \notin GrantedIncompatible(k, a)
                                      \/ "S" \notin GrantedIncompatible(k, a)
    BY <1>2
  <2>5. QED
    BY <1>2, <2>1, <2>2, <2>3, <2>4
<1>3. QED
  BY <1>1, <1>2

\* NULL is none of the values of the model.
LEMMA Values ==
  /\ NULL \notin Ctx /\ NULL \notin Key /\ NULL \notin Ticket
  /\ NULL \notin MDLType
  /\ \A x \in Ticket : CtxOf(x) \in Ctx
BY MDLAssumption DEF Ticket, CtxOf

\* The ticket that MDL_ticket::create returns is nobody else's.
LEMMA NewTicketFacts ==
  ASSUME NEW c \in Ctx, FreeTickets(c) # {}
  PROVE  /\ NewTicket(c) \in Ticket
         /\ CtxOf(NewTicket(c)) = c
         /\ m_lock[NewTicket(c)] = NULL
BY DEF FreeTickets, NewTicket

\* A ticket without a lock is on no list.
LEMMA FreeTicketUnlisted ==
  ASSUME IInv, NEW x \in Ticket, m_lock[x] = NULL
  PROVE  /\ \A k \in Key : x \notin m_granted[k] /\ x \notin ToSet(m_waiting[k])
         /\ \A c \in Ctx : x \notin m_tickets[c]
         /\ \A k \in Key : m_rwlock[k] # NULL => ticket[m_rwlock[k]] # x
         /\ \A c \in Ctx : pc[c] \in Waits => ticket[c] # x
BY Values DEF IInv, Placed, Owned, Iterating, Slots

\* An idle context is neither waiting nor rescheduling.
LEMMA IdleFacts ==
  ASSUME IInv, NEW c \in Ctx, pc[c] = "idle"
  PROVE  /\ \A k \in Key : m_rwlock[k] # c
         /\ \A k \in Key : \A x \in ToSet(m_waiting[k]) : CtxOf(x) # c
         /\ \A x \in m_tickets[c] : x \in m_granted[m_lock[x]]
         /\ ticket[c] = NULL /\ upgraded[c] = NULL
BY Values DEF IInv, TypeOK, Iterating, Waiting, Owned, Slots, Waits

\* The lists as sets of tickets.
LEMMA ListFacts ==
  ASSUME IInv, NEW k \in Key
  PROVE  /\ m_granted[k] \subseteq Ticket
         /\ m_waiting[k] \in Seq(Ticket) /\ ToSet(m_waiting[k]) \subseteq Ticket
         /\ it[k] \in Seq(Ticket) /\ ToSet(it[k]) \subseteq Ticket
<1>1. m_granted[k] \subseteq Ticket /\ m_waiting[k] \in Seq(Ticket)
      /\ it[k] \in Seq(Ticket)
  BY DEF IInv, TypeOK
<1>2. QED
  BY <1>1, ToSetFacts
-----------------------------------------------------------------------------
(* The invariant holds initially and is preserved *)

\* No ticket exists at first.
LEMMA InitIInv == Init => IInv
<1> SUFFICES ASSUME Init PROVE IInv
  OBVIOUS
<1> USE DEF Init
<1>1. ToSet(<<>>) = {} /\ NoDuplicates(<<>>) /\ <<>> \in Seq(Ticket)
  BY ToSetFacts, EmptySeq
<1>2. TypeOK
  <2>1. skip_high_priority \in [Key -> BOOLEAN]
    BY Zenon
  <2>2. m_waiting \in [Key -> Seq(Ticket)] /\ it \in [Key -> Seq(Ticket)]
    BY <1>1
  <2>3. QED
    BY <2>1, <2>2 DEF TypeOK, PC, WaitStatus
<1>3. Placed /\ Waiting /\ Iterating
  BY <1>1 DEF Placed, Waiting, Iterating
<1>4. Owned /\ Known /\ Slots /\ Upgrading /\ BitmapCovers
  BY DEF Owned, Known, Slots, Waits, Upgrading, UpgradingOf, BitmapCovers
<1>5. GrantedCompatible
  BY DEF GrantedCompatible
<1>6. QED
  BY <1>2, <1>3, <1>4, <1>5 DEF IInv

\* An upgrade is not affected by what other contexts do.
LEMMA UpgradingFrame ==
  ASSUME IInv, NEW d \in Ctx,
         pc'[d] = pc[d], ticket'[d] = ticket[d], upgraded'[d] = upgraded[d],
         m_tickets'[d] = m_tickets[d],
         \A x \in Ticket : CtxOf(x) = d /\ m_lock[x] # NULL =>
           m_lock'[x] = m_lock[x] /\ m_type'[x] = m_type[x]
  PROVE  UpgradingOf(d)'
<1>1. \A x \in m_tickets[d] :
        m_lock'[x] = m_lock[x] /\ m_type'[x] = m_type[x]
  BY Values DEF IInv, TypeOK, Owned
<1>2. pc[d] \in Waits => /\ m_lock'[ticket[d]] = m_lock[ticket[d]]
                        /\ m_type'[ticket[d]] = m_type[ticket[d]]
  BY Values DEF IInv, TypeOK, Slots
<1>3. UpgradingOf(d)
  BY DEF IInv, Upgrading
<1>4. QED
  BY <1>1, <1>2, <1>3 DEF UpgradingOf

\* A new ticket is granted to an idle context, for a request of its own
\* (u = NULL) or for the upgrade of its ticket u.
LEMMA NewGrant ==
  ASSUME IInv, NEW c \in Ctx, NEW k \in Key, NEW type \in TypesOf(k),
         NEW u \in m_tickets[c] \cup {NULL}, NEW x \in Ticket,
         u # NULL => m_lock[u] = k /\ type = "X",
         pc[c] = "idle", CtxOf(x) = c, m_lock[x] = NULL,
         \A y \in m_granted[k] :
           CtxOf(y) = c \/ m_type[y] \notin GrantedIncompatible(k, type),
         Create(x, k, type), AddGranted(k, x, type),
         m_tickets' = [m_tickets EXCEPT ![c] = @ \cup {x}],
         pc' = [pc EXCEPT ![c] = IF u = NULL THEN "idle" ELSE "merge"],
         ticket' = [ticket EXCEPT ![c] = IF u = NULL THEN NULL ELSE x],
         upgraded' = [upgraded EXCEPT ![c] = u],
         UNCHANGED <<m_waiting, waiting_bitmap, m_hog_lock_count, loop,
                     m_wait_status, m_waiting_for>>
  PROVE  IInv'
<1> USE DEF Create, AddGranted, loop
<1>1. /\ m_lock' = [m_lock EXCEPT ![x] = k]
      /\ m_type' = [m_type EXCEPT ![x] = type]
      /\ m_granted' = [m_granted EXCEPT ![k] = @ \cup {x}]
  OBVIOUS
<1>2. TypeOK
  BY DEF IInv
<1>3. TypeOK'
  <2>1. u \in Ticket \cup {NULL}
    BY <1>2 DEF TypeOK
  <2>2. type \in MDLType
    BY TypeFacts
  <2>3. QED
    BY <1>2, <2>1, <2>2 DEF TypeOK, PC
<1>4. Placed'
  BY <1>2, FreeTicketUnlisted DEF IInv, TypeOK, Placed
<1>5. Waiting'
  BY <1>2, ListFacts, FreeTicketUnlisted, IdleFacts, Values
     DEF IInv, TypeOK, Waiting
<1>6. Iterating'
  BY <1>2, FreeTicketUnlisted, IdleFacts, Values DEF IInv, TypeOK, Iterating
<1>7. Owned'
  BY <1>2, FreeTicketUnlisted, IdleFacts DEF IInv, TypeOK, Owned
<1>8. Known'
  <2>1. \A y \in Ticket : CtxOf(y) \in Ctx
    BY Values
  <2>2. QED
    BY <1>2, <2>1 DEF IInv, TypeOK, Known, Waits
<1>9. Slots'
  BY <1>2, FreeTicketUnlisted, IdleFacts, Values DEF IInv, TypeOK, Slots, Waits
<1>10. Upgrading'
  <2>1. ASSUME NEW d \in Ctx, d # c PROVE UpgradingOf(d)'
    BY <1>2, <2>1, UpgradingFrame DEF TypeOK
  <2>2. UpgradingOf(c)'
    BY <1>2, FreeTicketUnlisted, Values DEF TypeOK, UpgradingOf, Waits
  <2>3. QED
    BY <2>1, <2>2 DEF Upgrading
<1>11. BitmapCovers'
  BY <1>2, FreeTicketUnlisted DEF IInv, TypeOK, BitmapCovers
<1>12. GrantedCompatible'
  BY <1>2, FreeTicketUnlisted, TypeFacts
     DEF IInv, TypeOK, Placed, GrantedCompatible
<1>13. QED
  BY <1>3, <1>4, <1>5, <1>6, <1>7, <1>8, <1>9, <1>10, <1>11, <1>12 DEF IInv

\* can_grant_lock decides correctly, although it looks at the bitmap first.
LEMMA CanGrantSound ==
  ASSUME IInv, NEW k \in Key, NEW type, NEW c, NEW ignore,
         CanGrant(k, type, c, ignore)
  PROVE  \A y \in m_granted[k] :
           CtxOf(y) = c \/ m_type[y] \notin GrantedIncompatible(k, type)
BY DEF IInv, BitmapCovers, CanGrant

\* A ticket of stronger or equal type vouches for the new one.
LEMMA HasTicketSound ==
  ASSUME IInv, NEW k \in Key, NEW type, NEW c \in Ctx, pc[c] = "idle",
         HasTicket(c, k, type)
  PROVE  \A y \in m_granted[k] :
           CtxOf(y) = c \/ m_type[y] \notin GrantedIncompatible(k, type)
<1>1. PICK z \in m_tickets[c] :
        /\ m_lock[z] = k
        /\ GrantedIncompatible(k, type) \subseteq
             GrantedIncompatible(k, m_type[z])
  BY DEF HasTicket
<1>2. z \in m_granted[k] /\ CtxOf(z) = c
  BY <1>1, IdleFacts DEF IInv, Owned
<1>3. QED
  BY <1>1, <1>2 DEF IInv, GrantedCompatible

\* try_acquire_lock_impl.
LEMMA GrantAtOnceKeeps ==
  ASSUME IInv, NEW c \in Ctx, NEW k \in Key, NEW type \in TypesOf(k),
         NEW u \in m_tickets[c] \cup {NULL},
         u # NULL => m_lock[u] = k /\ type = "X",
         GrantAtOnce(c, k, type, u)
  PROVE  IInv'
<1>1. FreeTickets(c) # {} /\ pc[c] = "idle"
  BY DEF GrantAtOnce, MayRequest
<1>2. \A y \in m_granted[k] :
        CtxOf(y) = c \/ m_type[y] \notin GrantedIncompatible(k, type)
  BY CanGrantSound DEF GrantAtOnce
<1> DEFINE x == NewTicket(c)
<1>3. x \in Ticket /\ CtxOf(x) = c /\ m_lock[x] = NULL
  BY <1>1, NewTicketFacts
<1>4. /\ Create(x, k, type) /\ AddGranted(k, x, type)
      /\ m_tickets' = [m_tickets EXCEPT ![c] = @ \cup {x}]
      /\ pc' = [pc EXCEPT ![c] = IF u = NULL THEN "idle" ELSE "merge"]
      /\ ticket' = [ticket EXCEPT ![c] = IF u = NULL THEN NULL ELSE x]
      /\ upgraded' = [upgraded EXCEPT ![c] = u]
      /\ UNCHANGED <<m_waiting, waiting_bitmap, m_hog_lock_count, loop,
                     m_wait_status, m_waiting_for>>
  BY DEF GrantAtOnce, Goto
<1> HIDE DEF x
<1>5. QED
  BY <1>1, <1>2, <1>3, <1>4, NewGrant

\* clone_ticket.
LEMMA CloneTicketKeeps ==
  ASSUME IInv, NEW c \in Ctx, NEW k \in Key, NEW type \in TypesOf(k),
         CloneTicket(c, k, type)
  PROVE  IInv'
<1>1. FreeTickets(c) # {} /\ pc[c] = "idle"
  BY DEF CloneTicket
<1>2. \A y \in m_granted[k] :
        CtxOf(y) = c \/ m_type[y] \notin GrantedIncompatible(k, type)
  BY <1>1, HasTicketSound DEF CloneTicket
<1> DEFINE x == NewTicket(c)
<1>3. x \in Ticket /\ CtxOf(x) = c /\ m_lock[x] = NULL
  BY <1>1, NewTicketFacts
<1>4. /\ Create(x, k, type) /\ AddGranted(k, x, type)
      /\ m_tickets' = [m_tickets EXCEPT ![c] = @ \cup {x}]
      /\ UNCHANGED <<m_waiting, waiting_bitmap, m_hog_lock_count, loop,
                     m_wait_status, m_waiting_for>>
  BY DEF CloneTicket
<1>5. /\ pc' = [pc EXCEPT ![c] = "idle"]
      /\ ticket' = [ticket EXCEPT ![c] = NULL]
      /\ upgraded' = [upgraded EXCEPT ![c] = NULL]
  BY <1>1, IdleFacts DEF CloneTicket, locals, IInv, TypeOK
<1> HIDE DEF x
<1>6. QED
  BY <1>1, <1>2, <1>3, <1>4, <1>5, NewGrant

\* acquire_lock joins the queue.
LEMMA EnqueueKeeps ==
  ASSUME IInv, NEW c \in Ctx, NEW k \in Key, NEW type \in TypesOf(k),
         NEW u \in m_tickets[c] \cup {NULL},
         u # NULL => m_lock[u] = k /\ type = "X",
         Enqueue(c, k, type, u)
  PROVE  IInv'
<1>1. FreeTickets(c) # {} /\ pc[c] = "idle" /\ m_rwlock[k] = NULL
  BY DEF Enqueue, MayRequest
<1> DEFINE x == NewTicket(c)
<1>2. x \in Ticket /\ CtxOf(x) = c /\ m_lock[x] = NULL
  BY <1>1, NewTicketFacts
<1>3. /\ m_lock' = [m_lock EXCEPT ![x] = k]
      /\ m_type' = [m_type EXCEPT ![x] = type]
      /\ m_waiting' = [m_waiting EXCEPT ![k] = Append(@, x)]
      /\ waiting_bitmap' = [waiting_bitmap EXCEPT ![k] = @ \cup {type}]
      /\ m_wait_status' = [m_wait_status EXCEPT ![c] = "EMPTY"]
      /\ pc' = [pc EXCEPT ![c] = "queued"]
      /\ ticket' = [ticket EXCEPT ![c] = x]
      /\ upgraded' = [upgraded EXCEPT ![c] = u]
      /\ UNCHANGED <<m_tickets, m_granted, granted_bitmap, m_hog_lock_count,
                     m_rwlock, it, skip_high_priority, m_waiting_for>>
  BY DEF Enqueue, Create, Goto, loop
<1> HIDE DEF x
<1>4. TypeOK
  BY DEF IInv
<1>5. /\ \A j \in Key : x \notin m_granted[j] /\ x \notin ToSet(m_waiting[j])
      /\ \A d \in Ctx : x \notin m_tickets[d]
      /\ \A j \in Key : m_rwlock[j] # NULL => ticket[m_rwlock[j]] # x
      /\ \A d \in Ctx : pc[d] \in Waits => ticket[d] # x
  BY <1>2, FreeTicketUnlisted
<1>6. /\ Append(m_waiting[k], x) \in Seq(Ticket)
      /\ ToSet(Append(m_waiting[k], x)) = ToSet(m_waiting[k]) \cup {x}
      /\ NoDuplicates(Append(m_waiting[k], x))
  BY <1>2, <1>5, ListFacts, AppendFacts DEF IInv, Waiting
<1>7. \A j \in Key : ToSet(m_waiting'[j]) =
        IF j = k THEN ToSet(m_waiting[k]) \cup {x} ELSE ToSet(m_waiting[j])
  BY <1>3, <1>4, <1>6 DEF TypeOK
<1>8. TypeOK'
  <2>1. u \in Ticket \cup {NULL}
    BY <1>4 DEF TypeOK
  <2>2. type \in MDLType
    BY TypeFacts
  <2>3. QED
    BY <1>2, <1>3, <1>4, <1>6, <2>1, <2>2 DEF TypeOK, PC, WaitStatus
<1>9. Placed'
  BY <1>2, <1>3, <1>4, <1>5, <1>7, ListFacts DEF IInv, TypeOK, Placed
<1>10. Waiting'
  <2>1. \A j \in Key : NoDuplicates(m_waiting'[j])
    BY <1>3, <1>4, <1>6 DEF IInv, TypeOK, Waiting
  <2>2. QED
    BY <1>1, <1>2, <1>3, <1>4, <1>5, <1>7, <2>1, ListFacts, IdleFacts, Values
       DEF IInv, TypeOK, Waiting, Waits
<1>11. Iterating'
  BY <1>1, <1>2, <1>3, <1>4, <1>5, <1>7, IdleFacts, Values
     DEF IInv, TypeOK, Iterating
<1>12. Owned'
  BY <1>1, <1>2, <1>3, <1>4, <1>5, IdleFacts DEF IInv, TypeOK, Owned
<1>13. Known'
  BY <1>1, <1>3, <1>4, ListFacts, Values DEF IInv, TypeOK, Known, Waits
<1>14. Slots'
  BY <1>2, <1>3, <1>4, <1>5, <1>7, Values DEF IInv, TypeOK, Slots, Waits
<1>15. Upgrading'
  <2>1. ASSUME NEW d \in Ctx, d # c PROVE UpgradingOf(d)'
    BY <1>2, <1>3, <1>4, <2>1, UpgradingFrame DEF TypeOK
  <2>2. UpgradingOf(c)'
    BY <1>2, <1>3, <1>4, <1>5, Values DEF TypeOK, UpgradingOf, Waits
  <2>3. QED
    BY <2>1, <2>2 DEF Upgrading
<1>16. BitmapCovers'
  BY <1>2, <1>3, <1>4, <1>5, ListFacts DEF IInv, TypeOK, BitmapCovers
<1>17. GrantedCompatible'
  BY <1>2, <1>3, <1>4, <1>5, ListFacts DEF IInv, TypeOK, GrantedCompatible
<1>18. QED
  BY <1>8, <1>9, <1>10, <1>11, <1>12, <1>13, <1>14, <1>15, <1>16, <1>17
     DEF IInv

\* A step of a wait moves the context on inside acquire_lock, and may close
\* wait slots that are still open, but does not grant anything.
LEMMA WaitStepKeeps ==
  ASSUME IInv, TypeOK',
         UNCHANGED <<tickets, queues, m_hog_lock_count, loop, ticket,
                     upgraded>>,
         \A d \in Ctx : \/ pc'[d] = pc[d]
                        \/ /\ pc[d] \in Waits \ {"cancel"}
                           /\ pc'[d] \in Waits \ {"cancel"},
         \A d \in Ctx : \/ m_wait_status'[d] = m_wait_status[d]
                        \/ /\ m_wait_status[d] = "EMPTY"
                           /\ m_wait_status'[d] \notin {"EMPTY", "GRANTED"},
         \A d \in Ctx : pc'[d] = "done" => m_wait_status'[d] # "EMPTY"
  PROVE  IInv'
<1> USE DEF tickets, queues, loop
<1>1. \A d \in Ctx : /\ pc'[d] \in Waits <=> pc[d] \in Waits
                     /\ pc[d] \notin Waits => pc'[d] = pc[d]
                     /\ pc'[d] = "cancel" <=> pc[d] = "cancel"
  BY DEF Waits
<1>2. Placed' /\ BitmapCovers' /\ GrantedCompatible'
  BY DEF IInv, Placed, BitmapCovers, GrantedCompatible
<1>3. Waiting'
  BY <1>1, ListFacts, Values DEF IInv, Waiting
<1>4. \A d \in Ctx : pc[d] = "resched" => pc'[d] = "resched"
  BY <1>1 DEF Waits
<1>5. Iterating'
  BY <1>4 DEF IInv, TypeOK, Iterating
<1>6. Owned'
  BY <1>4 DEF IInv, Owned
<1>7. Known'
  BY <1>1, ListFacts, Values DEF IInv, Known
<1>8. Slots'
  <2>1. ASSUME NEW d \in Ctx, pc'[d] \in Waits
        PROVE  m_wait_status'[d] = "GRANTED" <=> m_wait_status[d] = "GRANTED"
    OBVIOUS
  <2>2. \A d \in Ctx : pc'[d] = "idle" => pc[d] = "idle"
    BY <1>1 DEF Waits
  <2>3. QED
    BY <1>1, <2>1, <2>2 DEF IInv, Slots
<1>9. Upgrading'
  <2>1. \A d \in Ctx : pc'[d] = "merge" => pc[d] = "merge"
    BY <1>1 DEF Waits
  <2>2. QED
    BY <1>1, <2>1 DEF IInv, Upgrading, UpgradingOf
<1>10. QED
  BY <1>2, <1>3, <1>5, <1>6, <1>7, <1>8, <1>9 DEF IInv

\* The wait itself: will_wait_for, find_deadlock and timed_wait.
LEMMA WaitKeeps ==
  ASSUME IInv, NEW c \in Ctx,
         \/ WillWaitFor(c)
         \/ NoDeadlockFound(c)
         \/ WakeUp(c)
         \/ \E v \in Ctx : ChooseVictim(c, v)
         \/ \E status \in AbortStatus : AbortWait(c, status)
  PROVE  IInv'
<1> USE DEF IInv, TypeOK, Goto
<1>1. CASE WillWaitFor(c)
  <2>1. TypeOK'
    BY <1>1 DEF WillWaitFor, tickets, queues, loop, PC
  <2>2. QED
    BY <1>1, <2>1, WaitStepKeeps DEF WillWaitFor, Waits, Slots
<1>2. CASE NoDeadlockFound(c)
  <2>1. TypeOK'
    BY <1>2 DEF NoDeadlockFound, tickets, queues, loop, PC
  <2>2. QED
    BY <1>2, <2>1, WaitStepKeeps DEF NoDeadlockFound, Waits, Slots
<1>3. CASE WakeUp(c)
  <2>1. TypeOK'
    BY <1>3 DEF WakeUp, tickets, queues, loop, PC
  <2>2. QED
    BY <1>3, <2>1, WaitStepKeeps DEF WakeUp, Waits, Slots
<1>4. ASSUME NEW v \in Ctx, ChooseVictim(c, v) PROVE IInv'
  <2>1. TypeOK'
    BY <1>4 DEF ChooseVictim, SetStatus, tickets, queues, loop, PC, WaitStatus
  <2>2. \A d \in Ctx : \/ m_wait_status'[d] = m_wait_status[d]
                       \/ /\ m_wait_status[d] = "EMPTY"
                          /\ m_wait_status'[d] = "VICTIM"
    BY <1>4 DEF ChooseVictim, SetStatus
  <2>3. QED
    BY <1>4, <2>1, <2>2, WaitStepKeeps DEF ChooseVictim, Waits, Slots
<1>5. ASSUME NEW status \in AbortStatus, AbortWait(c, status) PROVE IInv'
  <2>1. status \in {"TIMEOUT", "KILLED"}
    BY MDLAssumption
  <2>2. TypeOK'
    BY <1>5, <2>1 DEF AbortWait, tickets, queues, loop, PC, WaitStatus
  <2>3. QED
    BY <1>5, <2>1, <2>2, WaitStepKeeps DEF AbortWait, Waits, Slots
<1>6. QED
  BY <1>1, <1>2, <1>3, <1>4, <1>5

\* acquire_lock takes possession of a granted ticket, or starts to give up.
LEMMA DoneWaitingForKeeps ==
  ASSUME IInv, NEW c \in Ctx, DoneWaitingFor(c)
  PROVE  IInv'
<1> USE DEF DoneWaitingFor, Goto, queues, loop
<1>0. pc[c] = "done"
  OBVIOUS
<1>1. TypeOK /\ pc[c] = "done" /\ m_wait_status[c] # "EMPTY"
  BY <1>0 DEF IInv, Slots
<1>2. /\ ticket[c] \in Ticket /\ CtxOf(ticket[c]) = c /\ ticket[c] # NULL
      /\ m_lock[ticket[c]] \in Key /\ ticket[c] \notin m_tickets[c]
      /\ m_wait_status[c] = "GRANTED" =>
           ticket[c] \in m_granted[m_lock[ticket[c]]]
      /\ \A k \in Key : m_rwlock[k] # c
  <2>1. \A k \in Key : m_rwlock[k] # c
    BY <1>0, Values DEF IInv, Iterating
  <2>2. pc[c] \in Waits
    BY <1>0 DEF Waits
  <2> HIDE DEF DoneWaitingFor
  <2>3. QED
    BY <2>1, <2>2, Values DEF IInv, Slots
<1>3. Placed' /\ BitmapCovers' /\ GrantedCompatible'
  BY DEF IInv, Placed, BitmapCovers, GrantedCompatible
<1>4. CASE WaitFailed(c)
  <2>1. TypeOK'
    BY <1>1, <1>4 DEF TypeOK, PC
  <2>a. /\ pc' = [pc EXCEPT ![c] = "cancel"]
        /\ UNCHANGED <<m_lock, m_type, m_tickets, m_granted, granted_bitmap,
                       m_waiting, m_rwlock, it, m_wait_status, ticket>>
    BY <1>4
  <2>2. Waiting' /\ Iterating' /\ Owned' /\ Known'
    <3> HIDE DEF DoneWaitingFor
    <3>1. Waiting'
      BY <1>1, <2>a, ListFacts, Values DEF IInv, TypeOK, Waiting, Waits
    <3>2. Iterating'
      BY <1>1, <1>2, <2>a DEF IInv, TypeOK, Iterating
    <3>3. Owned'
      BY <1>1, <2>a DEF IInv, TypeOK, Owned
    <3>4. Known'
      BY <1>1, <2>a, ListFacts, Values DEF IInv, TypeOK, Known, Waits
    <3>5. QED
      BY <3>1, <3>2, <3>3, <3>4
  <2>3. Slots'
    BY <1>1, <1>4 DEF IInv, TypeOK, Slots, WaitFailed, Waits
  <2>4. Upgrading'
    BY <1>1, <1>4 DEF IInv, TypeOK, Upgrading, UpgradingOf, Waits
  <2>5. QED
    BY <1>3, <2>1, <2>2, <2>3, <2>4 DEF IInv
<1>5. CASE ~WaitFailed(c)
  <2>1. m_wait_status[c] = "GRANTED"
    BY <1>5 DEF WaitFailed
  <2>2. /\ m_tickets' = [m_tickets EXCEPT ![c] = @ \cup {ticket[c]}]
        /\ pc' = [pc EXCEPT ![c] =
                    IF upgraded[c] # NULL THEN "merge" ELSE "idle"]
        /\ ticket' = [ticket EXCEPT ![c] =
                        IF upgraded[c] # NULL THEN @ ELSE NULL]
    BY <1>1, <1>5 DEF TypeOK
  <2>3. TypeOK'
    BY <1>1, <1>2, <2>2 DEF TypeOK, PC
  <2>4. \A k \in Key : \A y \in ToSet(m_waiting[k]) : CtxOf(y) # c
    BY <1>2, <2>1 DEF IInv, Waiting, Placed
  <2>5. Waiting'
    BY <1>1, <2>2, <2>4, ListFacts, Values DEF IInv, TypeOK, Waiting
  <2>6. Iterating'
    BY <1>1, <1>2, <2>2 DEF IInv, TypeOK, Iterating
  <2>7. Owned'
    BY <1>1, <1>2, <2>1, <2>2 DEF IInv, TypeOK, Owned
  <2>8. Known'
    BY <1>1, <2>2, ListFacts, Values DEF IInv, TypeOK, Known
  <2>9. Slots'
    BY <1>1, <2>2 DEF IInv, TypeOK, Slots, Waits
  <2>10. Upgrading'
    <3>1. ASSUME NEW d \in Ctx, d # c PROVE UpgradingOf(d)'
      BY <1>1, <2>2, <3>1, UpgradingFrame DEF TypeOK
    <3>2. UpgradingOf(c)'
      BY <1>1, <1>2, <2>2 DEF IInv, TypeOK, Upgrading, UpgradingOf, Waits
    <3>3. QED
      BY <3>1, <3>2 DEF Upgrading
  <2>11. QED
    BY <1>3, <2>3, <2>5, <2>6, <2>7, <2>8, <2>9, <2>10 DEF IInv
<1>6. QED
  BY <1>4, <1>5

\* remove_ticket: ticket x of context c leaves the lists of its lock.  Either
\* the lock is empty and the ticket is destroyed, or the waiters come first.
LEMMA RemovalKeeps ==
  ASSUME IInv, NEW c \in Ctx, NEW x \in Ticket, NEW k \in Key,
         CtxOf(x) = c, m_lock[x] = k, m_rwlock[k] = NULL,
         \/ pc[c] = "idle"
         \/ pc[c] = "cancel" /\ ticket[c] = x,
         m_granted' = [m_granted EXCEPT ![k] = @ \ {x}],
         granted_bitmap' \in [Key -> SUBSET MDLType],
         \A j \in Key : \A y \in m_granted'[j] : m_type[y] \in granted_bitmap'[j],
         m_waiting' \in [Key -> Seq(Ticket)],
         \A j \in Key : /\ ToSet(m_waiting'[j]) = ToSet(m_waiting[j]) \ {x}
                        /\ NoDuplicates(m_waiting'[j]),
         waiting_bitmap' \in [Key -> SUBSET MDLType],
         NEW g, NEW types, AfterRemoval(c, k, x, g, m_waiting'[k], types),
         UNCHANGED <<m_wait_status, m_waiting_for>>
  PROVE  IInv'
<1>1. TypeOK
  BY DEF IInv
<1>2. \A j \in Key : \A y \in m_granted[j] : CtxOf(y) = c => y \in m_tickets[c]
  <2>1. pc[c] = "cancel" => m_wait_status[c] # "GRANTED"
    BY DEF IInv, Slots
  <2>2. ASSUME NEW j \in Key, NEW y \in m_granted[j], CtxOf(y) = c
        PROVE  \/ y \in m_tickets[c]
               \/ m_wait_status[c] = "GRANTED" /\ pc[c] \in Waits
    BY <2>2 DEF IInv, Known
  <2>3. pc[c] \in Waits => pc[c] = "cancel"
    BY DEF Waits
  <2>4. QED
    BY <2>1, <2>2, <2>3
<1>3. \A j \in Key : \A y \in ToSet(m_waiting'[j]) : CtxOf(y) # c
  BY IdleFacts DEF IInv, Waiting
<1>4. \A j \in Key : m_rwlock[j] # c
  BY Values DEF IInv, Iterating
<1>5. \A j \in Key : m_granted'[j] = m_granted[j] \ {x}
  BY <1>1 DEF IInv, TypeOK, Placed
<1>6. m_granted' \in [Key -> SUBSET Ticket]
  BY <1>1 DEF TypeOK
<1>7. \A y \in m_tickets[c] : y \in m_granted[m_lock[y]] /\ m_lock[y] \in Key
  BY DEF IInv, Owned
<1>8. \A d \in Ctx : d # c => x \notin m_tickets[d]
  BY DEF IInv, Owned
<1>9. \A d \in Ctx : d # c /\ pc[d] \in Waits => ticket[d] # x
  BY DEF IInv, Slots
<1>10. CASE Finish(c, {x}) /\ UNCHANGED loop
           /\ m_hog_lock_count' \in
                {m_hog_lock_count, [m_hog_lock_count EXCEPT ![k] = 0]}
  <2>1. /\ m_lock' = [y \in Ticket |-> IF y = x THEN NULL ELSE m_lock[y]]
        /\ m_type' = [y \in Ticket |-> IF y = x THEN NULL ELSE m_type[y]]
        /\ m_tickets' = [m_tickets EXCEPT ![c] = @ \ {x}]
        /\ pc' = [pc EXCEPT ![c] = "idle"]
        /\ ticket' = [ticket EXCEPT ![c] = NULL]
        /\ upgraded' = [upgraded EXCEPT ![c] = NULL]
        /\ m_rwlock' = m_rwlock /\ it' = it
        /\ skip_high_priority' = skip_high_priority
    BY <1>10 DEF Finish, Goto, loop
  <2>2. TypeOK'
    BY <1>1, <1>6, <1>10, <2>1 DEF TypeOK, PC
  <2>3. Placed'
    BY <1>1, <1>5, <2>1, ListFacts DEF IInv, Placed
  <2>4. Waiting'
    BY <1>1, <1>3, <1>5, <2>1, ListFacts, Values DEF IInv, TypeOK, Waiting
  <2>5. ToSet(it[k]) = {}
    <3>1. it[k] = <<>>
      BY DEF IInv, Iterating
    <3>2. QED
      BY <3>1, ToSetFacts, ListFacts
  <2>6. Iterating'
    <3>1. \A j \in Key : ToSet(it'[j]) \subseteq ToSet(m_waiting'[j])
      <4>1. \A j \in Key : x \in ToSet(m_waiting[j]) => j = k
        BY DEF IInv, Placed
      <4>2. \A j \in Key : ToSet(it[j]) \subseteq ToSet(m_waiting[j])
        BY DEF IInv, Iterating
      <4>3. ASSUME NEW j \in Key PROVE ToSet(it[j]) \subseteq ToSet(m_waiting'[j])
        BY <2>5, <4>1, <4>2
      <4>4. QED
        BY <2>1, <4>3
    <3>2. \A j \in Key : m_rwlock[j] # NULL => ticket[m_rwlock[j]] # x
      BY <1>4, Values DEF IInv, Iterating
    <3>3. QED
      BY <1>1, <1>4, <2>1, <3>1, <3>2, Values DEF IInv, TypeOK, Iterating
  <2>7. Owned'
    BY <1>1, <1>5, <1>7, <1>8, <2>1 DEF IInv, TypeOK, Owned
  <2>8. Known'
    BY <1>1, <1>2, <1>5, <2>1, ListFacts, Values DEF IInv, TypeOK, Known
  <2>9. Slots'
    <3>1. ASSUME NEW d \in Ctx, d # c, pc[d] \in Waits
          PROVE  /\ ticket[d] \in m_granted[m_lock[ticket[d]]] =>
                      ticket[d] \in m_granted'[m_lock'[ticket[d]]]
                 /\ ticket[d] \in ToSet(m_waiting[m_lock[ticket[d]]]) =>
                      ticket[d] \in ToSet(m_waiting'[m_lock'[ticket[d]]])
      BY <1>5, <1>9, <2>1, <3>1 DEF IInv, Slots
    <3>2. QED
      BY <1>1, <1>9, <2>1, <3>1 DEF IInv, TypeOK, Slots, Waits
  <2>10. Upgrading'
    <3>1. ASSUME NEW d \in Ctx, d # c PROVE UpgradingOf(d)'
      BY <1>1, <2>1, <3>1, UpgradingFrame DEF TypeOK
    <3>2. UpgradingOf(c)'
      BY <1>1, <2>1 DEF TypeOK, UpgradingOf, Waits
    <3>3. QED
      BY <3>1, <3>2 DEF Upgrading
  <2>11. BitmapCovers' /\ GrantedCompatible'
    BY <1>5, <2>1, ListFacts DEF IInv, BitmapCovers, GrantedCompatible
  <2>12. QED
    BY <2>2, <2>3, <2>4, <2>6, <2>7, <2>8, <2>9, <2>10, <2>11 DEF IInv
<1>11. CASE StartReschedule(c, k, m_waiting'[k], types)
           /\ ticket' = [ticket EXCEPT ![c] = x]
           /\ UNCHANGED <<tickets, m_hog_lock_count, upgraded>>
  <2>1. /\ UNCHANGED <<m_lock, m_type, m_tickets, m_hog_lock_count, upgraded>>
        /\ pc' = [pc EXCEPT ![c] = "resched"]
        /\ ticket' = [ticket EXCEPT ![c] = x]
        /\ m_rwlock' = [m_rwlock EXCEPT ![k] = c]
        /\ it' = [it EXCEPT ![k] = m_waiting'[k]]
    BY <1>11 DEF StartReschedule, Goto, tickets
  <2>2. TypeOK'
    <3>1. skip_high_priority' \in [Key -> BOOLEAN]
      <4>1. (TooManyHogs(k) /\ WeakPending(k, types)) \in BOOLEAN
        BY Zenon
      <4>2. skip_high_priority' = [skip_high_priority EXCEPT ![k] =
              TooManyHogs(k) /\ WeakPending(k, types)]
        BY <1>11 DEF StartReschedule
      <4>3. QED
        BY <1>1, <4>1, <4>2, Zenon DEF TypeOK
    <3>2. QED
      BY <1>1, <1>6, <2>1, <3>1 DEF TypeOK, PC
  <2>3. Placed'
    BY <1>5, <2>1 DEF IInv, Placed
  <2>4. Waiting'
    BY <1>1, <1>3, <1>5, <2>1, ListFacts, Values DEF IInv, TypeOK, Waiting
  <2>5. Iterating'
    <3>1. \A j \in Key : j # k => x \notin ToSet(m_waiting[j])
      BY DEF IInv, Placed
    <3>2. QED
      BY <1>1, <1>4, <2>1, <3>1, Values DEF IInv, TypeOK, Iterating
  <2>6. Owned'
    BY <1>1, <1>5, <1>7, <1>8, <2>1 DEF IInv, TypeOK, Owned
  <2>7. Known'
    BY <1>1, <1>2, <1>5, <2>1, ListFacts, Values DEF IInv, TypeOK, Known
  <2>8. Slots'
    <3>1. ASSUME NEW d \in Ctx, d # c, pc[d] \in Waits
          PROVE  /\ ticket[d] \in m_granted[m_lock[ticket[d]]] =>
                      ticket[d] \in m_granted'[m_lock'[ticket[d]]]
                 /\ ticket[d] \in ToSet(m_waiting[m_lock[ticket[d]]]) =>
                      ticket[d] \in ToSet(m_waiting'[m_lock'[ticket[d]]])
      BY <1>5, <1>9, <2>1, <3>1 DEF IInv, Slots
    <3>2. QED
      BY <1>1, <1>9, <2>1, <3>1 DEF IInv, TypeOK, Slots, Waits
  <2>9. Upgrading'
    <3>1. ASSUME NEW d \in Ctx, d # c PROVE UpgradingOf(d)'
      BY <1>1, <2>1, <3>1, UpgradingFrame DEF TypeOK
    <3>2. UpgradingOf(c)'
      BY <1>1, <2>1 DEF TypeOK, UpgradingOf, Waits
    <3>3. QED
      BY <3>1, <3>2 DEF Upgrading
  <2>10. BitmapCovers' /\ GrantedCompatible'
    BY <1>5, <2>1 DEF IInv, BitmapCovers, GrantedCompatible
  <2>11. QED
    BY <2>2, <2>3, <2>4, <2>5, <2>6, <2>7, <2>8, <2>9, <2>10 DEF IInv
<1>12. QED
  BY <1>10, <1>11 DEF AfterRemoval

\* clear_bit_if_not_in_list keeps the bits of the tickets that remain.
LEMMA ClearBitFacts ==
  ASSUME NEW bitmap, NEW type, NEW rest
  PROVE  /\ ClearBit(bitmap, type, rest) \subseteq bitmap
         /\ \A y \in rest : m_type[y] \in bitmap =>
                             m_type[y] \in ClearBit(bitmap, type, rest)
BY DEF ClearBit

\* MDL_context::release_lock.
LEMMA ReleaseLockKeeps ==
  ASSUME IInv, NEW c \in Ctx, NEW x \in m_tickets[c], ReleaseLock(c, x)
  PROVE  IInv'
<1> DEFINE k == m_lock[x]
<1>1. pc[c] = "idle" /\ TypeOK
  BY DEF ReleaseLock, IInv
<1>2. x \in Ticket /\ CtxOf(x) = c /\ k \in Key /\ x \in m_granted[k]
  BY <1>1, IdleFacts DEF IInv, TypeOK, Owned
<1>3. /\ m_rwlock[k] = NULL
      /\ m_granted' = [m_granted EXCEPT ![k] = @ \ {x}]
      /\ granted_bitmap' = [granted_bitmap EXCEPT
           ![k] = ClearBit(@, m_type[x], m_granted[k] \ {x})]
      /\ AfterRemoval(c, k, x, m_granted[k] \ {x}, m_waiting[k],
                      waiting_bitmap[k])
      /\ UNCHANGED <<m_waiting, waiting_bitmap, m_wait_status, m_waiting_for>>
  BY DEF ReleaseLock
<1> HIDE DEF k
<1>4. \A j \in Key : x \notin ToSet(m_waiting[j])
  BY <1>1, <1>2, IdleFacts
<1>5. \A j \in Key : /\ ToSet(m_waiting'[j]) = ToSet(m_waiting[j]) \ {x}
                     /\ NoDuplicates(m_waiting'[j])
  BY <1>3, <1>4 DEF IInv, Waiting
<1>6. granted_bitmap' \in [Key -> SUBSET MDLType]
  <2>1. ClearBit(granted_bitmap[k], m_type[x], m_granted[k] \ {x}) \subseteq
          granted_bitmap[k]
    BY ClearBitFacts
  <2>2. QED
    BY <1>1, <1>2, <1>3, <2>1 DEF TypeOK
<1>7. \A j \in Key : \A y \in m_granted'[j] : m_type[y] \in granted_bitmap'[j]
  <2>1. ASSUME NEW y \in m_granted[k] \ {x}
        PROVE  m_type[y] \in ClearBit(granted_bitmap[k], m_type[x],
                                     m_granted[k] \ {x})
    BY <1>2, <2>1, ClearBitFacts DEF IInv, BitmapCovers
  <2>2. QED
    BY <1>1, <1>2, <1>3, <2>1 DEF IInv, TypeOK, BitmapCovers
<1>8. /\ m_waiting' \in [Key -> Seq(Ticket)]
      /\ waiting_bitmap' \in [Key -> SUBSET MDLType]
  BY <1>1, <1>3 DEF TypeOK
<1>9. AfterRemoval(c, k, x, m_granted[k] \ {x}, m_waiting'[k],
                   waiting_bitmap[k])
  BY <1>3
<1>10. m_lock[x] = k /\ m_wait_status' = m_wait_status
       /\ m_waiting_for' = m_waiting_for
  BY <1>3 DEF k
<1>11. QED
  BY <1>1, <1>2, <1>3, <1>5, <1>6, <1>7, <1>8, <1>9, <1>10, RemovalKeeps

\* acquire_lock gives up.
LEMMA CancelWaitKeeps ==
  ASSUME IInv, NEW c \in Ctx, CancelWait(c)
  PROVE  IInv'
<1> DEFINE x == ticket[c]
           k == m_lock[x]
           rest == Drop(m_waiting[k], x)
           types == ClearBit(waiting_bitmap[k], m_type[x], ToSet(rest))
<1>1. pc[c] = "cancel" /\ TypeOK
  BY DEF CancelWait, IInv
<1>2. /\ x \in Ticket /\ CtxOf(x) = c /\ k \in Key
      /\ x \in ToSet(m_waiting[k])
  <2>1. pc[c] \in Waits /\ m_wait_status[c] # "GRANTED"
    BY <1>1 DEF IInv, Slots, Waits
  <2>2. QED
    BY <2>1 DEF IInv, Slots
<1>3. /\ m_rwlock[k] = NULL
      /\ m_waiting' = [m_waiting EXCEPT ![k] = rest]
      /\ waiting_bitmap' = [waiting_bitmap EXCEPT ![k] = types]
      /\ AfterRemoval(c, k, x, m_granted[k], rest, types)
      /\ UNCHANGED <<m_granted, granted_bitmap, m_wait_status, m_waiting_for>>
  BY DEF CancelWait
<1>4. /\ rest \in Seq(Ticket)
      /\ ToSet(rest) = ToSet(m_waiting[k]) \ {x}
      /\ NoDuplicates(rest)
  BY <1>2, ListFacts, DropFacts DEF IInv, Waiting
<1>5. types \subseteq waiting_bitmap[k]
  BY ClearBitFacts
<1>6. x = ticket[c] /\ m_lock[x] = k
  OBVIOUS
<1> HIDE DEF x, k, rest, types
<1>7. \A j \in Key : /\ ToSet(m_waiting'[j]) = ToSet(m_waiting[j]) \ {x}
                     /\ NoDuplicates(m_waiting'[j])
  <2>1. \A j \in Key : x \in ToSet(m_waiting[j]) => j = k
    BY <1>6 DEF IInv, Placed
  <2>2. QED
    BY <1>1, <1>2, <1>3, <1>4, <2>1 DEF IInv, TypeOK, Waiting
<1>8. m_granted' = [m_granted EXCEPT ![k] = @ \ {x}]
  <2>1. x \notin m_granted[k]
    BY <1>2 DEF IInv, Waiting
  <2>2. QED
    BY <1>1, <1>3, <2>1 DEF TypeOK
<1>9. /\ granted_bitmap' \in [Key -> SUBSET MDLType]
      /\ m_waiting' \in [Key -> Seq(Ticket)]
      /\ waiting_bitmap' \in [Key -> SUBSET MDLType]
  BY <1>1, <1>3, <1>4, <1>5 DEF TypeOK
<1>10. \A j \in Key : \A y \in m_granted'[j] : m_type[y] \in granted_bitmap'[j]
  BY <1>3 DEF IInv, BitmapCovers
<1>11. AfterRemoval(c, k, x, m_granted[k], m_waiting'[k], types)
  <2>1. m_waiting'[k] = rest
    BY <1>1, <1>2, <1>3 DEF TypeOK
  <2>2. QED
    BY <1>3, <2>1
<1>12. m_wait_status' = m_wait_status /\ m_waiting_for' = m_waiting_for
  BY <1>3
<1>13. QED
  BY <1>1, <1>2, <1>3, <1>6, <1>7, <1>8, <1>9, <1>10, <1>11, <1>12, RemovalKeeps

\* reschedule_waiters passes over a waiter.
LEMMA ReschedulePassKeeps ==
  ASSUME IInv, NEW c \in Ctx, NEW k \in Key, ReschedulePass(c, k)
  PROVE  IInv'
<1> USE DEF ReschedulePass, tickets, queues, locals
<1>1. TypeOK
  BY DEF IInv
<1>2. /\ Tail(it[k]) \in Seq(Ticket)
      /\ ToSet(Tail(it[k])) \subseteq ToSet(it[k])
      /\ NoDuplicates(Tail(it[k]))
  BY ListFacts, TailFacts DEF IInv, Iterating
<1>3. TypeOK'
  BY <1>1, <1>2 DEF TypeOK
<1>4. Iterating'
  BY <1>1, <1>2, Values DEF IInv, TypeOK, Iterating
<1>5. /\ Placed' /\ Waiting' /\ Owned' /\ Known' /\ Slots'
      /\ BitmapCovers' /\ GrantedCompatible'
  BY DEF IInv, Placed, Waiting, Owned, Known, Slots, BitmapCovers,
         GrantedCompatible
<1>6. Upgrading'
  BY DEF IInv, Upgrading, UpgradingOf
<1>7. QED
  BY <1>3, <1>4, <1>5, <1>6 DEF IInv

\* reschedule_waiters grants a request.
LEMMA RescheduleGrantKeeps ==
  ASSUME IInv, NEW c \in Ctx, NEW k \in Key, RescheduleGrant(c, k)
  PROVE  IInv'
<1> DEFINE x == Head(it[k])
           e == CtxOf(x)
           rest == Drop(m_waiting[k], x)
<1>1. TypeOK
  BY DEF IInv
<1>2. /\ m_rwlock[k] = c /\ it[k] # <<>>
      /\ CanGrant(k, m_type[x], e, skip_high_priority[k])
      /\ m_wait_status[e] = "EMPTY"
      /\ SetStatus(e, "GRANTED")
      /\ m_waiting' = [m_waiting EXCEPT ![k] = rest]
      /\ waiting_bitmap' = [waiting_bitmap EXCEPT
           ![k] = ClearBit(@, m_type[x], ToSet(rest))]
      /\ AddGranted(k, x, m_type[x])
      /\ m_hog_lock_count' = [m_hog_lock_count EXCEPT
           ![k] = CountHog(k, m_type[x], @)]
      /\ it' = [it EXCEPT ![k] = Tail(@)]
      /\ UNCHANGED <<tickets, m_rwlock, skip_high_priority, m_waiting_for,
                     locals>>
  BY DEF RescheduleGrant, Grantable
<1>3. /\ x \in ToSet(it[k])
      /\ Tail(it[k]) \in Seq(Ticket)
      /\ ToSet(Tail(it[k])) = ToSet(it[k]) \ {x}
      /\ NoDuplicates(Tail(it[k]))
  BY <1>2, ListFacts, TailFacts DEF IInv, Iterating
<1>4. /\ x \in ToSet(m_waiting[k]) /\ x \in Ticket /\ e \in Ctx
      /\ m_lock[x] = k /\ m_type[x] \in TypesOf(k)
      /\ x \notin m_granted[k] /\ ticket[e] = x /\ pc[e] \in Waits
  BY <1>3, ListFacts, Values DEF IInv, Iterating, Placed, Waiting
<1>5. /\ rest \in Seq(Ticket)
      /\ ToSet(rest) = ToSet(m_waiting[k]) \ {x}
      /\ NoDuplicates(rest)
  BY <1>4, ListFacts, DropFacts DEF IInv, Waiting
<1>6. ClearBit(waiting_bitmap[k], m_type[x], ToSet(rest)) \subseteq
        waiting_bitmap[k]
  BY ClearBitFacts
<1>7. \A y \in m_granted[k] :
        CtxOf(y) = e \/ m_type[y] \notin GrantedIncompatible(k, m_type[x])
  BY <1>2, CanGrantSound
<1>8. \A j \in Key : \A y \in ToSet(m_waiting[j]) : CtxOf(y) = e => y = x
  BY <1>4 DEF IInv, Waiting
<1>9. m_type[x] \in MDLType
  BY <1>4, TypeFacts
<1>e. e = CtxOf(x)
  OBVIOUS
<1> HIDE DEF x, e, rest
<1>10. /\ UNCHANGED <<m_lock, m_type, m_tickets, m_rwlock, skip_high_priority,
                      m_waiting_for, pc, ticket, upgraded>>
       /\ m_granted' = [m_granted EXCEPT ![k] = @ \cup {x}]
       /\ granted_bitmap' = [granted_bitmap EXCEPT ![k] = @ \cup {m_type[x]}]
       /\ m_wait_status' = [m_wait_status EXCEPT ![e] = "GRANTED"]
  BY <1>2 DEF AddGranted, SetStatus, tickets, locals
<1>11. \A j \in Key : ToSet(m_waiting'[j]) = ToSet(m_waiting[j]) \ {x}
  <2>1. \A j \in Key : x \in ToSet(m_waiting[j]) => j = k
    BY <1>4 DEF IInv, Placed
  <2>2. QED
    BY <1>1, <1>2, <1>5, <2>1 DEF TypeOK
<1>12. TypeOK'
  <2>1. m_hog_lock_count' \in [Key -> Nat]
    BY <1>1, <1>2 DEF TypeOK, CountHog
  <2>2. /\ m_waiting' \in [Key -> Seq(Ticket)]
        /\ it' \in [Key -> Seq(Ticket)]
    BY <1>1, <1>2, <1>3, <1>5 DEF TypeOK
  <2>3. /\ waiting_bitmap' \in [Key -> SUBSET MDLType]
        /\ granted_bitmap' \in [Key -> SUBSET MDLType]
    BY <1>1, <1>2, <1>6, <1>9, <1>10 DEF TypeOK
  <2>4. /\ m_granted' \in [Key -> SUBSET Ticket]
        /\ m_wait_status' \in [Ctx -> WaitStatus]
    BY <1>1, <1>4, <1>10 DEF TypeOK, WaitStatus
  <2>5. QED
    BY <1>1, <1>10, <2>1, <2>2, <2>3, <2>4 DEF TypeOK
<1>13. Placed'
  BY <1>1, <1>4, <1>10, <1>11 DEF IInv, TypeOK, Placed
<1>14. Waiting'
  <2>1. \A j \in Key : NoDuplicates(m_waiting'[j])
    BY <1>1, <1>2, <1>5 DEF IInv, TypeOK, Waiting
  <2>2. QED
    BY <1>1, <1>10, <1>11, <2>1 DEF IInv, TypeOK, Waiting
<1>15. Iterating'
  <2>1. \A j \in Key : NoDuplicates(it'[j])
    BY <1>1, <1>2, <1>3 DEF IInv, TypeOK, Iterating
  <2>2. \A j \in Key : ToSet(it'[j]) \subseteq ToSet(m_waiting'[j])
    <3>1. \A j \in Key : j # k => x \notin ToSet(m_waiting[j])
      BY <1>4 DEF IInv, Placed
    <3>2. QED
      BY <1>1, <1>2, <1>3, <1>11, <3>1 DEF IInv, TypeOK, Iterating
  <2>3. QED
    BY <1>1, <1>2, <1>10, <2>1, <2>2, Values DEF IInv, TypeOK, Iterating
<1>16. Owned'
  BY <1>1, <1>10 DEF IInv, TypeOK, Owned
<1>17. Known'
  BY <1>1, <1>4, <1>10, <1>e, ListFacts, Values DEF IInv, TypeOK, Known
<1>18. Slots'
  <2>1. ASSUME NEW d \in Ctx, d # e, pc[d] \in Waits PROVE ticket[d] # x
    BY <1>e, <2>1 DEF IInv, Slots
  <2>2. \A j \in Key : \A y \in m_granted[j] : y \in m_granted'[j]
    BY <1>1, <1>10 DEF TypeOK
  <2>3. x \in m_granted'[k]
    BY <1>1, <1>10 DEF TypeOK
  <2>4. m_wait_status[e] = "EMPTY"
    BY <1>2
  <2>5. /\ m_wait_status'[e] = "GRANTED"
        /\ \A d \in Ctx : d # e => m_wait_status'[d] = m_wait_status[d]
    BY <1>1, <1>4, <1>10 DEF TypeOK
  <2>6. ASSUME NEW d \in Ctx, pc[d] \in Waits
        PROVE  IF m_wait_status'[d] = "GRANTED"
               THEN ticket[d] \in m_granted'[m_lock[ticket[d]]]
               ELSE ticket[d] \in ToSet(m_waiting'[m_lock[ticket[d]]])
    <3>1. CASE d = e
      BY <1>4, <2>3, <2>5, <3>1
    <3>2. CASE d # e
      BY <1>11, <2>1, <2>2, <2>5, <2>6, <3>2 DEF IInv, Slots
    <3>3. QED
      BY <3>1, <3>2
  <2>7. \A d \in Ctx :
          /\ pc[d] \in {"done", "cancel"} => m_wait_status'[d] # "EMPTY"
          /\ pc[d] = "cancel" => m_wait_status'[d] # "GRANTED"
    BY <2>4, <2>5 DEF IInv, Slots
  <2>8. QED
    BY <1>10, <2>6, <2>7 DEF IInv, Slots
<1>19. Upgrading'
  BY <1>10 DEF IInv, Upgrading, UpgradingOf
<1>20. BitmapCovers'
  BY <1>1, <1>10 DEF IInv, TypeOK, BitmapCovers
<1>21. GrantedCompatible'
  BY <1>1, <1>4, <1>7, <1>10, <1>e, TypeFacts
     DEF IInv, TypeOK, Placed, GrantedCompatible
<1>22. QED
  BY <1>12, <1>13, <1>14, <1>15, <1>16, <1>17, <1>18, <1>19, <1>20, <1>21
     DEF IInv

\* reschedule_waiters is over, and with it the operation that called it.
LEMMA RescheduleEndKeeps ==
  ASSUME IInv, NEW c \in Ctx, NEW k \in Key, RescheduleEnd(c, k)
  PROVE  IInv'
<1> DEFINE z == ticket[c]
           gone == {z} \ m_granted[k]
<1>1. TypeOK
  BY DEF IInv
<1>2. /\ m_rwlock[k] = c /\ it[k] = <<>>
      /\ m_hog_lock_count' = [m_hog_lock_count EXCEPT
           ![k] = IF WeakPending(k, waiting_bitmap[k]) THEN @ ELSE 0]
      /\ m_rwlock' = [m_rwlock EXCEPT ![k] = NULL]
      /\ skip_high_priority' = [skip_high_priority EXCEPT ![k] = FALSE]
      /\ m_lock' = [x \in Ticket |-> IF x \in gone THEN NULL ELSE m_lock[x]]
      /\ m_type' = [x \in Ticket |-> IF x \in gone THEN NULL ELSE m_type[x]]
      /\ m_tickets' = [m_tickets EXCEPT ![c] = @ \ gone]
      /\ pc' = [pc EXCEPT ![c] = "idle"]
      /\ ticket' = [ticket EXCEPT ![c] = NULL]
      /\ upgraded' = [upgraded EXCEPT ![c] = NULL]
      /\ UNCHANGED <<m_granted, granted_bitmap, m_waiting, waiting_bitmap, it,
                     m_wait_status, m_waiting_for>>
  BY DEF RescheduleEnd, Finish, Goto, queues
<1>3. /\ pc[c] = "resched" /\ z \in Ticket /\ CtxOf(z) = c /\ m_lock[z] = k
      /\ c # NULL
  BY <1>2, Values DEF IInv, Iterating
<1>4. \A j \in Key : m_rwlock[j] = c => j = k
  BY <1>3, Values DEF IInv, Iterating
<1>5. \A j \in Key : \A y \in ToSet(m_waiting[j]) : CtxOf(y) # c
  BY <1>3 DEF IInv, Waiting, Waits
<1>6. \A j \in Key : m_granted[j] \cap gone = {}
  BY <1>3 DEF IInv, Placed
<1>7. gone \subseteq {z}
  OBVIOUS
<1>8. z \in m_granted[k] \/ z \in gone
  OBVIOUS
<1>z. z = ticket[c]
  OBVIOUS
<1> HIDE DEF z, gone
<1>9. TypeOK'
  <2>1. skip_high_priority' \in [Key -> BOOLEAN]
    BY <1>1, <1>2, Zenon DEF TypeOK
  <2>2. QED
    BY <1>1, <1>2, <2>1 DEF TypeOK, PC
<1>10. Placed'
  BY <1>2, <1>3, <1>5, <1>6, <1>7, ListFacts DEF IInv, Placed
<1>11. Waiting'
  BY <1>1, <1>2, <1>5, ListFacts, Values DEF IInv, TypeOK, Waiting
<1>12. Iterating'
  <2>1. ASSUME NEW j \in Key, j # k, m_rwlock[j] # NULL
        PROVE  /\ m_rwlock[j] \in Ctx /\ m_rwlock[j] # c
               /\ ticket[m_rwlock[j]] # z
    BY <1>1, <1>3, <1>4, <2>1 DEF IInv, TypeOK, Iterating
  <2>2. QED
    BY <1>1, <1>2, <1>7, <2>1 DEF IInv, TypeOK, Iterating
<1>13. Owned'
  <2>1. ASSUME NEW y \in m_tickets[c], y \notin gone
        PROVE  y \in m_granted[m_lock[y]]
    BY <1>3, <1>8, <1>z, <2>1 DEF IInv, Owned
  <2>2. QED
    BY <1>1, <1>2, <1>3, <1>7, <2>1 DEF IInv, TypeOK, Owned
<1>14. Known'
  BY <1>1, <1>2, <1>3, <1>6, ListFacts, Values DEF IInv, TypeOK, Known, Waits
<1>15. Slots'
  <2>1. ASSUME NEW d \in Ctx, d # c, pc[d] \in Waits PROVE ticket[d] \notin gone
    BY <1>3, <1>7, <2>1 DEF IInv, Slots
  <2>2. QED
    BY <1>1, <1>2, <2>1 DEF IInv, TypeOK, Slots, Waits
<1>16. Upgrading'
  <2>1. ASSUME NEW d \in Ctx, d # c PROVE UpgradingOf(d)'
    BY <1>1, <1>2, <1>3, <1>7, <2>1, UpgradingFrame DEF TypeOK
  <2>2. UpgradingOf(c)'
    BY <1>1, <1>2 DEF TypeOK, UpgradingOf, Waits
  <2>3. QED
    BY <2>1, <2>2 DEF Upgrading
<1>17. BitmapCovers' /\ GrantedCompatible'
  BY <1>2, <1>6, ListFacts DEF IInv, BitmapCovers, GrantedCompatible
<1>18. QED
  BY <1>9, <1>10, <1>11, <1>12, <1>13, <1>14, <1>15, <1>16, <1>17 DEF IInv

\* A context that has an exclusive ticket on a lock is alone there.
LEMMA ExclusiveAlone ==
  ASSUME IInv, NEW k \in Key, NEW x \in m_granted[k], m_type[x] = "X"
  PROVE  \A y \in m_granted[k] : CtxOf(y) = CtxOf(x)
BY TypeFacts DEF IInv, Placed, GrantedCompatible

\* MDL_ticket::downgrade_exclusive_lock.
LEMMA DowngradeKeeps ==
  ASSUME IInv, NEW c \in Ctx, NEW x \in m_tickets[c],
         NEW type \in DowngradeTypes, Downgrade(c, x, type)
  PROVE  IInv'
<1> DEFINE k == m_lock[x]
<1>1. TypeOK /\ pc[c] = "idle"
  BY DEF IInv, Downgrade
<1>2. /\ m_rwlock[k] = NULL /\ k \in ObjectKey /\ m_type[x] = "X"
      /\ m_type' = [m_type EXCEPT ![x] = type]
      /\ granted_bitmap' = [granted_bitmap EXCEPT
           ![k] = ClearBit(@, "X", m_granted[k] \ {x}) \cup {type}]
      /\ StartReschedule(c, k, m_waiting[k], waiting_bitmap[k])
      /\ ticket' = [ticket EXCEPT ![c] = x]
      /\ UNCHANGED <<m_lock, m_tickets, m_granted, m_waiting, waiting_bitmap,
                     m_hog_lock_count, m_wait_status, m_waiting_for, upgraded>>
  BY DEF Downgrade
<1>k. k = m_lock[x]
  OBVIOUS
<1> HIDE DEF k
<1>3. x \in Ticket /\ CtxOf(x) = c /\ k \in Key /\ x \in m_granted[k]
  BY <1>1, <1>k, IdleFacts DEF IInv, TypeOK, Owned
<1>4. type \in TypesOf(k) /\ type \in MDLType
  BY <1>2, <1>3, TypeFacts, MDLAssumption
<1>5. /\ pc' = [pc EXCEPT ![c] = "resched"]
      /\ m_rwlock' = [m_rwlock EXCEPT ![k] = c]
      /\ it' = [it EXCEPT ![k] = m_waiting[k]]
  BY <1>2 DEF StartReschedule, Goto
<1>6. \A j \in Key : \A y \in ToSet(m_waiting[j]) : y # x /\ CtxOf(y) # c
  BY <1>1, <1>3, IdleFacts
<1>7. /\ \A j \in Key : m_rwlock[j] # c
      /\ \A j \in Key : x \in m_granted[j] => j = k
  BY <1>1, <1>k, IdleFacts DEF IInv, Placed
<1>8. /\ ClearBit(granted_bitmap[k], "X", m_granted[k] \ {x}) \subseteq
           granted_bitmap[k]
      /\ \A y \in m_granted[k] \ {x} : m_type[y] \in
           ClearBit(granted_bitmap[k], "X", m_granted[k] \ {x})
  BY <1>3, ClearBitFacts DEF IInv, BitmapCovers
<1>9. TypeOK'
  <2>1. skip_high_priority' \in [Key -> BOOLEAN]
    <3>1. (TooManyHogs(k) /\ WeakPending(k, waiting_bitmap[k])) \in BOOLEAN
      BY Zenon
    <3>2. skip_high_priority' = [skip_high_priority EXCEPT ![k] =
            TooManyHogs(k) /\ WeakPending(k, waiting_bitmap[k])]
      BY <1>2 DEF StartReschedule
    <3>3. QED
      BY <1>1, <3>1, <3>2, Zenon DEF TypeOK
  <2>2. granted_bitmap' \in [Key -> SUBSET MDLType]
    BY <1>1, <1>2, <1>3, <1>4, <1>8 DEF TypeOK
  <2>3. QED
    BY <1>1, <1>2, <1>3, <1>4, <1>5, <2>1, <2>2 DEF TypeOK, PC
<1>10. Placed'
  BY <1>1, <1>2, <1>4, <1>6, <1>7, ListFacts DEF IInv, TypeOK, Placed
<1>11. Waiting'
  BY <1>1, <1>2, <1>5, <1>6, ListFacts, Values DEF IInv, TypeOK, Waiting
<1>12. Iterating'
  <2>1. NoDuplicates(m_waiting[k])
    BY <1>3 DEF IInv, Waiting
  <2>2. QED
    BY <1>1, <1>2, <1>3, <1>5, <1>7, <1>k, <2>1, Values
       DEF IInv, TypeOK, Iterating
<1>13. Owned'
  BY <1>1, <1>2, <1>5, IdleFacts DEF IInv, TypeOK, Owned
<1>14. Known'
  BY <1>1, <1>2, <1>5, ListFacts, Values DEF IInv, TypeOK, Known, Waits
<1>15. Slots'
  BY <1>1, <1>2, <1>5 DEF IInv, TypeOK, Slots, Waits
<1>16. Upgrading'
  <2>1. ASSUME NEW d \in Ctx, d # c PROVE UpgradingOf(d)'
    BY <1>1, <1>2, <1>3, <1>5, <2>1, UpgradingFrame DEF TypeOK
  <2>2. UpgradingOf(c)'
    BY <1>1, <1>5 DEF TypeOK, UpgradingOf, Waits
  <2>3. QED
    BY <2>1, <2>2 DEF Upgrading
<1>17. BitmapCovers'
  <2>1. ASSUME NEW j \in Key, NEW y \in m_granted[j]
        PROVE  m_type'[y] \in granted_bitmap'[j]
    <3>1. CASE j = k
      BY <1>1, <1>2, <1>3, <1>8, <2>1, <3>1 DEF TypeOK
    <3>2. CASE j # k
      BY <1>1, <1>2, <1>7, <2>1, <3>2, ListFacts
         DEF IInv, TypeOK, BitmapCovers
    <3>3. QED
      BY <3>1, <3>2
  <2>2. QED
    BY <1>2, <2>1 DEF BitmapCovers
<1>18. GrantedCompatible'
  <2>1. \A y \in m_granted[k] : CtxOf(y) = c
    BY <1>2, <1>3, ExclusiveAlone
  <2>2. QED
    BY <1>1, <1>2, <1>7, <2>1, ListFacts DEF IInv, TypeOK, GrantedCompatible
<1>19. QED
  BY <1>9, <1>10, <1>11, <1>12, <1>13, <1>14, <1>15, <1>16, <1>17, <1>18
     DEF IInv

\* upgrade_shared_lock_to_exclusive finds an exclusive ticket of its own.
LEMMA UpgradeOwnXKeeps ==
  ASSUME IInv, NEW c \in Ctx, NEW x \in m_tickets[c], UpgradeOwnX(c, x)
  PROVE  IInv'
<1>1. TypeOK /\ pc[c] = "idle" /\ HasTicket(c, m_lock[x], "X")
  BY DEF IInv, UpgradeOwnX
<1>2. /\ pc' = [pc EXCEPT ![c] = "merge"]
      /\ upgraded' = [upgraded EXCEPT ![c] = x]
      /\ UNCHANGED <<m_lock, m_type, m_tickets, m_granted, granted_bitmap,
                     m_waiting, waiting_bitmap, m_hog_lock_count, m_rwlock, it,
                     skip_high_priority, m_wait_status, m_waiting_for, ticket>>
  BY DEF UpgradeOwnX, Goto, tickets, queues, loop
<1>3. \E z \in m_tickets[c] : m_lock[z] = m_lock[x] /\ m_type[z] = "X"
  <2>1. PICK z \in m_tickets[c] :
          /\ m_lock[z] = m_lock[x]
          /\ GrantedIncompatible(m_lock[x], "X") \subseteq
               GrantedIncompatible(m_lock[x], m_type[z])
    BY <1>1 DEF HasTicket
  <2>2. m_lock[x] \in Key /\ m_type[z] \in TypesOf(m_lock[x])
    BY <1>1, <2>1, IdleFacts DEF IInv, Owned, Placed
  <2>3. QED
    BY <2>1, <2>2, TypeFacts
<1>4. TypeOK'
  BY <1>1, <1>2 DEF TypeOK, PC
<1>5. Placed' /\ BitmapCovers' /\ GrantedCompatible'
  BY <1>2 DEF IInv, Placed, BitmapCovers, GrantedCompatible
<1>6. Waiting'
  BY <1>1, <1>2, IdleFacts, ListFacts, Values DEF IInv, TypeOK, Waiting
<1>7. Iterating'
  BY <1>1, <1>2, IdleFacts DEF IInv, TypeOK, Iterating
<1>8. Owned' /\ Known'
  BY <1>1, <1>2, ListFacts, Values DEF IInv, TypeOK, Owned, Known, Waits
<1>9. Slots'
  BY <1>1, <1>2 DEF IInv, TypeOK, Slots, Waits
<1>10. Upgrading'
  <2>1. ASSUME NEW d \in Ctx, d # c PROVE UpgradingOf(d)'
    BY <1>1, <1>2, <2>1, UpgradingFrame DEF TypeOK
  <2>2. UpgradingOf(c)'
    BY <1>1, <1>2, <1>3, IdleFacts DEF TypeOK, UpgradingOf, Waits
  <2>3. QED
    BY <2>1, <2>2 DEF Upgrading
<1>11. QED
  BY <1>4, <1>5, <1>6, <1>7, <1>8, <1>9, <1>10 DEF IInv

\* upgrade_shared_lock_to_exclusive merges the two tickets.
LEMMA MergeKeeps ==
  ASSUME IInv, NEW c \in Ctx, Merge(c)
  PROVE  IInv'
<1> DEFINE u == upgraded[c]
           k == m_lock[u]
           new == {ticket[c]} \ {NULL}
           rest == m_granted[k] \ (new \cup {u})
           some == rest \cup {u}
           bits == ClearBit(granted_bitmap[k], "X", some)
<1>1. TypeOK /\ pc[c] = "merge"
  BY DEF IInv, Merge
<1>2. /\ m_rwlock[k] = NULL
      /\ m_granted' = [m_granted EXCEPT ![k] = some]
      /\ granted_bitmap' = [granted_bitmap EXCEPT
           ![k] = ClearBit(bits, m_type[u], rest) \cup {"X"}]
      /\ m_lock' = [x \in Ticket |-> IF x \in new THEN NULL ELSE m_lock[x]]
      /\ m_type' = [x \in Ticket |-> IF x \in new THEN NULL
                                     ELSE IF x = u THEN "X" ELSE m_type[x]]
      /\ m_tickets' = [m_tickets EXCEPT ![c] = @ \ new]
      /\ pc' = [pc EXCEPT ![c] = "idle"]
      /\ ticket' = [ticket EXCEPT ![c] = NULL]
      /\ upgraded' = [upgraded EXCEPT ![c] = NULL]
      /\ UNCHANGED <<m_waiting, waiting_bitmap, m_hog_lock_count, m_rwlock, it,
                     skip_high_priority, m_wait_status, m_waiting_for>>
  BY DEF Merge, Goto, loop
<1>3. \A y \in m_tickets[c] : /\ y \in Ticket /\ CtxOf(y) = c
                             /\ m_lock[y] \in Key /\ y \in m_granted[m_lock[y]]
  BY <1>1 DEF IInv, TypeOK, Owned
<1>4. /\ u \in m_tickets[c]
      /\ new \subseteq m_tickets[c] \ {u}
      /\ \E z \in m_tickets[c] : /\ m_lock[z] = k /\ m_type[z] = "X"
                                 /\ ticket[c] # NULL => z = ticket[c]
  BY <1>1 DEF IInv, Upgrading, UpgradingOf
<1>5. k \in Key /\ u \in m_granted[k] /\ u \in Ticket /\ u \notin new
  BY <1>3, <1>4
<1>6. \A y \in new : m_lock[y] = k /\ y \in m_granted[k]
  BY <1>3, <1>4
<1>7. \A y \in m_granted[k] : CtxOf(y) = c
  BY <1>3, <1>4, <1>5, ExclusiveAlone
<1>8. /\ ClearBit(bits, m_type[u], rest) \subseteq granted_bitmap[k]
      /\ \A y \in rest : m_type[y] \in ClearBit(bits, m_type[u], rest)
  <2>1. \A y \in some : m_type[y] \in granted_bitmap[k]
    BY <1>5 DEF IInv, BitmapCovers
  <2>2. bits \subseteq granted_bitmap[k] /\ \A y \in some : m_type[y] \in bits
    BY <2>1, ClearBitFacts
  <2>3. QED
    BY <2>2, ClearBitFacts
<1>9. some = m_granted[k] \ new /\ rest = some \ {u}
  BY <1>5
<1>10. \A j \in Key : \A y \in m_granted[j] : y \in new \cup {u} => j = k
  BY <1>6 DEF IInv, Placed
<1>11. \A j \in Key : \A y \in ToSet(m_waiting[j]) :
         CtxOf(y) # c /\ y \notin new /\ y # u
  <2>1. \A j \in Key : \A y \in ToSet(m_waiting[j]) : CtxOf(y) # c
    BY <1>1 DEF IInv, Waiting, Waits
  <2>2. QED
    BY <1>3, <1>4, <2>1
<1>12. \A j \in Key : m_rwlock[j] # c
  BY <1>1, Values DEF IInv, Iterating
<1>u. u = upgraded[c] /\ k = m_lock[u]
  OBVIOUS
<1> HIDE DEF u, k, new, rest, some, bits
<1>13. \A j \in Key : m_granted'[j] = m_granted[j] \ new
  BY <1>1, <1>2, <1>9, <1>10 DEF TypeOK
<1>14. TypeOK'
  <2>1. "X" \in MDLType
    BY <1>5, TypeFacts
  <2>2. granted_bitmap' \in [Key -> SUBSET MDLType]
    BY <1>1, <1>2, <1>5, <1>8, <2>1 DEF TypeOK
  <2>3. m_granted' \in [Key -> SUBSET Ticket]
    BY <1>1, <1>2, <1>9 DEF TypeOK
  <2>4. m_type' \in [Ticket -> MDLType \cup {NULL}]
    BY <1>1, <1>2, <2>1 DEF TypeOK
  <2>5. QED
    BY <1>1, <1>2, <2>2, <2>3, <2>4 DEF TypeOK, PC
<1>15. Placed'
  BY <1>2, <1>10, <1>11, <1>13, ListFacts, TypeFacts DEF IInv, Placed
<1>16. Waiting'
  BY <1>1, <1>2, <1>11, <1>13, ListFacts, Values DEF IInv, TypeOK, Waiting
<1>17. Iterating'
  <2>1. ASSUME NEW j \in Key, m_rwlock[j] # NULL
        PROVE  /\ m_rwlock[j] \in Ctx /\ m_rwlock[j] # c
               /\ ticket[m_rwlock[j]] \notin new
    BY <1>1, <1>3, <1>4, <1>12, <2>1 DEF IInv, TypeOK, Iterating
  <2>2. QED
    BY <1>1, <1>2, <2>1 DEF IInv, TypeOK, Iterating
<1>18. Owned'
  <2>1. ASSUME NEW d \in Ctx, d # c, NEW y \in m_tickets[d] PROVE y \notin new
    BY <1>3, <1>4, <2>1 DEF IInv, Owned
  <2>2. ASSUME NEW d \in Ctx, NEW y \in m_tickets'[d]
        PROVE  y \in m_tickets[d] /\ y \notin new /\ y \in Ticket
    BY <1>1, <1>2, <2>1, <2>2 DEF TypeOK
  <2>3. ASSUME NEW d \in Ctx, NEW y \in m_tickets'[d]
        PROVE  /\ CtxOf(y) = d
               /\ m_lock'[y] = m_lock[y] /\ m_lock[y] \in Key
               /\ \/ y \in m_granted[m_lock[y]]
                  \/ d # c /\ pc[d] = "resched" /\ ticket[d] = y
    BY <1>1, <1>2, <2>2, <2>3 DEF IInv, Owned
  <2>4. ASSUME NEW d \in Ctx, NEW y \in m_tickets'[d]
        PROVE  \/ y \in m_granted'[m_lock'[y]]
               \/ pc'[d] = "resched" /\ ticket'[d] = y
    <3>1. CASE y \in m_granted[m_lock[y]]
      BY <1>13, <2>2, <2>3, <2>4, <3>1
    <3>2. CASE d # c /\ pc[d] = "resched" /\ ticket[d] = y
      BY <1>1, <1>2, <3>2 DEF TypeOK
    <3>3. QED
      BY <2>3, <2>4, <3>1, <3>2
  <2>5. QED
    BY <2>3, <2>4 DEF Owned
<1>19. Known'
  BY <1>1, <1>2, <1>13, ListFacts, Values DEF IInv, TypeOK, Known, Waits
<1>20. Slots'
  <2>1. ASSUME NEW d \in Ctx, d # c, pc[d] \in Waits PROVE ticket[d] \notin new
    BY <1>3, <1>4, <2>1 DEF IInv, Slots
  <2>2. QED
    BY <1>1, <1>2, <1>13, <2>1 DEF IInv, TypeOK, Slots, Waits
<1>21. Upgrading'
  <2>1. ASSUME NEW d \in Ctx, d # c PROVE UpgradingOf(d)'
    BY <1>1, <1>2, <1>3, <1>4, <2>1, UpgradingFrame DEF TypeOK
  <2>2. UpgradingOf(c)'
    BY <1>1, <1>2 DEF TypeOK, UpgradingOf, Waits
  <2>3. QED
    BY <2>1, <2>2 DEF Upgrading
<1>22. BitmapCovers'
  <2>1. ASSUME NEW j \in Key, NEW y \in m_granted'[j]
        PROVE  m_type'[y] \in granted_bitmap'[j]
    <3>1. y \in Ticket /\ y \in m_granted[j] /\ y \notin new
      BY <1>13, <2>1, ListFacts
    <3>2. CASE j = k /\ y = u
      BY <1>1, <1>2, <3>1, <3>2 DEF TypeOK
    <3>3. CASE j = k /\ y # u
      BY <1>1, <1>2, <1>8, <1>9, <3>1, <3>3 DEF TypeOK
    <3>4. CASE j # k
      BY <1>1, <1>2, <1>10, <3>1, <3>4 DEF IInv, TypeOK, BitmapCovers
    <3>5. QED
      BY <3>2, <3>3, <3>4
  <2>2. QED
    BY <2>1 DEF BitmapCovers
<1>23. GrantedCompatible'
  <2>1. ASSUME NEW j \in Key, j # k, NEW y \in m_granted[j]
        PROVE  y \in Ticket /\ m_type'[y] = m_type[y]
    BY <1>2, <1>10, <2>1, ListFacts
  <2>2. QED
    BY <1>7, <1>13, <2>1 DEF IInv, GrantedCompatible
<1>24. QED
  BY <1>14, <1>15, <1>16, <1>17, <1>18, <1>19, <1>20, <1>21, <1>22, <1>23
     DEF IInv

\* The operations that a connection decides upon.
LEMMA DecideKeeps ==
  ASSUME IInv, NEW c \in Ctx, Decide(c)
  PROVE  IInv'
<1>1. ASSUME NEW r \in Requests
      PROVE  r[1] \in Key /\ r[2] \in TypesOf(r[1])
  BY MDLAssumption
<1>2. ASSUME NEW r \in Requests, GrantAtOnce(c, r[1], r[2], NULL) PROVE IInv'
  BY <1>1, <1>2, GrantAtOnceKeeps
<1>3. ASSUME NEW r \in Requests, Enqueue(c, r[1], r[2], NULL) PROVE IInv'
  BY <1>1, <1>3, EnqueueKeeps
<1>4. ASSUME NEW r \in Requests, CloneTicket(c, r[1], r[2]) PROVE IInv'
  BY <1>1, <1>4, CloneTicketKeeps
<1>5. ASSUME NEW x \in m_tickets[c], Upgrade(c, x) PROVE IInv'
  <2>1. m_lock[x] \in Key /\ "X" \in TypesOf(m_lock[x])
    BY TypeFacts DEF IInv, Owned
  <2>2. CASE GrantAtOnce(c, m_lock[x], "X", x)
    BY <2>1, <2>2, GrantAtOnceKeeps
  <2>3. CASE Enqueue(c, m_lock[x], "X", x)
    BY <2>1, <2>3, EnqueueKeeps
  <2>4. QED
    BY <1>5, <2>2, <2>3 DEF Upgrade
<1>6. QED
  BY <1>2, <1>3, <1>4, <1>5, ReleaseLockKeeps, UpgradeOwnXKeeps,
     DowngradeKeeps DEF Decide

\* Every step of every context preserves the invariant.
LEMMA NextIInv == IInv /\ [Next]_vars => IInv'
<1> SUFFICES ASSUME IInv, [Next]_vars PROVE IInv'
  OBVIOUS
<1>1. CASE UNCHANGED vars
  <2> USE <1>1 DEF vars, tickets, queues, loop, locals
  <2>1. TypeOK'
    BY DEF IInv, TypeOK
  <2>2. Placed' /\ Waiting' /\ Owned' /\ Known' /\ Slots'
    BY DEF IInv, Placed, Waiting, Owned, Known, Slots
  <2>3. Iterating'
    BY DEF IInv, Iterating
  <2>4. BitmapCovers' /\ GrantedCompatible'
    BY DEF IInv, BitmapCovers, GrantedCompatible
  <2>5. Upgrading'
    BY DEF IInv, Upgrading, UpgradingOf
  <2>6. QED
    BY <2>1, <2>2, <2>3, <2>4, <2>5 DEF IInv
<1>2. ASSUME NEW c \in Ctx, Proceed(c) PROVE IInv'
  BY <1>2, WaitKeeps, DoneWaitingForKeeps, CancelWaitKeeps, MergeKeeps,
     RescheduleGrantKeeps, ReschedulePassKeeps, RescheduleEndKeeps
     DEF Proceed
<1>3. QED
  BY <1>1, <1>2, DecideKeeps, WaitKeeps DEF Next

\* Every ticket is where the code expects it, in every reachable state.
THEOREM Invariance == Spec => []IInv
BY InitIInv, NextIInv, PTL DEF Spec

\* The variables of the protocol keep their types.
THEOREM TypeCorrect == Spec => []TypeOK
<1>1. IInv => TypeOK
  BY DEF IInv
<1>2. QED
  BY <1>1, Invariance, PTL

\* Two connections never hold incompatible metadata locks on an object,
\* however many there are and whatever they do.
THEOREM GrantedCompatibleHolds == Spec => []GrantedCompatible
<1>1. IInv => GrantedCompatible
  BY DEF IInv
<1>2. QED
  BY <1>1, Invariance, PTL

\* acquire_lock never succeeds without the lock nor fails with it.
THEOREM SlotMatchesQueueHolds == Spec => []SlotMatchesQueue
<1>1. IInv => SlotMatchesQueue
  <2> SUFFICES ASSUME IInv, NEW c \in Ctx, pc[c] \in Waits
               PROVE  LET k == m_lock[ticket[c]] IN
                        IF m_wait_status[c] = "GRANTED"
                        THEN /\ ticket[c] \in m_granted[k]
                             /\ ticket[c] \notin ToSet(m_waiting[k])
                        ELSE /\ ticket[c] \notin m_granted[k]
                             /\ ticket[c] \in ToSet(m_waiting[k])
    BY DEF SlotMatchesQueue, Waits
  <2>1. QED
    BY DEF IInv, Slots, Waiting
<1>2. QED
  BY <1>1, Invariance, PTL

\* No ticket stays behind in a lock without a context that will remove it.
THEOREM NoOrphanTicketHolds == Spec => []NoOrphanTicket
<1>1. IInv => NoOrphanTicket
  BY DEF IInv, NoOrphanTicket, Known, Waiting, Waits
<1>2. QED
  BY <1>1, Invariance, PTL
=============================================================================
