--------------------------- MODULE SemiSyncProofs ---------------------------
(***************************************************************************)
(* Semisynchronous replication is right for any number of sessions, slaves *)
(* and transactions.                                                       *)
(*                                                                         *)
(* The theorems name the one thing they need of the installation: InOrder, *)
(* that the file names of the binary log compare like their numbers.       *)
(* SemiSyncDigits.cfg shows what happens otherwise.                        *)
(***************************************************************************)
EXTENDS SemiSync, FiniteSetTheorems, FunctionTheorems, SequenceTheorems,
        WellFoundedInduction, TLAPS

\* No log file has one digit more than the others.
InOrder == MaxPos < Wrap

\* The slaves that clients counts.
Connected == {d \in Slaves : dump[d] # "down"}

\* The sessions that wait_sessions counts.
Waiting == {s \in Sessions : pc[s] \in {"sleeping", "woken", "timedout"}}

Sorted(list) ==
    \A i, j \in 1 .. Len(list) : i < j => ~AtLeast(list[i], list[j])

\* The list of active transactions exists while the plugin is enabled, is
\* sorted, and is empty while semisync is off.
Listed ==
    /\ master_enabled <=> active_tranxs # NULL
    /\ state => master_enabled
    /\ reply_file.inited => master_enabled
    /\ active_tranxs # NULL => /\ active_tranxs \in Seq(1 .. MaxPos)
                               /\ Sorted(active_tranxs)
    /\ active_tranxs # NULL /\ ~state => active_tranxs = <<>>

ClientsCounted == clients = Cardinality(Connected)

ResetCounted == resetting => resets # 0

WaitersCounted == resets = 0 => wait_sessions = Cardinality(Waiting)

\* What a session that sleeps relies on to be woken.
Asleep(s) ==
    /\ ~Replied(s)
    /\ wait_file.inited
    /\ AtLeast(pos[s], wait_file.pos)

Broadcasting == \E d \in Slaves : dump[d] = "broadcast"

Sleepers ==
    resets = 0 =>
        \A s \in Sessions :
            pc[s] = "sleeping" => state /\ (Broadcasting \/ Asleep(s))

\* How far a slave is.
Progress(d) ==
    /\ recv[d] <= logEnd
    /\ dump[d] # "down" => recv[d] <= sent[d] /\ sent[d] <= logEnd
    /\ dump[d] = "report" => rpos[d] <= recv[d]

AllProgress == \A d \in Slaves : Progress(d)

\* The reply that is remembered comes from a slave.
Received ==
    resets = 0 /\ reply_file.inited =>
        \E d \in Slaves : reply_file.pos <= recv[d]

\* The reply that is remembered is for this log, and what it covers is not
\* active any more, unless RESET MASTER has not reached the plugin yet.
Acknowledged ==
    InOrder /\ reply_file.inited =>
        /\ resetting \/ reply_file.pos <= logEnd
        /\ \A i \in 1 .. Len(active_tranxs) :
              \/ ~AtLeast(reply_file.pos, active_tranxs[i])
              \/ resetting /\ active_tranxs[i] <= logEnd

Yes == InOrder => YesMeansReceived

IInv ==
    /\ TypeOK
    /\ Listed
    /\ ClientsCounted
    /\ ResetCounted
    /\ WaitersCounted
    /\ Sleepers
    /\ AllProgress
    /\ Received
    /\ Acknowledged
    /\ Yes
-----------------------------------------------------------------------------
(* Positions, counters and lists *)

\* compare is a total order, also when it is not that of the numbers.
LEMMA Order ==
  \A a, b, c \in Nat : /\ AtLeast(a, a)
                       /\ AtLeast(a, b) \/ AtLeast(b, a)
                       /\ AtLeast(a, b) /\ AtLeast(b, a) => a = b
                       /\ AtLeast(a, b) /\ AtLeast(b, c) => AtLeast(a, c)
BY SemiSyncAssumption DEF AtLeast

\* With file names of the same length it is the order of the numbers.
LEMMA NumericOrder ==
  InOrder => \A a, b \in Position : AtLeast(a, b) <=> a >= b
BY SemiSyncAssumption DEF AtLeast, InOrder, Position

\* Unsigned long arithmetic.
LEMMA Modulo ==
  /\ \A n \in Int : n % Ulong \in 0 .. Ulong - 1
  /\ \A n \in 0 .. Ulong - 1 : n % Ulong = n /\ (n + Ulong) % Ulong = n
BY SemiSyncAssumption

\* Uninit only clears the flag.
LEMMA UninitFacts ==
  ASSUME NEW f \in File
  PROVE  Uninit(f) \in File /\ ~Uninit(f).inited /\ Uninit(f).pos = f.pos
BY DEF File, Uninit

\* A list is not the NULL of a disabled plugin.
LEMMA NotNull == <<>> # NULL /\ \A list \in Seq(1 .. MaxPos) : list # NULL
<1>1. <<>> \in Seq(Nat)
  BY EmptySeq
<1>2. ASSUME NEW list \in Seq(1 .. MaxPos) PROVE list \in Seq(Nat)
  <2>1. Len(list) \in Nat /\ list \in [1 .. Len(list) -> 1 .. MaxPos]
    BY LenProperties
  <2> QED
    BY <2>1, SemiSyncAssumption
<1> QED
  BY <1>1, <1>2, SemiSyncAssumption

\* The empty list.
LEMMA EmptyList == <<>> \in Seq(Position) /\ Len(<<>>) <= MaxPos
BY SemiSyncAssumption

\* A sorted list has no position twice, so that there are enough positions.
LEMMA ListBounded ==
  ASSUME NEW list \in Seq(1 .. MaxPos), Sorted(list)
  PROVE  Len(list) <= MaxPos /\ list \in Seq(Position)
<1>1. Len(list) \in Nat /\ list \in [1 .. Len(list) -> 1 .. MaxPos]
  BY LenProperties
<1>2. ASSUME NEW i \in 1 .. Len(list), NEW j \in 1 .. Len(list), i # j
      PROVE  list[i] # list[j]
  <2>1. list[i] \in Nat /\ list[j] \in Nat
    BY <1>1
  <2>2. i < j \/ j < i
    BY <1>1, <1>2
  <2> QED
    BY <2>1, <2>2, Order DEF Sorted
<1>3. list \in Injection(1 .. Len(list), 1 .. MaxPos)
  BY <1>1, <1>2, Fun_IsInj
<1>4. /\ IsFiniteSet(1 .. MaxPos)
      /\ Cardinality(1 .. MaxPos) = IF 1 > MaxPos THEN 0 ELSE MaxPos - 1 + 1
  BY FS_Interval, SemiSyncAssumption
<1>5. /\ IsFiniteSet(1 .. Len(list))
      /\ Cardinality(1 .. Len(list)) =
           IF 1 > Len(list) THEN 0 ELSE Len(list) - 1 + 1
  BY FS_Interval, <1>1
<1>6. Cardinality(1 .. Len(list)) <= Cardinality(1 .. MaxPos)
  BY <1>3, <1>4, FS_Injection
<1>7. list \in Seq(Position)
  BY <1>1, SemiSyncAssumption DEF Position
<1> QED
  BY <1>1, <1>4, <1>5, <1>6, <1>7, SemiSyncAssumption

\* The positions of a list are numbers.
LEMMA ListElements ==
  ASSUME NEW list \in Seq(1 .. MaxPos)
  PROVE  \A i \in 1 .. Len(list) : list[i] \in Nat
<1>1. \A i \in 1 .. Len(list) : list[i] \in 1 .. MaxPos
  BY ElementOfSeq
<1> QED
  BY <1>1, SemiSyncAssumption

\* Natural numbers have a smallest one.
LEMMA Smallest ==
  ASSUME NEW S \in SUBSET Nat, S # {}
  PROVE  \E i \in S : \A j \in S : i <= j
<1> DEFINE R == {x \in Nat \X Nat : x[1] < x[2]}
<1>1. IsWellFoundedOn(R, Nat)
  BY NatLessThanWellFounded, Zenon DEF OpToRel
<1>2. PICK i \in S : \A j \in S : ~(<<j, i>> \in R)
  <2> HIDE DEF R
  <2> QED
    BY <1>1, WFMin
<1>3. ASSUME NEW j \in S PROVE i <= j
  <2>1. i \in Nat /\ j \in Nat /\ ~(<<j, i>> \in R)
    BY <1>2
  <2> QED
    BY <2>1
<1> QED
  BY <1>3

\* insert_tranx_node appends behind the rear.
LEMMA InsertFacts ==
  ASSUME NEW list \in Seq(1 .. MaxPos), Sorted(list), NEW p \in 1 .. MaxPos,
         \A rear \in {Len(list)} \ {0} : ~AtLeast(list[rear], p)
  PROVE  Append(list, p) \in Seq(1 .. MaxPos) /\ Sorted(Append(list, p))
<1>1. Append(list, p) \in Seq(1 .. MaxPos)
  OBVIOUS
<1>2. Len(list) \in Nat /\ Len(Append(list, p)) = Len(list) + 1
  OBVIOUS
<1>3. /\ \A i \in 1 .. Len(list) : /\ Append(list, p)[i] = list[i]
                                   /\ list[i] \in Nat
      /\ Append(list, p)[Len(list) + 1] = p
      /\ p \in Nat
  <2>1. /\ \A i \in 1 .. Len(list) : Append(list, p)[i] = list[i]
        /\ Append(list, p)[Len(list) + 1] = p
    BY AppendProperties
  <2>2. \A i \in 1 .. Len(list) : list[i] \in 1 .. MaxPos
    BY ElementOfSeq
  <2> QED
    BY <2>1, <2>2
<1>4. ASSUME NEW i \in 1 .. Len(list) PROVE ~AtLeast(list[i], p)
  <2>1. Len(list) # 0 /\ Len(list) \in 1 .. Len(list)
    BY <1>2
  <2>2. ~AtLeast(list[Len(list)], p)
    BY <2>1
  <2>3. CASE i = Len(list)
    BY <2>2, <2>3
  <2>4. CASE i # Len(list)
    <3>1. ~AtLeast(list[i], list[Len(list)])
      BY <2>1, <2>4, <1>2 DEF Sorted
    <3> QED
      BY <3>1, <2>1, <2>2, <1>3, Order
  <2> QED
    BY <2>3, <2>4
<1>5. ASSUME NEW i \in 1 .. Len(list) + 1, NEW j \in 1 .. Len(list) + 1, i < j
      PROVE  ~AtLeast(Append(list, p)[i], Append(list, p)[j])
  <2>1. i \in 1 .. Len(list)
    BY <1>5, <1>2
  <2>2. CASE j \in 1 .. Len(list)
    BY <2>1, <2>2, <1>3, <1>5 DEF Sorted
  <2>3. CASE j = Len(list) + 1
    BY <2>1, <2>3, <1>3, <1>4
  <2> QED
    BY <2>2, <2>3, <1>2
<1> QED
  BY <1>1, <1>2, <1>5 DEF Sorted

\* clear_active_tranx_nodes leaves a sorted list of what is behind p.
LEMMA ClearFacts ==
  ASSUME NEW list \in Seq(1 .. MaxPos), Sorted(list), NEW p \in Position
  PROVE  LET rest == ClearUpTo(list, p)
         IN  /\ rest \in Seq(1 .. MaxPos) /\ Sorted(rest)
             /\ \A i \in 1 .. Len(rest) : ~AtLeast(p, rest[i])
             /\ list = <<>> => rest = <<>>
<1> DEFINE kept == {i \in 1 .. Len(list) : ~AtLeast(p, list[i])}
           m == CHOOSE i \in kept : \A j \in kept : i <= j
           rest == ClearUpTo(list, p)
<1>1. Len(list) \in Nat /\ p \in Nat /\ \A i \in 1 .. Len(list) : list[i] \in Nat
  BY SemiSyncAssumption DEF Position
<1>2. CASE kept = {}
  <2>1. rest = <<>>
    BY <1>2 DEF ClearUpTo
  <2> QED
    BY <2>1 DEF Sorted
<1>3. CASE kept # {}
  <2>1. kept \in SUBSET Nat
    BY <1>1
  <2>2. \E i \in kept : \A j \in kept : i <= j
    BY <1>3, <2>1, Smallest
  <2>3. m \in kept
    BY <2>2
  <2>4. rest = SubSeq(list, m, Len(list))
    BY <1>3 DEF ClearUpTo
  <2>5. m \in 1 .. Len(list) /\ ~AtLeast(p, list[m])
    BY <2>3
  <2> HIDE DEF m, rest, kept
  <2>6. /\ rest \in Seq(1 .. MaxPos)
        /\ Len(rest) = Len(list) - m + 1
        /\ \A i \in 1 .. Len(rest) : rest[i] = list[m + i - 1]
    <3>1. m \in Int /\ Len(list) \in Int /\ m <= Len(list)
      BY <2>5, <1>1
    <3>2. \A i \in 1 .. Len(list) : list[i] \in 1 .. MaxPos
      BY ElementOfSeq
    <3>3. \A i \in m .. Len(list) : list[i] \in 1 .. MaxPos
      BY <3>2, <2>5, <1>1
    <3>4. /\ SubSeq(list, m, Len(list)) \in Seq(1 .. MaxPos)
          /\ Len(SubSeq(list, m, Len(list))) = Len(list) - m + 1
          /\ \A i \in 1 .. Len(list) - m + 1 :
                SubSeq(list, m, Len(list))[i] = list[m + i - 1]
      BY <3>1, <3>3, SubSeqProperties
    <3> QED
      BY <2>4, <3>4
  <2>7. Sorted(rest)
    <3>1. ASSUME NEW i \in 1 .. Len(rest), NEW j \in 1 .. Len(rest), i < j
          PROVE  ~AtLeast(rest[i], rest[j])
      <4>1. /\ m + i - 1 \in 1 .. Len(list) /\ m + j - 1 \in 1 .. Len(list)
            /\ m + i - 1 < m + j - 1
        BY <2>5, <2>6, <3>1, <1>1
      <4> QED
        BY <4>1, <2>6 DEF Sorted
    <3> QED
      BY <3>1 DEF Sorted
  <2>8. ASSUME NEW i \in 1 .. Len(rest) PROVE ~AtLeast(p, rest[i])
    <3>1. m + i - 1 \in 1 .. Len(list) /\ (i = 1 \/ m < m + i - 1)
      BY <2>5, <2>6, <1>1
    <3>2. CASE i = 1
      <4>1. rest[i] = list[m]
        BY <3>2, <2>6, <2>5
      <4> QED
        BY <4>1, <2>5
    <3>3. CASE i # 1
      <4>1. ~AtLeast(list[m], list[m + i - 1])
        BY <3>1, <3>3, <2>5 DEF Sorted
      <4> QED
        BY <4>1, <3>1, <2>5, <2>6, <1>1, Order
    <3> QED
      BY <3>2, <3>3
  <2>9. list # <<>>
    BY <2>5
  <2> QED
    BY <2>6, <2>7, <2>8, <2>9 DEF rest
<1> QED
  BY <1>2, <1>3

\* cond_broadcast leaves nobody asleep and everybody counted.
LEMMA WokenFacts ==
  ASSUME TypeOK
  PROVE  /\ \A s \in Sessions : /\ AllWoken[s] # "sleeping"
                                /\ AllWoken[s] \in {"sleeping", "woken",
                                                    "timedout"}
                                     <=> s \in Waiting
         /\ AllWoken \in [Sessions -> {"idle", "written", "enter", "sleeping",
                                       "woken", "timedout"}]
BY DEF TypeOK, AllWoken, Waiting

\* switch_off, whether its assertion fails or not.
LEMMA SwitchOffFacts ==
  ASSUME TypeOK, Listed, switch_off, UNCHANGED master_enabled
  PROVE  /\ Listed'
         /\ state' = FALSE
         /\ reply_file' \in File /\ ~reply_file'.inited
         /\ wait_file' \in File
         /\ aborted' \in {"no", "commitTrx", "switch_off"}
         /\ active_tranxs' = NULL \/ active_tranxs' = <<>>
<1>1. CASE active_tranxs = NULL
  <2>1. ~master_enabled /\ ~reply_file.inited /\ state = FALSE
    BY <1>1 DEF Listed, TypeOK
  <2>2. /\ aborted' = "switch_off"
        /\ UNCHANGED <<state, active_tranxs, wait_file, reply_file>>
    BY <1>1 DEF switch_off
  <2>3. Listed'
    BY <2>2 DEF Listed
  <2> QED
    BY <1>1, <2>1, <2>2, <2>3 DEF TypeOK
<1>2. CASE active_tranxs # NULL
  <2>1. /\ state' = FALSE
        /\ active_tranxs' = <<>>
        /\ wait_file' = Uninit(wait_file)
        /\ reply_file' = Uninit(reply_file)
        /\ UNCHANGED aborted
    BY <1>2 DEF switch_off
  <2>2. /\ reply_file' \in File /\ ~reply_file'.inited
        /\ wait_file' \in File
    BY <2>1, UninitFacts DEF TypeOK
  <2>3. <<>> # NULL
    BY NotNull
  <2>4. Listed'
    BY <1>2, <2>1, <2>2, <2>3 DEF Listed, Sorted
  <2> QED
    BY <2>1, <2>2, <2>4 DEF TypeOK
<1> QED
  BY <1>1, <1>2

\* The type of the list follows from what Listed says of it.
LEMMA ListType ==
  ASSUME Listed
  PROVE  \/ active_tranxs = NULL
         \/ active_tranxs \in Seq(Position) /\ Len(active_tranxs) <= MaxPos
BY ListBounded DEF Listed

\* wait_sessions counts the same sessions.
LEMMA WaitersFrame ==
  ASSUME WaitersCounted, UNCHANGED wait_sessions, resets' = 0 => resets = 0,
         \A s \in Sessions :
           pc'[s] \in {"sleeping", "woken", "timedout"} <=> s \in Waiting
  PROVE  WaitersCounted'
<1>1. Waiting' = Waiting
  BY DEF Waiting
<1> QED
  BY <1>1 DEF WaitersCounted

\* The number of sessions that wait, before and after one comes or goes.
LEMMA WaiterNumber ==
  /\ Cardinality(Waiting) \in 0 .. Ulong - 1
  /\ \A s \in Sessions \ Waiting :
       /\ Cardinality(Waiting \cup {s}) = Cardinality(Waiting) + 1
       /\ Cardinality(Waiting) + 1 < Ulong
  /\ \A s \in Waiting :
       /\ Cardinality(Waiting \ {s}) = Cardinality(Waiting) - 1
       /\ Cardinality(Waiting) > 0
<1>1. Waiting \subseteq Sessions
  BY DEF Waiting
<1>2. IsFiniteSet(Waiting) /\ Cardinality(Waiting) <= Cardinality(Sessions)
  BY <1>1, FS_Subset, SemiSyncAssumption
<1>3. Cardinality(Waiting) \in Nat /\ Cardinality(Sessions) \in Nat
  BY <1>2, FS_CardinalityType, SemiSyncAssumption
<1>4. ASSUME NEW s \in Sessions \ Waiting
      PROVE  /\ Cardinality(Waiting \cup {s}) = Cardinality(Waiting) + 1
             /\ Cardinality(Waiting) + 1 < Ulong
  <2>1. Cardinality(Waiting \cup {s}) = Cardinality(Waiting) + 1
    BY <1>2, FS_AddElement
  <2>2. Waiting \cup {s} \subseteq Sessions
    BY <1>1
  <2>3. Cardinality(Waiting \cup {s}) <= Cardinality(Sessions)
    BY <2>2, FS_Subset, SemiSyncAssumption
  <2> QED
    BY <2>1, <2>3, <1>3, SemiSyncAssumption
<1>5. ASSUME NEW s \in Waiting
      PROVE  /\ Cardinality(Waiting \ {s}) = Cardinality(Waiting) - 1
             /\ Cardinality(Waiting) > 0
  <2>1. Cardinality(Waiting \ {s}) = Cardinality(Waiting) - 1
    BY <1>2, FS_RemoveElement
  <2>2. Cardinality(Waiting) # 0
    BY <1>2, FS_EmptySet
  <2> QED
    BY <2>1, <2>2, <1>3
<1> QED
  BY <1>2, <1>3, <1>4, <1>5, SemiSyncAssumption

\* The number of slaves that are connected, before and after one comes or
\* goes.
LEMMA SlaveNumber ==
  /\ Cardinality(Connected) \in 0 .. Cardinality(Slaves)
  /\ Cardinality(Connected) = 0 => Connected = {}
  /\ \A d \in Slaves \ Connected :
       /\ Cardinality(Connected \cup {d}) = Cardinality(Connected) + 1
       /\ Cardinality(Connected) + 1 <= Cardinality(Slaves)
  /\ \A d \in Connected :
       /\ Cardinality(Connected \ {d}) = Cardinality(Connected) - 1
       /\ Cardinality(Connected) > 0
<1>1. Connected \subseteq Slaves
  BY DEF Connected
<1>2. IsFiniteSet(Connected) /\ Cardinality(Connected) <= Cardinality(Slaves)
  BY <1>1, FS_Subset, SemiSyncAssumption
<1>3. Cardinality(Connected) \in Nat /\ Cardinality(Slaves) \in Nat
  BY <1>2, FS_CardinalityType, SemiSyncAssumption
<1>4. ASSUME NEW d \in Slaves \ Connected
      PROVE  /\ Cardinality(Connected \cup {d}) = Cardinality(Connected) + 1
             /\ Cardinality(Connected) + 1 <= Cardinality(Slaves)
  <2>1. Cardinality(Connected \cup {d}) = Cardinality(Connected) + 1
    BY <1>2, FS_AddElement
  <2>2. Connected \cup {d} \subseteq Slaves
    BY <1>1
  <2>3. Cardinality(Connected \cup {d}) <= Cardinality(Slaves)
    BY <2>2, FS_Subset, SemiSyncAssumption
  <2> QED
    BY <2>1, <2>3, <1>3
<1>5. ASSUME NEW d \in Connected
      PROVE  /\ Cardinality(Connected \ {d}) = Cardinality(Connected) - 1
             /\ Cardinality(Connected) > 0
  <2>1. Cardinality(Connected \ {d}) = Cardinality(Connected) - 1
    BY <1>2, FS_RemoveElement
  <2>2. Cardinality(Connected) # 0
    BY <1>2, FS_EmptySet
  <2> QED
    BY <2>1, <2>2, <1>3
<1>6. Cardinality(Connected) = 0 => Connected = {}
  BY <1>2, FS_EmptySet
<1> QED
  BY <1>2, <1>3, <1>4, <1>5, <1>6

\* The number of sessions that wait beside s.
LEMMA OtherWaiters ==
  ASSUME NEW s \in Sessions
  PROVE  /\ Cardinality(Waiting \ {s}) \in 0 .. Ulong - 1
         /\ Cardinality((Waiting \ {s}) \cup {s}) =
              Cardinality(Waiting \ {s}) + 1
         /\ Cardinality(Waiting \ {s}) + 1 \in 0 .. Ulong - 1
<1> DEFINE W == Waiting \ {s}
<1>1. W \subseteq Sessions /\ W \cup {s} \subseteq Sessions
  BY DEF Waiting
<1>2. /\ IsFiniteSet(W) /\ IsFiniteSet(W \cup {s})
      /\ Cardinality(W \cup {s}) <= Cardinality(Sessions)
  BY <1>1, FS_Subset, SemiSyncAssumption
<1>3. Cardinality(W) \in Nat /\ Cardinality(Sessions) \in Nat
  BY <1>2, FS_CardinalityType, SemiSyncAssumption
<1>4. Cardinality(W \cup {s}) = Cardinality(W) + 1
  BY <1>2, FS_AddElement
<1> QED
  BY <1>2, <1>3, <1>4, SemiSyncAssumption

\* Taking one session off the counter.
LEMMA LessOneFacts ==
  ASSUME IInv, NEW s \in Waiting
  PROVE  /\ LessOne \in 0 .. Ulong - 1
         /\ resets = 0 => LessOne = Cardinality(Waiting \ {s})
<1>1. wait_sessions \in Nat /\ wait_sessions - 1 \in Int /\ Ulong \in Nat
  BY SemiSyncAssumption DEF IInv, TypeOK
<1>2. LessOne \in 0 .. Ulong - 1
  BY <1>1, Modulo DEF LessOne
<1>3. ASSUME resets = 0 PROVE LessOne = Cardinality(Waiting \ {s})
  <2>1. /\ wait_sessions = Cardinality(Waiting)
        /\ Cardinality(Waiting \ {s}) = Cardinality(Waiting) - 1
        /\ Cardinality(Waiting) > 0
    BY <1>3, WaiterNumber DEF IInv, WaitersCounted
  <2>2. wait_sessions - 1 \in 0 .. Ulong - 1
    BY <2>1, <1>1 DEF IInv, TypeOK
  <2> QED
    BY <2>1, <2>2, Modulo DEF LessOne
<1> QED
  BY <1>2, <1>3
-----------------------------------------------------------------------------
(* One lemma per operation *)

\* SET GLOBAL rpl_semi_sync_master_enabled=1.
LEMMA enableMasterKeeps ==
  ASSUME IInv, enableMaster
  PROVE  IInv'
<1>1. /\ ~master_enabled /\ toggles < MaxToggles
      /\ toggles' = toggles + 1
      /\ active_tranxs' = <<>>
      /\ commit_file' = Uninit(commit_file)
      /\ reply_file' = Uninit(reply_file)
      /\ wait_file' = Uninit(wait_file)
      /\ master_enabled' = TRUE
      /\ state' = TRUE
      /\ UNCHANGED <<wait_sessions, clients, aborted, pc, pos, outcome, dump,
                     sent, rpos, recv, logEnd, resetting, drops,
                     resets>>
  BY DEF enableMaster, plugin, sessions, slaves, log, bounds
<1>u. /\ reply_file' \in File /\ ~reply_file'.inited
      /\ wait_file' \in File /\ commit_file' \in File
  BY <1>1, UninitFacts DEF IInv, TypeOK
<1>2. Listed'
  BY <1>1, <1>u, NotNull DEF Listed, Sorted
<1>3. Sleepers'
  <2>1. \A s \in Sessions : pc[s] = "sleeping" => resets # 0
    BY <1>1 DEF IInv, Listed, Sleepers
  <2> QED
    BY <1>1, <2>1 DEF Sleepers
<1>4. Received'
  BY <1>u DEF Received
<1>5. Acknowledged'
  BY <1>u DEF Acknowledged
<1>6. /\ ClientsCounted' /\ ResetCounted' /\ WaitersCounted' /\ AllProgress'
      /\ Yes'
  BY <1>1
     DEF IInv, ClientsCounted, Connected, ResetCounted, WaitersCounted,
         Waiting, AllProgress, Progress, Yes, YesMeansReceived
<1>7. TypeOK'
  <2>1. toggles' \in 0 .. MaxToggles
    BY <1>1, SemiSyncAssumption DEF IInv, TypeOK
  <2>2. \/ active_tranxs' = NULL
        \/ active_tranxs' \in Seq(Position) /\ Len(active_tranxs') <= MaxPos
    BY <1>1, SemiSyncAssumption
  <2> QED
    BY <1>1, <1>u, <2>1, <2>2 DEF IInv, TypeOK
<1> QED
  BY <1>2, <1>3, <1>4, <1>5, <1>6, <1>7 DEF IInv

\* SET GLOBAL rpl_semi_sync_master_enabled=0.
LEMMA disableMasterKeeps ==
  ASSUME IInv, disableMaster
  PROVE  IInv'
<1>1. /\ master_enabled /\ toggles < MaxToggles
      /\ toggles' = toggles + 1
      /\ active_tranxs' = NULL
      /\ commit_file' = Uninit(commit_file)
      /\ reply_file' = Uninit(reply_file)
      /\ wait_file' = Uninit(wait_file)
      /\ master_enabled' = FALSE
      /\ state' = FALSE
      /\ pc' = AllWoken
      /\ UNCHANGED <<wait_sessions, clients, aborted, pos, outcome, dump,
                     sent, rpos, recv, logEnd, resetting, drops,
                     resets>>
  BY DEF disableMaster, plugin, sessions, slaves, log, bounds
<1>u. /\ reply_file' \in File /\ ~reply_file'.inited
      /\ wait_file' \in File /\ commit_file' \in File
  BY <1>1, UninitFacts DEF IInv, TypeOK
<1>2. Listed'
  BY <1>1, <1>u DEF Listed
<1>3. WaitersCounted'
  BY <1>1, WokenFacts, WaitersFrame DEF IInv
<1>4. Sleepers'
  BY <1>1, WokenFacts DEF IInv, Sleepers
<1>5. Received'
  BY <1>u DEF Received
<1>6. Acknowledged'
  BY <1>u DEF Acknowledged
<1>7. ClientsCounted' /\ ResetCounted' /\ AllProgress' /\ Yes'
  BY <1>1
     DEF IInv, ClientsCounted, Connected, ResetCounted, AllProgress,
         Progress, Yes, YesMeansReceived
<1>8. TypeOK'
  <2>1. toggles' \in 0 .. MaxToggles
    BY <1>1, SemiSyncAssumption DEF IInv, TypeOK
  <2> QED
    BY <1>1, <1>u, <2>1, WokenFacts DEF IInv, TypeOK
<1> QED
  BY <1>2, <1>3, <1>4, <1>5, <1>6, <1>7, <1>8 DEF IInv

\* RESET MASTER truncates the log.
LEMMA reset_logsKeeps ==
  ASSUME IInv, reset_logs
  PROVE  IInv'
<1>1. /\ resets < MaxResets /\ ~resetting
      /\ \A d \in Slaves : dump[d] = "down"
      /\ resets' = resets + 1
      /\ resetting' = TRUE
      /\ logEnd' = 0
      /\ recv' = [d \in Slaves |-> 0]
      /\ UNCHANGED <<master_enabled, state, active_tranxs, reply_file,
                     wait_file, commit_file, wait_sessions, clients,
                     aborted, pc, pos, outcome, dump, sent, rpos,
                     toggles, drops>>
  BY DEF reset_logs, plugin, sessions, slaves, log, bounds
<1>r. resets \in Nat /\ resets' # 0 /\ resets' \in 0 .. MaxResets /\ MaxResets # 0
  BY <1>1, SemiSyncAssumption DEF IInv, TypeOK
<1>2. ResetCounted'
  BY <1>r DEF ResetCounted
<1>3. WaitersCounted'
  BY <1>r DEF WaitersCounted
<1>4. Sleepers'
  BY <1>r DEF Sleepers
<1>5. AllProgress'
  BY <1>1 DEF AllProgress, Progress
<1>6. Received'
  BY <1>r DEF Received
<1>7. Acknowledged'
  BY <1>1 DEF IInv, Acknowledged
<1>8. Yes'
  BY <1>r DEF Yes, YesMeansReceived
<1>9. Listed' /\ ClientsCounted'
  BY <1>1 DEF IInv, Listed, ClientsCounted, Connected
<1>10. TypeOK'
  BY <1>1, <1>r, SemiSyncAssumption DEF IInv, TypeOK, Position
<1> QED
  BY <1>2, <1>3, <1>4, <1>5, <1>6, <1>7, <1>8, <1>9, <1>10 DEF IInv

\* The hook of RESET MASTER.
LEMMA resetMasterKeeps ==
  ASSUME IInv, resetMaster
  PROVE  IInv'
<1>1. /\ resetting
      /\ resetting' = FALSE
      /\ state' = master_enabled
      /\ wait_file' = Uninit(wait_file)
      /\ reply_file' = Uninit(reply_file)
      /\ commit_file' = Uninit(commit_file)
      /\ wait_sessions' = 0
      /\ UNCHANGED <<master_enabled, active_tranxs, clients, aborted, pc, pos,
                     outcome, dump, sent, rpos, recv, logEnd,
                     toggles, drops, resets>>
  BY DEF resetMaster, plugin, sessions, slaves, log, bounds
<1>u. /\ reply_file' \in File /\ ~reply_file'.inited
      /\ wait_file' \in File /\ commit_file' \in File
  BY <1>1, UninitFacts DEF IInv, TypeOK
<1>r. resets' # 0
  BY <1>1 DEF IInv, ResetCounted
<1>2. Listed'
  BY <1>1, <1>u DEF IInv, Listed
<1>3. ResetCounted'
  BY <1>1 DEF IInv, TypeOK, ResetCounted
<1>4. WaitersCounted'
  BY <1>r DEF WaitersCounted
<1>5. Sleepers'
  BY <1>r DEF Sleepers
<1>6. Received'
  BY <1>r DEF Received
<1>7. Acknowledged'
  BY <1>u DEF Acknowledged
<1>8. ClientsCounted' /\ AllProgress' /\ Yes'
  BY <1>1
     DEF IInv, ClientsCounted, Connected, AllProgress, Progress, Yes,
         YesMeansReceived
<1>9. TypeOK'
  <2>1. state' \in BOOLEAN
    BY <1>1 DEF IInv, TypeOK
  <2>2. wait_sessions' \in 0 .. Ulong - 1
    BY <1>1, SemiSyncAssumption
  <2> QED
    BY <1>1, <1>u, <2>1, <2>2 DEF IInv, TypeOK
<1> QED
  BY <1>2, <1>3, <1>4, <1>5, <1>6, <1>7, <1>8, <1>9 DEF IInv

\* writeTranxInBinlog: the transaction is active from now on if semisync is
\* on; a list that does not take it is the end of semisync.
LEMMA writeTranxInBinlogKeeps ==
  ASSUME IInv, NEW s \in Sessions, writeTranxInBinlog(s)
  PROVE  IInv'
<1>p. PICK p \in 1 .. MaxPos : p = logEnd + 1 /\ logEnd \in Nat
  BY SemiSyncAssumption DEF writeTranxInBinlog, IInv, TypeOK, Position
<1>1. /\ pc[s] = "idle" /\ logEnd < MaxPos
      /\ logEnd' = p
      /\ pos' = [pos EXCEPT ![s] = p]
      /\ outcome' = [outcome EXCEPT ![s] = "none"]
      /\ \/ pc' = [AllWoken EXCEPT ![s] = "written"]
         \/ pc' = [pc EXCEPT ![s] = "written"]
      /\ \/ commit_file' = [inited |-> TRUE, pos |-> p]
         \/ commit_file' = commit_file
      /\ UNCHANGED <<master_enabled, wait_sessions, clients, dump, sent, rpos,
                     recv, resetting, toggles, drops, resets>>
  BY <1>p DEF writeTranxInBinlog, slaves, bounds
<1>o. \/ UNCHANGED <<state, active_tranxs, wait_file, reply_file, aborted>>
      \/ /\ master_enabled /\ CanInsert(p)
         /\ active_tranxs' = Append(active_tranxs, p)
         /\ state
         /\ UNCHANGED <<state, wait_file, reply_file, aborted>>
      \/ switch_off /\ pc' = [AllWoken EXCEPT ![s] = "written"]
  BY <1>p DEF writeTranxInBinlog
<1>2. /\ pos'[s] = p /\ outcome'[s] = "none"
      /\ \A x \in Sessions \ {s} : pos'[x] = pos[x] /\ outcome'[x] = outcome[x]
  BY <1>1 DEF IInv, TypeOK
<1>3. /\ \A x \in Sessions :
           /\ pc'[x] \in {"sleeping", "woken", "timedout"} <=> x \in Waiting
           /\ pc'[x] = "sleeping" => pc[x] = "sleeping" /\ x # s
      /\ pc' \in [Sessions -> {"idle", "written", "enter", "sleeping", "woken",
                               "timedout"}]
  <2>1. CASE pc' = [AllWoken EXCEPT ![s] = "written"]
    BY <2>1, <1>1, WokenFacts DEF IInv, TypeOK, Waiting, AllWoken
  <2>2. CASE pc' = [pc EXCEPT ![s] = "written"]
    BY <2>2, <1>1 DEF IInv, TypeOK, Waiting
  <2> QED
    BY <2>1, <2>2, <1>1
<1>4. ClientsCounted' /\ ResetCounted'
  BY <1>1 DEF IInv, ClientsCounted, Connected, ResetCounted
<1>5. WaitersCounted'
  BY <1>1, <1>3, WaitersFrame DEF IInv
<1>6. AllProgress'
  <2>1. ASSUME NEW d \in Slaves PROVE Progress(d)'
    <3>1. recv[d] \in Nat /\ sent[d] \in Nat /\ Progress(d)
      BY SemiSyncAssumption DEF IInv, TypeOK, Position, AllProgress
    <3> QED
      BY <3>1, <1>1, <1>p DEF Progress
  <2> QED
    BY <2>1 DEF AllProgress
<1>7. Yes'
  BY <1>1, <1>2 DEF IInv, Yes, YesMeansReceived
<1>8. commit_file' \in File
  <2>1. CASE commit_file' = [inited |-> TRUE, pos |-> p]
    BY <2>1, SemiSyncAssumption DEF File, Position
  <2>2. CASE commit_file' = commit_file
    BY <2>2 DEF IInv, TypeOK
  <2> QED
    BY <2>1, <2>2, <1>1
<1>9. logEnd' \in Position /\ pos' \in [Sessions -> Position]
  BY <1>1, SemiSyncAssumption DEF IInv, TypeOK, Position
<1>10. CASE UNCHANGED <<state, active_tranxs, wait_file, reply_file, aborted>>
  <2>1. Listed' /\ Received'
    BY <1>1, <1>10 DEF IInv, Listed, Received
  <2>2. Sleepers'
    BY <1>1, <1>2, <1>3, <1>10
       DEF IInv, Sleepers, Broadcasting, Asleep, Replied
  <2>3. Acknowledged'
    <3> SUFFICES ASSUME InOrder, reply_file.inited
                 PROVE  /\ resetting \/ reply_file.pos <= p
                        /\ \A i \in 1 .. Len(active_tranxs) :
                              \/ ~AtLeast(reply_file.pos, active_tranxs[i])
                              \/ resetting /\ active_tranxs[i] <= p
      BY <1>1, <1>10 DEF Acknowledged
    <3>1. reply_file.pos \in Nat
      BY SemiSyncAssumption DEF IInv, TypeOK, File, Position
    <3>2. active_tranxs \in Seq(1 .. MaxPos)
      BY DEF IInv, Listed
    <3>3. \A i \in 1 .. Len(active_tranxs) : active_tranxs[i] \in Nat
      BY <3>2, ListElements
    <3> QED
      BY <1>p, <3>1, <3>3 DEF IInv, Acknowledged
  <2>4. TypeOK'
    BY <1>1, <1>3, <1>8, <1>9, <1>10 DEF IInv, TypeOK
  <2> QED
    BY <1>4, <1>5, <1>6, <1>7, <2>1, <2>2, <2>3, <2>4 DEF IInv
<1>11. CASE /\ master_enabled /\ CanInsert(p)
            /\ active_tranxs' = Append(active_tranxs, p)
            /\ state
            /\ UNCHANGED <<state, wait_file, reply_file, aborted>>
  <2>1. /\ active_tranxs \in Seq(1 .. MaxPos) /\ Sorted(active_tranxs)
        /\ active_tranxs # NULL
    BY <1>11 DEF IInv, Listed
  <2>2. active_tranxs' \in Seq(1 .. MaxPos) /\ Sorted(active_tranxs')
    BY <1>11, <2>1, InsertFacts DEF CanInsert
  <2>3. Listed'
    BY <1>1, <1>11, <2>2, NotNull DEF IInv, Listed
  <2>4. Received'
    BY <1>1, <1>11 DEF IInv, Received
  <2>5. Sleepers'
    BY <1>1, <1>2, <1>3, <1>11
       DEF IInv, Sleepers, Broadcasting, Asleep, Replied
  <2>6. Acknowledged'
    <3> SUFFICES ASSUME InOrder, reply_file.inited
                 PROVE  /\ resetting \/ reply_file.pos <= p
                        /\ \A i \in 1 .. Len(active_tranxs') :
                              \/ ~AtLeast(reply_file.pos, active_tranxs'[i])
                              \/ resetting /\ active_tranxs'[i] <= p
      BY <1>1, <1>11 DEF Acknowledged
    <3>1. /\ resetting \/ reply_file.pos <= logEnd
          /\ \A i \in 1 .. Len(active_tranxs) :
                \/ ~AtLeast(reply_file.pos, active_tranxs[i])
                \/ resetting /\ active_tranxs[i] <= logEnd
      BY DEF IInv, Acknowledged
    <3>2. reply_file.pos \in Position /\ p \in Position /\ reply_file.pos \in Nat
      BY SemiSyncAssumption DEF IInv, TypeOK, File, Position
    <3>3. resetting \/ ~AtLeast(reply_file.pos, p)
      BY <3>1, <3>2, <1>p, NumericOrder
    <3>4. /\ Len(active_tranxs') = Len(active_tranxs) + 1
          /\ Len(active_tranxs) \in Nat
          /\ \A i \in 1 .. Len(active_tranxs) :
                active_tranxs'[i] = active_tranxs[i]
          /\ active_tranxs'[Len(active_tranxs) + 1] = p
      BY <1>11, <2>1, AppendProperties, LenProperties
    <3>5. \A i \in 1 .. Len(active_tranxs) : active_tranxs[i] \in Nat
      BY <2>1, ListElements
    <3>6. ASSUME NEW i \in 1 .. Len(active_tranxs')
          PROVE  \/ ~AtLeast(reply_file.pos, active_tranxs'[i])
                 \/ resetting /\ active_tranxs'[i] <= p
      <4>1. CASE i \in 1 .. Len(active_tranxs)
        BY <4>1, <3>1, <3>4, <3>5, <1>p
      <4>2. CASE i = Len(active_tranxs) + 1
        BY <4>2, <3>3, <3>4, <1>p
      <4> QED
        BY <4>1, <4>2, <3>4
    <3> QED
      BY <3>1, <3>2, <3>6, <1>p
  <2>7. TypeOK'
    <3>1. active_tranxs' \in Seq(Position) /\ Len(active_tranxs') <= MaxPos
      BY <2>2, ListBounded
    <3> QED
      BY <1>1, <1>3, <1>8, <1>9, <1>11, <3>1 DEF IInv, TypeOK
  <2> QED
    BY <1>4, <1>5, <1>6, <1>7, <2>3, <2>4, <2>5, <2>6, <2>7 DEF IInv
<1>12. CASE switch_off /\ pc' = [AllWoken EXCEPT ![s] = "written"]
  <2>1. /\ Listed' /\ state' = FALSE
        /\ reply_file' \in File /\ ~reply_file'.inited
        /\ wait_file' \in File
        /\ aborted' \in {"no", "commitTrx", "switch_off"}
        /\ active_tranxs' = NULL \/ active_tranxs' = <<>>
    BY <1>1, <1>12, SwitchOffFacts DEF IInv
  <2>2. Received' /\ Acknowledged'
    BY <2>1 DEF Received, Acknowledged
  <2>3. Sleepers'
    BY <1>1, <1>12, WokenFacts DEF IInv, Sleepers
  <2>4. TypeOK'
    <3>1. \/ active_tranxs' = NULL
          \/ active_tranxs' \in Seq(Position) /\ Len(active_tranxs') <= MaxPos
      BY <2>1, EmptyList
    <3> QED
      BY <1>1, <1>3, <1>8, <1>9, <2>1, <3>1 DEF IInv, TypeOK
  <2> QED
    BY <1>4, <1>5, <1>6, <1>7, <2>1, <2>2, <2>3, <2>4 DEF IInv
<1> QED
  BY <1>10, <1>11, <1>12, <1>o

\* The test of master_enabled_ before the mutex is taken.
LEMMA commitTrxEnterKeeps ==
  ASSUME IInv, NEW s \in Sessions, commitTrxEnter(s)
  PROVE  IInv'
<1>1. /\ pc[s] = "written"
      /\ \/ pc' = [pc EXCEPT ![s] = "enter"] /\ outcome' = outcome
         \/ /\ pc' = [pc EXCEPT ![s] = "idle"]
            /\ outcome' = [outcome EXCEPT ![s] = "skipped"]
      /\ UNCHANGED <<master_enabled, state, active_tranxs, reply_file,
                     wait_file, commit_file, wait_sessions, clients,
                     aborted, pos, dump, sent, rpos, recv, logEnd,
                     resetting, toggles, drops, resets>>
  BY DEF commitTrxEnter, plugin, sessions, slaves, log, bounds
<1>s. /\ \A x \in Sessions :
           /\ pc'[x] \in {"sleeping", "woken", "timedout"} <=> x \in Waiting
           /\ pc'[x] = "sleeping" => pc[x] = "sleeping"
           /\ outcome'[x] = "yes" => outcome[x] = "yes"
      /\ pc' \in [Sessions -> {"idle", "written", "enter", "sleeping", "woken",
                               "timedout"}]
      /\ outcome' \in [Sessions -> {"none", "skipped", "yes", "no"}]
  BY <1>1 DEF IInv, TypeOK, Waiting
<1>2. WaitersCounted'
  BY <1>1, <1>s, WaitersFrame DEF IInv
<1>3. Sleepers'
  BY <1>1, <1>s DEF IInv, Sleepers, Broadcasting, Asleep, Replied
<1>4. Yes'
  BY <1>1, <1>s DEF IInv, Yes, YesMeansReceived
<1>5. /\ Listed' /\ ClientsCounted' /\ ResetCounted' /\ AllProgress'
      /\ Received' /\ Acknowledged'
  BY <1>1
     DEF IInv, Listed, ClientsCounted, Connected, ResetCounted, AllProgress,
         Progress, Received, Acknowledged
<1>6. TypeOK'
  BY <1>1, <1>s DEF IInv, TypeOK
<1> QED
  BY <1>2, <1>3, <1>4, <1>5, <1>6 DEF IInv

\* The timer of a sleeping session.
LEMMA TimerExpiresKeeps ==
  ASSUME IInv, NEW s \in Sessions, TimerExpires(s)
  PROVE  IInv'
<1>1. /\ pc[s] = "sleeping"
      /\ pc' = [pc EXCEPT ![s] = "timedout"]
      /\ UNCHANGED <<master_enabled, state, active_tranxs, reply_file,
                     wait_file, commit_file, wait_sessions, clients,
                     aborted, pos, outcome, dump, sent, rpos, recv,
                     logEnd, resetting, toggles, drops, resets>>
  BY DEF TimerExpires, plugin, sessions, slaves, log, bounds
<1>s. /\ \A x \in Sessions :
           /\ pc'[x] \in {"sleeping", "woken", "timedout"} <=> x \in Waiting
           /\ pc'[x] = "sleeping" => pc[x] = "sleeping"
      /\ pc' \in [Sessions -> {"idle", "written", "enter", "sleeping", "woken",
                               "timedout"}]
  BY <1>1 DEF IInv, TypeOK, Waiting
<1>2. WaitersCounted'
  BY <1>1, <1>s, WaitersFrame DEF IInv
<1>3. Sleepers'
  BY <1>1, <1>s DEF IInv, Sleepers, Broadcasting, Asleep, Replied
<1>4. /\ Listed' /\ ClientsCounted' /\ ResetCounted' /\ AllProgress'
      /\ Received' /\ Acknowledged' /\ Yes'
  BY <1>1
     DEF IInv, Listed, ClientsCounted, Connected, ResetCounted, AllProgress,
         Progress, Received, Acknowledged, Yes, YesMeansReceived
<1>5. TypeOK'
  BY <1>1, <1>s DEF IInv, TypeOK
<1> QED
  BY <1>2, <1>3, <1>4, <1>5 DEF IInv

\* One round of the loop of commitTrx.  A session that leaves with a reply has
\* one for its position; one that goes to sleep can be found by the next reply.
LEMMA RoundKeeps ==
  ASSUME IInv, NEW s \in Sessions, NEW count \in 0 .. Ulong - 1,
         Round(s, count),
         resets = 0 => count = Cardinality(Waiting \ {s}),
         UNCHANGED <<master_enabled, state, active_tranxs, reply_file,
                     commit_file, clients, pos, slaves, log, bounds>>
  PROVE  IInv'
<1>1. UNCHANGED <<master_enabled, state, active_tranxs, reply_file,
                  commit_file, clients, pos, dump, sent, rpos, recv, logEnd,
                  resetting, toggles, drops, resets>>
  BY DEF slaves, log, bounds
<1>2. /\ Listed' /\ ClientsCounted' /\ ResetCounted' /\ AllProgress'
      /\ Received' /\ Acknowledged'
  BY <1>1 DEF IInv, Listed, ClientsCounted, Connected, ResetCounted,
              AllProgress, Progress, Received, Acknowledged
<1>3. \A x \in Sessions : pos[x] \in Position /\ pos[x] \in Nat
  BY SemiSyncAssumption DEF IInv, TypeOK, Position
<1>4. /\ reply_file.pos \in Position /\ reply_file.pos \in Nat
      /\ wait_file.pos \in Nat
  BY SemiSyncAssumption DEF IInv, TypeOK, File, Position
<1>5. CASE ~state \/ Replied(s)
  <2>1. /\ aborted' \in {"no", "commitTrx"}
        /\ outcome' = [outcome EXCEPT ![s] = IF state THEN "yes" ELSE "no"]
        /\ pc' = [pc EXCEPT ![s] = "idle"]
        /\ wait_sessions' = count
        /\ wait_file' = wait_file
    BY <1>5 DEF Round, LEnd
  <2>2. /\ pc'[s] = "idle" /\ outcome'[s] = IF state THEN "yes" ELSE "no"
        /\ \A x \in Sessions \ {s} : pc'[x] = pc[x] /\ outcome'[x] = outcome[x]
    BY <2>1 DEF IInv, TypeOK
  <2>3. WaitersCounted'
    <3>1. Waiting' = Waiting \ {s}
      BY <2>2 DEF Waiting
    <3> QED
      BY <3>1, <2>1, <1>1 DEF WaitersCounted
  <2>4. Sleepers'
    <3>1. ASSUME NEW x \in Sessions, pc'[x] = "sleeping", resets = 0
          PROVE  state /\ (Broadcasting \/ Asleep(x))
      BY <3>1, <2>2 DEF IInv, Sleepers
    <3> QED
      BY <3>1, <2>1, <1>1 DEF Sleepers, Broadcasting, Asleep, Replied
  <2>5. Yes'
    <3> SUFFICES ASSUME InOrder, resets = 0, NEW x \in Sessions,
                        outcome'[x] = "yes"
                 PROVE  \E d \in Slaves : recv[d] >= pos[x]
      BY <1>1 DEF Yes, YesMeansReceived
    <3>1. CASE x = s
      <4>1. Replied(s)
        BY <3>1, <2>2, <1>5
      <4>2. reply_file.inited /\ reply_file.pos >= pos[s]
        BY <4>1, <1>3, <1>4, NumericOrder DEF Replied
      <4>3. PICK d \in Slaves : reply_file.pos <= recv[d]
        BY <4>2 DEF IInv, Received
      <4>4. recv[d] \in Nat
        BY SemiSyncAssumption DEF IInv, TypeOK, Position
      <4>5. recv[d] >= pos[x]
        BY <4>2, <4>3, <4>4, <3>1, <1>3, <1>4
      <4> QED
        BY <4>5
    <3>2. CASE x # s
      BY <3>2, <2>2 DEF IInv, Yes, YesMeansReceived
    <3> QED
      BY <3>1, <3>2
  <2>6. TypeOK'
    <3>1. /\ pc' \in [Sessions -> {"idle", "written", "enter", "sleeping",
                                   "woken", "timedout"}]
          /\ outcome' \in [Sessions -> {"none", "skipped", "yes", "no"}]
      BY <2>1 DEF IInv, TypeOK
    <3> QED
      BY <3>1, <2>1, <1>1 DEF IInv, TypeOK
  <2> QED
    BY <1>2, <2>3, <2>4, <2>5, <2>6 DEF IInv
<1>6. CASE state /\ ~Replied(s)
  <2>1. /\ wait_file' = IF wait_file.inited /\ ~AtLeast(wait_file.pos, pos[s])
                        THEN wait_file
                        ELSE [inited |-> TRUE, pos |-> pos[s]]
        /\ wait_sessions' = (count + 1) % Ulong
        /\ pc' = [pc EXCEPT ![s] = "sleeping"]
        /\ UNCHANGED <<outcome, aborted>>
    BY <1>6 DEF Round
  <2>2. /\ pc'[s] = "sleeping"
        /\ \A x \in Sessions \ {s} : pc'[x] = pc[x]
    BY <2>1 DEF IInv, TypeOK
  <2>3. WaitersCounted'
    <3> SUFFICES ASSUME resets = 0
                 PROVE  wait_sessions' = Cardinality(Waiting')
      BY <1>1 DEF WaitersCounted
    <3>1. Waiting' = (Waiting \ {s}) \cup {s}
      BY <2>2 DEF Waiting
    <3>2. /\ count + 1 \in 0 .. Ulong - 1
          /\ Cardinality((Waiting \ {s}) \cup {s}) = count + 1
      BY OtherWaiters
    <3>3. (count + 1) % Ulong = count + 1
      BY <3>2, Modulo
    <3> QED
      BY <3>1, <3>2, <3>3, <2>1
  <2>4. /\ wait_file' \in File
        /\ wait_file'.inited
        /\ AtLeast(pos[s], wait_file'.pos)
        /\ wait_file.inited => AtLeast(wait_file.pos, wait_file'.pos)
        /\ wait_file'.pos \in Nat
    <3>1. CASE wait_file.inited /\ ~AtLeast(wait_file.pos, pos[s])
      <4>1. wait_file' = wait_file
        BY <3>1, <2>1
      <4> QED
        BY <4>1, <3>1, <1>3, <1>4, Order DEF IInv, TypeOK
    <3>2. CASE ~(wait_file.inited /\ ~AtLeast(wait_file.pos, pos[s]))
      <4>1. wait_file' = [inited |-> TRUE, pos |-> pos[s]]
        BY <3>2, <2>1
      <4>2. wait_file' \in File /\ wait_file'.inited /\ wait_file'.pos = pos[s]
        BY <4>1, <1>3 DEF File
      <4> QED
        BY <4>2, <3>2, <1>3, Order
    <3> QED
      BY <3>1, <3>2
  <2>5. Sleepers'
    <3> SUFFICES ASSUME resets = 0, NEW x \in Sessions, pc'[x] = "sleeping"
                 PROVE  state' /\ (Broadcasting' \/ Asleep(x)')
      BY <1>1 DEF Sleepers
    <3>1. Replied(x)' <=> Replied(x)
      BY <1>1 DEF Replied
    <3>2. CASE x = s
      <4>1. Asleep(x)'
        BY <3>1, <3>2, <2>4, <1>6, <1>1 DEF Asleep
      <4> QED
        BY <4>1, <1>1, <1>6
    <3>3. CASE x # s
      <4>1. state /\ (Broadcasting \/ Asleep(x))
        BY <3>3, <2>2 DEF IInv, Sleepers
      <4>2. CASE Broadcasting
        BY <4>1, <4>2, <1>1 DEF Broadcasting
      <4>3. CASE Asleep(x)
        <5>1. /\ ~Replied(x) /\ wait_file.inited
              /\ AtLeast(pos[x], wait_file.pos)
          BY <4>3 DEF Asleep
        <5>2. AtLeast(pos[x], wait_file'.pos)
          BY <5>1, <2>4, <1>3, <1>4, Order
        <5>3. Asleep(x)'
          BY <5>1, <5>2, <3>1, <2>4, <1>1 DEF Asleep
        <5> QED
          BY <5>3, <4>1, <1>1
      <4> QED
        BY <4>1, <4>2, <4>3
    <3> QED
      BY <3>2, <3>3
  <2>6. Yes'
    BY <2>1, <1>1 DEF IInv, Yes, YesMeansReceived
  <2>7. TypeOK'
    <3>1. pc' \in [Sessions -> {"idle", "written", "enter", "sleeping",
                                "woken", "timedout"}]
      BY <2>1 DEF IInv, TypeOK
    <3>2. wait_sessions' \in 0 .. Ulong - 1
      BY <2>1, Modulo
    <3> QED
      BY <3>1, <3>2, <2>1, <2>4, <1>1 DEF IInv, TypeOK
  <2> QED
    BY <1>2, <2>3, <2>5, <2>6, <2>7 DEF IInv
<1> QED
  BY <1>5, <1>6

\* commitTrx takes the mutex.
LEMMA commitTrxLockKeeps ==
  ASSUME IInv, NEW s \in Sessions, commitTrxLock(s)
  PROVE  IInv'
<1>1. /\ pc[s] = "enter" /\ Round(s, wait_sessions)
      /\ UNCHANGED <<master_enabled, state, active_tranxs, reply_file,
                     commit_file, clients, pos, slaves, log, bounds>>
  BY DEF commitTrxLock
<1>2. Waiting \ {s} = Waiting
  BY <1>1 DEF Waiting
<1>3. /\ wait_sessions \in 0 .. Ulong - 1
      /\ resets = 0 => wait_sessions = Cardinality(Waiting \ {s})
  BY <1>2 DEF IInv, TypeOK, WaitersCounted
<1> QED
  BY <1>1, <1>3, RoundKeeps

\* commitTrx is back from its wait.
LEMMA commitTrxWokenKeeps ==
  ASSUME IInv, NEW s \in Sessions, commitTrxWoken(s)
  PROVE  IInv'
<1>1. /\ pc[s] \in {"woken", "sleeping"} /\ Round(s, LessOne)
      /\ UNCHANGED <<master_enabled, state, active_tranxs, reply_file,
                     commit_file, clients, pos, slaves, log, bounds>>
  BY DEF commitTrxWoken
<1>2. s \in Waiting
  BY <1>1 DEF Waiting
<1>3. /\ LessOne \in 0 .. Ulong - 1
      /\ resets = 0 => LessOne = Cardinality(Waiting \ {s})
  BY <1>2, LessOneFacts
<1> QED
  BY <1>1, <1>3, RoundKeeps

\* The wait ends with the time: semisync is off and everybody else is woken.
LEMMA commitTrxTimedOutKeeps ==
  ASSUME IInv, NEW s \in Sessions, commitTrxTimedOut(s)
  PROVE  IInv'
<1>1. /\ pc[s] = "timedout" /\ switch_off
      /\ wait_sessions' = LessOne
      /\ pc' = [AllWoken EXCEPT ![s] = "idle"]
      /\ outcome' = [outcome EXCEPT ![s] = "no"]
      /\ UNCHANGED <<master_enabled, commit_file, clients, pos, dump, sent,
                     rpos, recv, logEnd, resetting, toggles, drops, resets>>
  BY DEF commitTrxTimedOut, slaves, log, bounds
<1>2. /\ Listed' /\ state' = FALSE
      /\ reply_file' \in File /\ ~reply_file'.inited
      /\ wait_file' \in File
      /\ aborted' \in {"no", "commitTrx", "switch_off"}
      /\ active_tranxs' = NULL \/ active_tranxs' = <<>>
  BY <1>1, SwitchOffFacts DEF IInv
<1>3. ClientsCounted' /\ ResetCounted' /\ AllProgress'
  BY <1>1 DEF IInv, ClientsCounted, Connected, ResetCounted, AllProgress,
              Progress
<1>4. Received' /\ Acknowledged'
  BY <1>2 DEF Received, Acknowledged
<1>5. s \in Waiting
  BY <1>1 DEF Waiting
<1>6. /\ pc' \in [Sessions -> {"idle", "written", "enter", "sleeping",
                               "woken", "timedout"}]
      /\ \A x \in Sessions : pc'[x] # "sleeping"
      /\ pc'[s] = "idle"
      /\ \A x \in Sessions \ {s} :
            pc'[x] \in {"sleeping", "woken", "timedout"} <=> x \in Waiting
  BY <1>1, WokenFacts DEF IInv
<1>7. WaitersCounted'
  <2>1. Waiting' = Waiting \ {s}
    BY <1>6 DEF Waiting
  <2> QED
    BY <2>1, <1>1, <1>5, LessOneFacts DEF WaitersCounted
<1>8. Sleepers'
  BY <1>6 DEF Sleepers
<1>9. /\ outcome' \in [Sessions -> {"none", "skipped", "yes", "no"}]
      /\ \A x \in Sessions : outcome'[x] = "yes" => outcome[x] = "yes"
  BY <1>1 DEF IInv, TypeOK
<1>10. Yes'
  BY <1>1, <1>9 DEF IInv, Yes, YesMeansReceived
<1>11. TypeOK'
  <2>1. \/ active_tranxs' = NULL
        \/ active_tranxs' \in Seq(Position) /\ Len(active_tranxs') <= MaxPos
    BY <1>2, EmptyList
  <2>2. wait_sessions' \in 0 .. Ulong - 1
    BY <1>1, <1>5, LessOneFacts
  <2> QED
    BY <1>1, <1>2, <1>6, <1>9, <2>1, <2>2 DEF IInv, TypeOK
<1> QED
  BY <1>2, <1>3, <1>4, <1>7, <1>8, <1>10, <1>11 DEF IInv

\* A slave connects.
LEMMA add_slaveKeeps ==
  ASSUME IInv, NEW d \in Slaves, add_slave(d)
  PROVE  IInv'
<1>1. /\ dump[d] = "down"
      /\ clients' = clients + 1
      /\ dump' = [dump EXCEPT ![d] = "report"]
      /\ rpos' = [rpos EXCEPT ![d] = recv[d]]
      /\ sent' = [sent EXCEPT ![d] = recv[d]]
      /\ UNCHANGED <<master_enabled, state, active_tranxs, reply_file,
                     wait_file, commit_file, wait_sessions, aborted, pc, pos,
                     outcome, recv, logEnd, resetting, toggles, drops, resets>>
  BY DEF add_slave, sessions, log, bounds
<1>2. /\ dump'[d] = "report" /\ rpos'[d] = recv[d] /\ sent'[d] = recv[d]
      /\ \A x \in Slaves \ {d} : /\ dump'[x] = dump[x] /\ rpos'[x] = rpos[x]
                                 /\ sent'[x] = sent[x]
  BY <1>1 DEF IInv, TypeOK
<1>3. /\ Listed' /\ ResetCounted' /\ WaitersCounted' /\ Received' /\ Yes'
  BY <1>1 DEF IInv, Listed, ResetCounted, WaitersCounted, Waiting, Received,
              Yes, YesMeansReceived
<1>4. clients' = Cardinality(Connected') /\ clients' \in 1 .. Cardinality(Slaves)
  <2>1. d \in Slaves \ Connected
    BY <1>1 DEF Connected
  <2>2. Connected' = Connected \cup {d}
    BY <1>2 DEF Connected
  <2>3. clients = Cardinality(Connected) /\ clients \in Nat
    BY SlaveNumber DEF IInv, ClientsCounted
  <2> QED
    BY <2>1, <2>2, <2>3, <1>1, SlaveNumber
<1>5. ClientsCounted'
  BY <1>4 DEF ClientsCounted
<1>6. Sleepers'
  <2>1. Broadcasting => Broadcasting'
    BY <1>1, <1>2 DEF Broadcasting
  <2> QED
    BY <2>1, <1>1 DEF IInv, Sleepers, Asleep, Replied
<1>7. AllProgress'
  <2>1. ASSUME NEW x \in Slaves PROVE Progress(x)'
    <3>1. recv[x] \in Nat /\ Progress(x)
      BY SemiSyncAssumption DEF IInv, TypeOK, Position, AllProgress
    <3>2. CASE x = d
      BY <3>1, <3>2, <1>1, <1>2 DEF Progress
    <3>3. CASE x # d
      BY <3>1, <3>3, <1>1, <1>2 DEF Progress
    <3> QED
      BY <3>2, <3>3
  <2> QED
    BY <2>1 DEF AllProgress
<1>8. Acknowledged'
  BY <1>1 DEF IInv, Acknowledged
<1>9. TypeOK'
  <2>1. /\ dump' \in [Slaves -> {"down", "idle", "await", "report",
                         "broadcast", "broken"}]
        /\ sent' \in [Slaves -> Position] /\ rpos' \in [Slaves -> Position]
    BY <1>1 DEF IInv, TypeOK
  <2>2. clients' \in 0 .. Cardinality(Slaves)
    BY <1>4
  <2> QED
    BY <1>1, <2>1, <2>2 DEF IInv, TypeOK
<1> QED
  BY <1>3, <1>5, <1>6, <1>7, <1>8, <1>9 DEF IInv

\* reportReplyBinlog up to its unlock.  A sleeper whose position the reply
\* covers waits for the wait position or one behind it, so that the reply
\* covers the wait position too, and the broadcast is on its way.
LEMMA reportReplyBinlogKeeps ==
  ASSUME IInv, NEW d \in Slaves, reportReplyBinlog(d)
  PROVE  IInv'
<1> DEFINE p == rpos[d]
           copy == ~reply_file.inited \/ AtLeast(p, reply_file.pos)
           replied == IF copy THEN p ELSE reply_file.pos
           release == wait_sessions > 0 /\ AtLeast(replied, wait_file.pos)
<1>1. /\ dump[d] = "report"
      /\ UNCHANGED <<master_enabled, commit_file, wait_sessions, clients,
                     aborted, pc, pos, outcome, sent, recv, logEnd, resetting,
                     toggles, drops, resets>>
      /\ rpos' = [rpos EXCEPT ![d] = 0]
      /\ dump' = [dump EXCEPT ![d] = "broadcast"]
         \/ dump' = [dump EXCEPT ![d] = "idle"]
  BY DEF reportReplyBinlog, sessions, log, bounds
<1>2. /\ dump'[d] \in {"broadcast", "idle"}
      /\ \A x \in Slaves \ {d} : dump'[x] = dump[x] /\ rpos'[x] = rpos[x]
      /\ dump' \in [Slaves -> {"down", "idle", "await", "report",
                         "broadcast", "broken"}]
  <2>1. CASE dump' = [dump EXCEPT ![d] = "broadcast"]
    BY <2>1, <1>1 DEF IInv, TypeOK
  <2>2. CASE dump' = [dump EXCEPT ![d] = "idle"]
    BY <2>2, <1>1 DEF IInv, TypeOK
  <2> QED
    BY <2>1, <2>2, <1>1
<1>3. d \in Connected /\ Connected' = Connected
  BY <1>1, <1>2 DEF Connected
<1>4. ClientsCounted' /\ ResetCounted' /\ WaitersCounted' /\ Yes'
  BY <1>1, <1>3 DEF IInv, ClientsCounted, ResetCounted, WaitersCounted,
                    Waiting, Yes, YesMeansReceived
<1>5. AllProgress'
  <2>1. ASSUME NEW x \in Slaves PROVE Progress(x)'
    <3>1. Progress(x)
      BY DEF IInv, AllProgress
    <3>2. CASE x = d
      BY <3>1, <3>2, <1>1, <1>2 DEF Progress
    <3>3. CASE x # d
      BY <3>1, <3>3, <1>1, <1>2 DEF Progress
    <3> QED
      BY <3>2, <3>3
  <2> QED
    BY <2>1 DEF AllProgress
<1>t. rpos' \in [Slaves -> Position]
  BY <1>1, SemiSyncAssumption DEF IInv, TypeOK, Position
<1>6. Broadcasting => Broadcasting'
  BY <1>1, <1>2 DEF Broadcasting
<1>7. CASE ~master_enabled
  <2>1. UNCHANGED <<state, reply_file, active_tranxs, wait_file>>
    BY <1>7 DEF reportReplyBinlog
  <2>2. Listed' /\ Received' /\ Acknowledged'
    BY <2>1, <1>1 DEF IInv, Listed, Received, Acknowledged
  <2>3. Sleepers'
    BY <2>1, <1>1, <1>6 DEF IInv, Sleepers, Asleep, Replied
  <2>4. TypeOK'
    BY <2>1, <1>1, <1>2, <1>t DEF IInv, TypeOK
  <2> QED
    BY <2>2, <2>3, <2>4, <1>4, <1>5 DEF IInv
<1>8. CASE master_enabled
  <2>1. /\ state' = (state \/ try_switch_on(p))
        /\ reply_file' = IF copy THEN [inited |-> TRUE, pos |-> p]
                                 ELSE reply_file
        /\ active_tranxs' = IF copy THEN ClearUpTo(active_tranxs, p)
                                    ELSE active_tranxs
        /\ wait_file' = IF release THEN Uninit(wait_file) ELSE wait_file
        /\ release => dump' = [dump EXCEPT ![d] = "broadcast"]
    BY <1>8 DEF reportReplyBinlog
  <2>2. /\ p \in Position /\ p \in Nat /\ recv[d] \in Nat /\ logEnd \in Nat
        /\ p <= recv[d] /\ recv[d] <= logEnd
    <3>1. Progress(d)
      BY DEF IInv, AllProgress
    <3>2. p \in Position /\ recv[d] \in Position /\ logEnd \in Position
      BY DEF IInv, TypeOK
    <3> QED
      BY <3>1, <3>2, <1>1, SemiSyncAssumption DEF Progress, Position
  <2>3. /\ reply_file \in File /\ reply_file.pos \in Nat
        /\ wait_file \in File /\ wait_file.pos \in Nat
        /\ state \in BOOLEAN
    BY SemiSyncAssumption DEF IInv, TypeOK, File, Position
  <2>4. /\ active_tranxs # NULL /\ active_tranxs \in Seq(1 .. MaxPos)
        /\ Sorted(active_tranxs)
        /\ ~state => active_tranxs = <<>>
    BY <1>8 DEF IInv, Listed
  <2>5. /\ active_tranxs' \in Seq(1 .. MaxPos) /\ Sorted(active_tranxs')
        /\ copy => \A i \in 1 .. Len(active_tranxs') :
                      ~AtLeast(p, active_tranxs'[i])
        /\ ~state => active_tranxs' = <<>>
    <3> HIDE DEF p, copy
    <3>1. CASE copy
      <4>1. active_tranxs' = ClearUpTo(active_tranxs, p)
        BY <3>1, <2>1
      <4> QED
        BY <4>1, <2>2, <2>4, ClearFacts
    <3>2. CASE ~copy
      BY <3>2, <2>1, <2>4
    <3> QED
      BY <3>1, <3>2
  <2>6. state => state'
    BY <2>1
  <2>7. /\ reply_file' \in File /\ reply_file'.inited
        /\ copy => reply_file'.pos = p
        /\ ~copy => reply_file' = reply_file
        /\ reply_file'.pos = replied
    <3>1. CASE copy
      <4>1. reply_file' = [inited |-> TRUE, pos |-> p]
        BY <3>1, <2>1
      <4> QED
        BY <4>1, <3>1, <2>2 DEF File
    <3>2. CASE ~copy
      <4>1. reply_file' = reply_file
        BY <3>2, <2>1
      <4> QED
        BY <4>1, <3>2, <2>3
    <3> QED
      BY <3>1, <3>2
  <2>8. Listed'
    BY <1>1, <1>8, <2>5, <2>6, NotNull DEF Listed
  <2>9. Received'
    <3>1. CASE copy
      BY <3>1, <2>2, <2>7, <1>1 DEF Received
    <3>2. CASE ~copy
      BY <3>2, <2>7, <1>1 DEF IInv, Received
    <3> QED
      BY <3>1, <3>2
  <2>10. Acknowledged'
    <3>1. CASE copy
      BY <3>1, <2>2, <2>5, <2>7, <1>1 DEF Acknowledged
    <3>2. CASE ~copy
      <4>1. active_tranxs' = active_tranxs /\ reply_file' = reply_file
        BY <3>2, <2>1
      <4> QED
        BY <4>1, <1>1 DEF IInv, Acknowledged
    <3> QED
      BY <3>1, <3>2
  <2>11. Sleepers'
    <3> SUFFICES ASSUME resets = 0, NEW x \in Sessions, pc[x] = "sleeping"
                 PROVE  state' /\ (Broadcasting' \/ Asleep(x)')
      BY <1>1 DEF Sleepers
    <3>1. state /\ (Broadcasting \/ Asleep(x))
      BY DEF IInv, Sleepers
    <3>2. CASE Broadcasting
      BY <3>1, <3>2, <1>6, <2>6
    <3>3. CASE release
      <4>1. dump'[d] = "broadcast"
        BY <3>3, <2>1 DEF IInv, TypeOK
      <4>2. Broadcasting'
        BY <4>1 DEF Broadcasting
      <4> QED
        BY <4>2, <3>1, <2>6
    <3>4. CASE ~release /\ Asleep(x)
      <4>1. /\ ~Replied(x) /\ wait_file.inited
            /\ AtLeast(pos[x], wait_file.pos)
        BY <3>4 DEF Asleep
      <4>2. wait_file' = wait_file
        BY <3>4, <2>1
      <4>3. wait_sessions > 0
        <5>1. x \in Waiting
          BY DEF Waiting
        <5> QED
          BY <5>1, WaiterNumber DEF IInv, WaitersCounted
      <4>4. ~AtLeast(replied, wait_file.pos)
        BY <3>4, <4>3
      <4>5. pos[x] \in Nat
        BY SemiSyncAssumption DEF IInv, TypeOK, Position
      <4>6. ~AtLeast(replied, pos[x])
        <5>1. replied \in Nat
          BY <2>2, <2>3
        <5> HIDE DEF replied
        <5> QED
          BY <5>1, <4>1, <4>4, <4>5, <2>3, Order
      <4>7. ~Replied(x)'
        BY <4>6, <2>7, <1>1 DEF Replied
      <4>8. Asleep(x)'
        BY <4>1, <4>2, <4>7, <1>1 DEF Asleep
      <4> QED
        BY <4>8, <3>1, <2>6
    <3> QED
      BY <3>1, <3>2, <3>3, <3>4
  <2>12. TypeOK'
    <3>1. active_tranxs' \in Seq(Position) /\ Len(active_tranxs') <= MaxPos
      BY <2>5, ListBounded
    <3>2. state' \in BOOLEAN
      BY <2>1
    <3>3. wait_file' \in File
      BY <2>1, <2>3, UninitFacts
    <3> QED
      BY <1>1, <1>2, <1>t, <2>7, <3>1, <3>2, <3>3 DEF IInv, TypeOK
  <2> QED
    BY <1>4, <1>5, <2>8, <2>9, <2>10, <2>11, <2>12 DEF IInv
<1> QED
  BY <1>7, <1>8

\* The broadcast behind the unlock.
LEMMA reportReplyBroadcastKeeps ==
  ASSUME IInv, NEW d \in Slaves, reportReplyBroadcast(d)
  PROVE  IInv'
<1>1. /\ dump[d] = "broadcast"
      /\ dump' = [dump EXCEPT ![d] = "idle"]
      /\ pc' = AllWoken
      /\ UNCHANGED <<master_enabled, state, active_tranxs, reply_file,
                     wait_file, commit_file, wait_sessions, clients, aborted,
                     pos, outcome, sent, rpos, recv, logEnd, resetting,
                     toggles, drops, resets>>
  BY DEF reportReplyBroadcast, plugin, log, bounds
<1>2. /\ dump'[d] = "idle" /\ \A x \in Slaves \ {d} : dump'[x] = dump[x]
      /\ dump' \in [Slaves -> {"down", "idle", "await", "report",
                         "broadcast", "broken"}]
  BY <1>1 DEF IInv, TypeOK
<1>3. Connected' = Connected
  BY <1>1, <1>2 DEF Connected
<1>4. /\ Listed' /\ ClientsCounted' /\ ResetCounted' /\ Received'
      /\ Acknowledged' /\ Yes'
  BY <1>1, <1>3 DEF IInv, Listed, ClientsCounted, ResetCounted, Received,
                    Acknowledged, Yes, YesMeansReceived
<1>5. AllProgress'
  <2>1. ASSUME NEW x \in Slaves PROVE Progress(x)'
    BY <1>1, <1>2 DEF IInv, AllProgress, Progress
  <2> QED
    BY <2>1 DEF AllProgress
<1>6. WaitersCounted'
  BY <1>1, WokenFacts, WaitersFrame DEF IInv
<1>7. Sleepers'
  BY <1>1, WokenFacts DEF IInv, Sleepers
<1>8. TypeOK'
  BY <1>1, <1>2, WokenFacts DEF IInv, TypeOK
<1> QED
  BY <1>4, <1>5, <1>6, <1>7, <1>8 DEF IInv

\* The next event is sent.
LEMMA updateSyncHeaderKeeps ==
  ASSUME IInv, NEW d \in Slaves, updateSyncHeader(d)
  PROVE  IInv'
<1>1. /\ dump[d] = "idle" /\ sent[d] < logEnd
      /\ sent' = [sent EXCEPT ![d] = sent[d] + 1]
      /\ \/ dump' = [dump EXCEPT ![d] = "await"]
         \/ dump' = [dump EXCEPT ![d] = "idle"]
      /\ UNCHANGED <<master_enabled, state, active_tranxs, reply_file,
                     wait_file, commit_file, wait_sessions, clients, aborted,
                     pc, pos, outcome, rpos, recv, logEnd, resetting, toggles,
                     drops, resets>>
  BY DEF updateSyncHeader, plugin, sessions, log, bounds
<1>2. /\ dump'[d] \in {"await", "idle"}
      /\ \A x \in Slaves \ {d} : dump'[x] = dump[x]
      /\ dump' \in [Slaves -> {"down", "idle", "await", "report",
                         "broadcast", "broken"}]
  <2>1. CASE dump' = [dump EXCEPT ![d] = "await"]
    BY <2>1 DEF IInv, TypeOK
  <2>2. CASE dump' = [dump EXCEPT ![d] = "idle"]
    BY <2>2 DEF IInv, TypeOK
  <2> QED
    BY <2>1, <2>2, <1>1
<1>3. /\ sent'[d] = sent[d] + 1 /\ \A x \in Slaves \ {d} : sent'[x] = sent[x]
      /\ sent[d] + 1 \in Position /\ sent' \in [Slaves -> Position]
  <2>1. sent[d] \in Position /\ logEnd \in Position
    BY DEF IInv, TypeOK
  <2>2. sent[d] + 1 \in Position
    BY <2>1, <1>1, SemiSyncAssumption DEF Position
  <2> QED
    BY <2>2, <1>1 DEF IInv, TypeOK
<1>4. Connected' = Connected /\ (Broadcasting => Broadcasting')
  BY <1>1, <1>2 DEF Connected, Broadcasting
<1>5. /\ Listed' /\ ClientsCounted' /\ ResetCounted' /\ WaitersCounted'
      /\ Received' /\ Acknowledged' /\ Yes'
  BY <1>1, <1>4 DEF IInv, Listed, ClientsCounted, ResetCounted,
                    WaitersCounted, Waiting, Received, Acknowledged, Yes,
                    YesMeansReceived
<1>6. Sleepers'
  BY <1>1, <1>4 DEF IInv, Sleepers, Asleep, Replied
<1>7. AllProgress'
  <2>1. ASSUME NEW x \in Slaves PROVE Progress(x)'
    <3>1. /\ recv[x] \in Nat /\ sent[x] \in Nat /\ logEnd \in Nat
          /\ Progress(x)
      BY SemiSyncAssumption DEF IInv, TypeOK, Position, AllProgress
    <3>2. CASE x = d
      BY <3>1, <3>2, <1>1, <1>2, <1>3 DEF Progress
    <3>3. CASE x # d
      BY <3>1, <3>3, <1>1, <1>2, <1>3 DEF Progress
    <3> QED
      BY <3>2, <3>3
  <2> QED
    BY <2>1 DEF AllProgress
<1>8. TypeOK'
  BY <1>1, <1>2, <1>3 DEF IInv, TypeOK
<1> QED
  BY <1>5, <1>6, <1>7, <1>8 DEF IInv

\* The slave receives the next event.
LEMMA SlaveReceivesKeeps ==
  ASSUME IInv, NEW d \in Slaves, SlaveReceives(d)
  PROVE  IInv'
<1>1. /\ dump[d] # "down" /\ recv[d] < sent[d]
      /\ recv' = [recv EXCEPT ![d] = recv[d] + 1]
      /\ UNCHANGED <<master_enabled, state, active_tranxs, reply_file,
                     wait_file, commit_file, wait_sessions, clients, aborted,
                     pc, pos, outcome, dump, sent, rpos, logEnd, resetting,
                     toggles, drops, resets>>
  BY DEF SlaveReceives, plugin, sessions, log, bounds
<1>2. recv[d] + 1 \in Position
  <2>1. sent[d] \in Position /\ recv[d] \in Position
    BY DEF IInv, TypeOK
  <2> QED
    BY <2>1, <1>1, SemiSyncAssumption DEF Position
<1>3. /\ recv'[d] = recv[d] + 1 /\ \A x \in Slaves \ {d} : recv'[x] = recv[x]
      /\ recv' \in [Slaves -> Position]
  BY <1>1, <1>2 DEF IInv, TypeOK
<1>4. \A x \in Slaves : recv[x] \in Nat /\ recv'[x] \in Nat /\ recv'[x] >= recv[x]
  <2>1. \A x \in Slaves : recv[x] \in Nat
    BY SemiSyncAssumption DEF IInv, TypeOK, Position
  <2> QED
    BY <2>1, <1>3
<1>5. /\ Listed' /\ ClientsCounted' /\ ResetCounted' /\ WaitersCounted'
      /\ Acknowledged' /\ Sleepers'
  BY <1>1 DEF IInv, Listed, ClientsCounted, Connected, ResetCounted,
              WaitersCounted, Waiting, Acknowledged, Sleepers, Broadcasting,
              Asleep, Replied
<1>6. Received'
  <2> SUFFICES ASSUME resets = 0, reply_file.inited
               PROVE  \E x \in Slaves : reply_file.pos <= recv'[x]
    BY <1>1 DEF Received
  <2>1. PICK x \in Slaves : reply_file.pos <= recv[x]
    BY DEF IInv, Received
  <2>2. reply_file.pos \in Nat
    BY SemiSyncAssumption DEF IInv, TypeOK, File, Position
  <2>3. reply_file.pos <= recv'[x]
    BY <2>1, <2>2, <1>4
  <2> QED
    BY <2>3
<1>7. Yes'
  <2> SUFFICES ASSUME InOrder, resets = 0, NEW s \in Sessions,
                      outcome[s] = "yes"
               PROVE  \E x \in Slaves : recv'[x] >= pos[s]
    BY <1>1 DEF Yes, YesMeansReceived
  <2>1. PICK x \in Slaves : recv[x] >= pos[s]
    BY DEF IInv, Yes, YesMeansReceived
  <2>2. pos[s] \in Nat
    BY SemiSyncAssumption DEF IInv, TypeOK, Position
  <2>3. recv'[x] >= pos[s]
    BY <2>1, <2>2, <1>4
  <2> QED
    BY <2>3
<1>8. AllProgress'
  <2>1. ASSUME NEW x \in Slaves PROVE Progress(x)'
    <3>1. /\ recv[x] \in Nat /\ sent[x] \in Nat /\ logEnd \in Nat
          /\ rpos[x] \in Nat /\ Progress(x)
      BY SemiSyncAssumption DEF IInv, TypeOK, Position, AllProgress
    <3>2. CASE x = d
      BY <3>1, <3>2, <1>1, <1>3 DEF Progress
    <3>3. CASE x # d
      BY <3>1, <3>3, <1>1, <1>3 DEF Progress
    <3> QED
      BY <3>2, <3>3
  <2> QED
    BY <2>1 DEF AllProgress
<1>9. TypeOK'
  BY <1>1, <1>3 DEF IInv, TypeOK
<1> QED
  BY <1>5, <1>6, <1>7, <1>8, <1>9 DEF IInv

\* The reply arrives.
LEMMA readSlaveReplyKeeps ==
  ASSUME IInv, NEW d \in Slaves, readSlaveReply(d)
  PROVE  IInv'
<1>1. /\ dump[d] = "await" /\ recv[d] = sent[d]
      /\ dump' = [dump EXCEPT ![d] = "report"]
      /\ rpos' = [rpos EXCEPT ![d] = sent[d]]
      /\ UNCHANGED <<master_enabled, state, active_tranxs, reply_file,
                     wait_file, commit_file, wait_sessions, clients, aborted,
                     pc, pos, outcome, sent, recv, logEnd, resetting, toggles,
                     drops, resets>>
  BY DEF readSlaveReply, plugin, sessions, log, bounds
<1>2. /\ dump'[d] = "report" /\ rpos'[d] = sent[d]
      /\ \A x \in Slaves \ {d} : dump'[x] = dump[x] /\ rpos'[x] = rpos[x]
      /\ dump' \in [Slaves -> {"down", "idle", "await", "report",
                         "broadcast", "broken"}]
      /\ rpos' \in [Slaves -> Position]
  BY <1>1 DEF IInv, TypeOK
<1>3. Connected' = Connected /\ (Broadcasting => Broadcasting')
  BY <1>1, <1>2 DEF Connected, Broadcasting
<1>4. /\ Listed' /\ ClientsCounted' /\ ResetCounted' /\ WaitersCounted'
      /\ Received' /\ Acknowledged' /\ Yes'
  BY <1>1, <1>3 DEF IInv, Listed, ClientsCounted, ResetCounted,
                    WaitersCounted, Waiting, Received, Acknowledged, Yes,
                    YesMeansReceived
<1>5. Sleepers'
  BY <1>1, <1>3 DEF IInv, Sleepers, Asleep, Replied
<1>6. AllProgress'
  <2>1. ASSUME NEW x \in Slaves PROVE Progress(x)'
    <3>1. recv[x] \in Nat /\ sent[x] \in Nat /\ logEnd \in Nat /\ Progress(x)
      BY SemiSyncAssumption DEF IInv, TypeOK, Position, AllProgress
    <3>2. CASE x = d
      BY <3>1, <3>2, <1>1, <1>2 DEF Progress
    <3>3. CASE x # d
      BY <3>1, <3>3, <1>1, <1>2 DEF Progress
    <3> QED
      BY <3>2, <3>3
  <2> QED
    BY <2>1 DEF AllProgress
<1>7. TypeOK'
  BY <1>1, <1>2 DEF IInv, TypeOK
<1> QED
  BY <1>4, <1>5, <1>6, <1>7 DEF IInv

\* The reply cannot be read.
LEMMA readSlaveReplyFailsKeeps ==
  ASSUME IInv, NEW d \in Slaves, readSlaveReplyFails(d)
  PROVE  IInv'
<1>1. /\ dump[d] = "await" /\ drops < MaxDrops /\ drops' = drops + 1
      /\ dump' = [dump EXCEPT ![d] = "broken"]
      /\ UNCHANGED <<master_enabled, state, active_tranxs, reply_file,
                     wait_file, commit_file, wait_sessions, clients, aborted,
                     pc, pos, outcome, sent, rpos, recv, logEnd, resetting,
                     toggles, resets>>
  BY DEF readSlaveReplyFails, plugin, sessions, log
<1>2. /\ dump'[d] = "broken" /\ \A x \in Slaves \ {d} : dump'[x] = dump[x]
      /\ dump' \in [Slaves -> {"down", "idle", "await", "report",
                               "broadcast", "broken"}]
      /\ drops' \in 0 .. MaxDrops
  BY <1>1, SemiSyncAssumption DEF IInv, TypeOK
<1>3. Connected' = Connected /\ (Broadcasting => Broadcasting')
  BY <1>1, <1>2 DEF Connected, Broadcasting
<1>4. /\ Listed' /\ ClientsCounted' /\ ResetCounted' /\ WaitersCounted'
      /\ Received' /\ Acknowledged' /\ Yes'
  BY <1>1, <1>3 DEF IInv, Listed, ClientsCounted, ResetCounted,
                    WaitersCounted, Waiting, Received, Acknowledged, Yes,
                    YesMeansReceived
<1>5. Sleepers'
  BY <1>1, <1>3 DEF IInv, Sleepers, Asleep, Replied
<1>6. AllProgress'
  BY <1>1, <1>2 DEF IInv, AllProgress, Progress
<1>7. TypeOK'
  BY <1>1, <1>2 DEF IInv, TypeOK
<1> QED
  BY <1>4, <1>5, <1>6, <1>7 DEF IInv

\* A dump thread ends.  When it was the last one and nobody is to wait without
\* slaves, semisync is switched off and everybody is woken.
LEMMA remove_slaveKeeps ==
  ASSUME IInv, NEW d \in Slaves, remove_slave(d)
  PROVE  IInv'
<1>1. /\ dump[d] \in {"idle", "broken"}
      /\ \/ drops' = drops
         \/ drops < MaxDrops /\ drops' = drops + 1
      /\ dump' = [dump EXCEPT ![d] = "down"]
      /\ clients' = clients - 1
      /\ UNCHANGED <<master_enabled, commit_file, wait_sessions, pos, outcome,
                     rpos, recv, logEnd, resetting, toggles, resets>>
      /\ sent' = [sent EXCEPT ![d] = 0]
  BY DEF remove_slave, log
<1>2. /\ dump'[d] = "down"
      /\ \A x \in Slaves \ {d} : dump'[x] = dump[x] /\ sent'[x] = sent[x]
      /\ dump' \in [Slaves -> {"down", "idle", "await", "report",
                         "broadcast", "broken"}]
  BY <1>1 DEF IInv, TypeOK
<1>3. /\ clients' = Cardinality(Connected') /\ clients \in Nat
      /\ clients' \in 0 .. Cardinality(Slaves)
  <2>1. d \in Connected /\ Connected' = Connected \ {d}
    BY <1>1, <1>2 DEF Connected
  <2>2. clients = Cardinality(Connected) /\ clients \in 0 .. Cardinality(Slaves)
    BY SlaveNumber DEF IInv, ClientsCounted
  <2>3. Cardinality(Slaves) \in Nat
    BY FS_CardinalityType, SemiSyncAssumption
  <2> QED
    BY <2>1, <2>2, <2>3, <1>1, SlaveNumber
<1>4. ClientsCounted' /\ ResetCounted' /\ Yes'
  BY <1>1, <1>3 DEF IInv, ClientsCounted, ResetCounted, Yes, YesMeansReceived
<1>5. Broadcasting => Broadcasting'
  BY <1>1, <1>2 DEF Broadcasting
<1>6. AllProgress'
  <2>1. ASSUME NEW x \in Slaves PROVE Progress(x)'
    <3>1. Progress(x)
      BY DEF IInv, AllProgress
    <3>2. CASE x = d
      BY <3>1, <3>2, <1>1, <1>2 DEF Progress
    <3>3. CASE x # d
      BY <3>1, <3>3, <1>1, <1>2 DEF Progress
    <3> QED
      BY <3>2, <3>3
  <2> QED
    BY <2>1 DEF AllProgress
<1>7. drops' \in 0 .. MaxDrops /\ sent' \in [Slaves -> Position]
  BY <1>1, SemiSyncAssumption DEF IInv, TypeOK, Position
<1>s. \/ switch_off /\ pc' = AllWoken
      \/ UNCHANGED <<state, active_tranxs, wait_file, reply_file, aborted, pc>>
  BY DEF remove_slave
<1>8. CASE switch_off /\ pc' = AllWoken
  <2>1. switch_off /\ pc' = AllWoken
    BY <1>8
  <2>2. /\ Listed' /\ state' = FALSE
        /\ reply_file' \in File /\ ~reply_file'.inited
        /\ wait_file' \in File
        /\ aborted' \in {"no", "commitTrx", "switch_off"}
        /\ active_tranxs' = NULL \/ active_tranxs' = <<>>
    BY <1>1, <2>1, SwitchOffFacts DEF IInv
  <2>3. Received' /\ Acknowledged'
    BY <2>2 DEF Received, Acknowledged
  <2>4. WaitersCounted'
    BY <2>1, <1>1, WokenFacts, WaitersFrame DEF IInv
  <2>5. Sleepers'
    BY <2>1, WokenFacts DEF IInv, Sleepers
  <2>6. TypeOK'
    <3>1. \/ active_tranxs' = NULL
          \/ active_tranxs' \in Seq(Position) /\ Len(active_tranxs') <= MaxPos
      BY <2>2, EmptyList
    <3>2. pc' \in [Sessions -> {"idle", "written", "enter", "sleeping",
                                "woken", "timedout"}]
      BY <2>1, WokenFacts DEF IInv
    <3> QED
      BY <1>1, <1>2, <1>3, <1>7, <2>2, <3>1, <3>2 DEF IInv, TypeOK
  <2> QED
    BY <1>4, <1>6, <2>2, <2>3, <2>4, <2>5, <2>6 DEF IInv
<1>9. CASE UNCHANGED <<state, active_tranxs, wait_file, reply_file, aborted, pc>>
  <2>1. UNCHANGED <<state, active_tranxs, wait_file, reply_file, aborted, pc>>
    BY <1>9
  <2>2. Listed' /\ WaitersCounted' /\ Received'
    BY <2>1, <1>1 DEF IInv, Listed, WaitersCounted, Waiting, Received
  <2>3. Acknowledged'
    BY <2>1, <1>1 DEF IInv, Acknowledged
  <2>4. Sleepers'
    BY <2>1, <1>1, <1>5 DEF IInv, Sleepers, Asleep, Replied
  <2>5. TypeOK'
    BY <2>1, <1>1, <1>2, <1>3, <1>7 DEF IInv, TypeOK
  <2> QED
    BY <1>4, <1>6, <2>2, <2>3, <2>4, <2>5 DEF IInv
<1> QED
  BY <1>s, <1>8, <1>9

-----------------------------------------------------------------------------
(* The theorems *)

\* The plugin starts enabled, with no slave and nobody waiting.
LEMMA InitIInv == Init => IInv
<1> SUFFICES ASSUME Init PROVE IInv
  OBVIOUS
<1>1. TypeOK
  <2>1. 0 \in Position /\ NoPos \in File
    BY SemiSyncAssumption DEF Position, NoPos, File
  <2>2. Cardinality(Slaves) \in Nat
    BY FS_CardinalityType, SemiSyncAssumption
  <2>3. active_tranxs \in Seq(Position) /\ Len(active_tranxs) <= MaxPos
    BY EmptyList DEF Init
  <2>4. /\ wait_sessions \in 0 .. Ulong - 1
        /\ clients \in 0 .. Cardinality(Slaves)
        /\ toggles \in 0 .. MaxToggles /\ drops \in 0 .. MaxDrops
        /\ resets \in 0 .. MaxResets
    BY <2>2, SemiSyncAssumption DEF Init
  <2>5. /\ pos \in [Sessions -> Position] /\ sent \in [Slaves -> Position]
        /\ rpos \in [Slaves -> Position] /\ recv \in [Slaves -> Position]
    BY <2>1 DEF Init
  <2> QED
    BY <2>1, <2>3, <2>4, <2>5 DEF Init, TypeOK
<1>2. Listed
  BY NotNull DEF Init, Listed, Sorted, NoPos
<1>3. ClientsCounted
  <2>1. Connected = {}
    BY DEF Init, Connected
  <2> QED
    BY <2>1, FS_EmptySet DEF Init, ClientsCounted
<1>4. WaitersCounted
  <2>1. Waiting = {}
    BY DEF Init, Waiting
  <2> QED
    BY <2>1, FS_EmptySet DEF Init, WaitersCounted
<1>5. ResetCounted /\ Sleepers /\ Received /\ Acknowledged /\ Yes
  BY DEF Init, NoPos, ResetCounted, Sleepers, Received, Acknowledged, Yes,
         YesMeansReceived
<1>6. AllProgress
  BY DEF Init, AllProgress, Progress
<1> QED
  BY <1>1, <1>2, <1>3, <1>4, <1>5, <1>6 DEF IInv

\* Every operation keeps the invariant.
LEMMA NextIInv == IInv /\ [Next]_vars => IInv'
<1> SUFFICES ASSUME IInv, [Next]_vars PROVE IInv'
  OBVIOUS
<1>1. ASSUME NEW s \in Sessions,
             writeTranxInBinlog(s) \/ TimerExpires(s) \/ CommitStep(s)
      PROVE  IInv'
  BY <1>1, writeTranxInBinlogKeeps, TimerExpiresKeeps, commitTrxEnterKeeps,
     commitTrxLockKeeps, commitTrxWokenKeeps, commitTrxTimedOutKeeps
     DEF CommitStep
<1>2. ASSUME NEW d \in Slaves,
             DumpStep(d) \/ readSlaveReplyFails(d) \/ remove_slave(d)
      PROVE  IInv'
  BY <1>2, add_slaveKeeps, reportReplyBinlogKeeps, reportReplyBroadcastKeeps,
     updateSyncHeaderKeeps, SlaveReceivesKeeps, readSlaveReplyKeeps,
     readSlaveReplyFailsKeeps, remove_slaveKeeps DEF DumpStep
<1>3. CASE enableMaster \/ disableMaster \/ reset_logs \/ resetMaster
  BY <1>3, enableMasterKeeps, disableMasterKeeps, reset_logsKeeps,
     resetMasterKeeps
<1>4. CASE UNCHANGED vars
  <2>1. UNCHANGED <<master_enabled, state, active_tranxs, reply_file,
                    wait_file, commit_file, wait_sessions, clients, aborted,
                    pc, pos, outcome, dump, sent, rpos, recv, logEnd,
                    resetting, toggles, drops, resets>>
    BY <1>4 DEF vars, plugin, sessions, slaves, log, bounds
  <2>2. TypeOK' /\ Listed' /\ ClientsCounted' /\ ResetCounted'
    BY <2>1 DEF IInv, TypeOK, Listed, ClientsCounted, Connected, ResetCounted
  <2>3. WaitersCounted' /\ Sleepers' /\ AllProgress'
    BY <2>1 DEF IInv, WaitersCounted, Waiting, Sleepers, Broadcasting, Asleep,
                Replied, AllProgress, Progress
  <2>4. Received' /\ Acknowledged' /\ Yes'
    BY <2>1 DEF IInv, Received, Acknowledged, Yes, YesMeansReceived
  <2> QED
    BY <2>2, <2>3, <2>4 DEF IInv
<1> QED
  BY <1>1, <1>2, <1>3, <1>4 DEF Next

\* The invariant holds in every reachable state of the plugin, with whatever
\* settings: what the counters count, what the list holds, how far the slaves
\* are, and what those who sleep rely on.
THEOREM Invariance == Spec => []IInv
<1>1. Init => IInv
  BY InitIInv
<1>2. IInv /\ [Next]_vars => IInv'
  BY NextIInv
<1> QED
  BY <1>1, <1>2, PTL DEF Spec

\* commitTrx counts a transaction as semisynchronous only if a slave has
\* received it, as long as the names of the log files compare like their
\* numbers.
THEOREM YesMeansReceivedHolds == InOrder => (Spec => []YesMeansReceived)
<1> SUFFICES ASSUME InOrder PROVE Spec => []YesMeansReceived
  OBVIOUS
<1>1. IInv => YesMeansReceived
  BY DEF IInv, Yes
<1> QED
  BY <1>1, Invariance, PTL

\* Nobody sleeps in commitTrx who could go on, in whatever order the positions
\* compare: the reply that covers a sleeper finds it counted and waiting at
\* the wait position or behind it, and broadcasts.
THEOREM NoLostWakeupHolds == Spec => []NoLostWakeup
<1>1. IInv => NoLostWakeup
  <2> SUFFICES ASSUME IInv, resets = 0, NEW s \in Sessions,
                      pc[s] = "sleeping",
                      \A d \in Slaves : dump[d] # "broadcast"
               PROVE  /\ state /\ ~Replied(s)
                      /\ wait_sessions > 0 /\ AtLeast(pos[s], wait_file.pos)
    BY DEF NoLostWakeup
  <2>1. ~Broadcasting
    BY DEF Broadcasting
  <2>2. state /\ Asleep(s)
    BY <2>1 DEF IInv, Sleepers
  <2>3. s \in Waiting
    BY DEF Waiting
  <2>4. wait_sessions > 0
    BY <2>3, WaiterNumber DEF IInv, WaitersCounted
  <2> QED
    BY <2>2, <2>4 DEF Asleep
<1> QED
  BY <1>1, Invariance, PTL

\* The list of active transactions is sorted, empty while semisync is off and
\* without what a slave has acknowledged, whatever SET GLOBAL does to
\* wait_no_slave, as long as the file names compare like their numbers.  What
\* is left out is what ActiveTranxsPending leaves out: the transactions of the
\* new log between the truncation of the log and the hook of RESET MASTER.
THEOREM ActiveTranxsConsistentHolds ==
  InOrder => (Spec => []ActiveTranxsConsistent)
<1> SUFFICES ASSUME InOrder PROVE Spec => []ActiveTranxsConsistent
  OBVIOUS
<1>1. IInv => ActiveTranxsConsistent
  BY DEF IInv, Listed, Sorted, Acknowledged, ActiveTranxsConsistent,
         ActiveTranxsSorted, ActiveTranxsPending
<1> QED
  BY <1>1, Invariance, PTL

\* Sorted and empty while semisync is off is the list in any case: when the
\* names of the log files get longer, and when RESET MASTER starts the log
\* again under the transactions of the old one.
THEOREM ActiveTranxsSortedHolds == Spec => []ActiveTranxsSorted
<1>1. IInv => ActiveTranxsSorted
  BY DEF IInv, Listed, Sorted, ActiveTranxsSorted
<1> QED
  BY <1>1, Invariance, PTL
=============================================================================
