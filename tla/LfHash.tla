------------------------------- MODULE LfHash -------------------------------
(***************************************************************************)
(* The lock-free hash of mysys/lf_hash.c with its lock-free allocator,     *)
(* mysys/lf_alloc-pin.c: one sorted list of nodes, entered through the     *)
(* dummy nodes of its buckets, whose removed nodes wait in the purgatory   *)
(* of the thread that removed them until no thread has them pinned.        *)
(*                                                                         *)
(* A step is one access to memory that other threads write, with the local *)
(* computation around it; memory is sequentially consistent                *)
(* (my_atomic).  The hash is LF_HASH_UNIQUE, as that of every caller.      *)
(* Addresses are numbers: first the array, whose elements are links like   *)
(* those of nodes, then the dummy nodes, one per thread and bucket, and    *)
(* then the nodes of the allocator.                                        *)
(***************************************************************************)
EXTENDS Integers, Sequences, FiniteSets, SequencesExt, FiniteSetsExt

CONSTANTS Threads,            \* how many threads
          Nodes,              \* bound: how many nodes malloc can provide
          Key,                \* keys, natural numbers
          Bits,               \* width of a hash number
          LF_PURGATORY_SIZE,
          Start,              \* keys in the hash that the runs start from
          Programs,           \* bound: what the first, second... call of each thread may be
          MaxOOM              \* bound: failures of malloc for a dummy node

ASSUME LfHashAssumption ==
  /\ Threads \in Nat /\ Nodes \in Nat /\ Key \subseteq Nat /\ Bits \in Nat
  /\ LF_PURGATORY_SIZE \in Nat \ {0}
  /\ Start \subseteq Key /\ Cardinality(Start) <= Nodes
  /\ MaxOOM \in Nat
  /\ Programs \subseteq [1 .. Threads -> Seq(SUBSET ({"insert", "delete", "search"} \X Key))]

VARIABLES link,           \* LF_SLIST::link, and the array: <<address, DELETED>>
          key,            \* LF_SLIST::key, or the free pointer stored there
          data,           \* the element of a node
          size, count,    \* LF_HASH
          top,            \* LF_ALLOCATOR::top
          malloced,       \* nodes taken from malloc
          lost,           \* nodes that lf_hash_insert forgot
          pin, purgatory, \* per LF_PINS
          pins_in_array, pinstack,
          my_pins,        \* per thread: index of its LF_PINS, or 0
          loc,            \* per thread: where it is, and its local variables
          calls,          \* bound: per thread, the calls that are left of its program
          ooms,           \* counted against MaxOOM
          seen            \* history: see LfSet

nodes == <<link, key, data>>
hash  == <<size, count>>
alloc == <<top, malloced, lost>>
pinbox == <<pins_in_array, pinstack, my_pins>>
bounds == <<calls, ooms>>
allButPin == <<nodes, hash, alloc, purgatory, pinbox, bounds>>
allButLink == <<key, data, hash, alloc, pin, purgatory, pinbox, bounds>>
allButKey == <<link, data, hash, alloc, pin, purgatory, pinbox, bounds>>
shared == <<nodes, hash, alloc, pin, purgatory, pinbox, bounds>>
vars == <<shared, loc, seen>>

Thread == 1 .. Threads
Buckets == 2 ^ Bits
Slot(b) == b
Dummy(b, t) == Buckets * t + b
FirstNode == Buckets * (Threads + 1)
Node == FirstNode .. FirstNode + Nodes - 1
Address == 0 .. FirstNode + Nodes - 1
Null == -1
\* LF_SLIST::key points into the node itself.
Own == -2

\* my_reverse_bits, on hash numbers of Bits bits.
ReverseBits(h) ==
  MapThenSumSet(LAMBDA i : ((h \div 2 ^ i) % 2) * 2 ^ (Bits - 1 - i), 0 .. Bits - 1)
\* my_clear_highest_bit
Parent(b) == IF b = 0 THEN 0 ELSE b - Max({2 ^ i : i \in 0 .. Bits} \cap (1 .. b))
\* calc_hash
Hash(k) == k % Buckets
\* LF_SLIST::hashnr: odd for a normal node, even for a dummy one.
NormalNr(k) == 2 * ReverseBits(Hash(k)) + 1
DummyNr(b) == 2 * ReverseBits(b)
HashNr(n) == IF n \in Node THEN NormalNr(data[n]) ELSE DummyNr(n % Buckets)

\* The list that starts in s, linked through key, and ends with end.
Chained(s, end) ==
  [n \in Node |->
     IF n \notin ToSet(s) THEN key[n]
     ELSE LET i == CHOOSE i \in DOMAIN s : s[i] = n
          IN IF i = Len(s) THEN end ELSE s[i + 1]]

NoLocals == [pc |-> "idle", op |-> "none", k |-> 0, res |-> "none",
             node |-> Null, bucket |-> 0, todo |-> <<>>,
             prev |-> Null, curr |-> Null, next |-> Null, del |-> FALSE,
             cur_hashnr |-> 0, cur_key |-> Own,
             victim |-> Null, ret |-> "none", npins |-> 0, at |-> 0,
             granary |-> {}, chain |-> <<>>, tmp |-> Null, csize |-> 0]

\* A hash as lf_hash_init leaves it.
NewHash ==
  /\ link = [a \in Address |-> <<Null, FALSE>>]
  /\ key = [n \in Node |-> Own]
  /\ data = [n \in Node |-> 0]
  /\ size = 1 /\ count = 0
  /\ top = Null /\ malloced = {}

\* A hash that has grown to four buckets while only the first one was used,
\* and that now holds Start; its other nodes are on the stack.
GrownHash ==
  LET before(j, k) == NormalNr(j) < NormalNr(k) \/ (NormalNr(j) = NormalNr(k) /\ j < k)
      elements == SetToSortSeq(Start, before)
      free == FirstNode + Len(elements)
      link0 == [a \in Address |->
                  CASE a = Slot(0) -> Dummy(0, 1)
                    [] a = Dummy(0, 1) /\ free > FirstNode -> FirstNode
                    [] a \in Node /\ a + 1 < free -> a + 1
                    [] OTHER -> Null]
  IN /\ link = [a \in Address |-> <<link0[a], FALSE>>]
     /\ key = [n \in Node |-> IF n < free THEN Own ELSE IF n + 1 \in Node THEN n + 1 ELSE Null]
     /\ data = [n \in Node |-> IF n < free THEN elements[n - FirstNode + 1] ELSE 0]
     /\ size = 4 /\ count = Len(elements)
     /\ top = (IF free \in Node THEN free ELSE Null) /\ malloced = Node

Init ==
  /\ NewHash \/ GrownHash
  /\ lost = {}
  /\ pin = [p \in Thread |-> [i \in 0 .. 2 |-> Null]]
  /\ purgatory = [p \in Thread |-> <<>>]
  /\ pins_in_array = 0 /\ pinstack = <<>> /\ my_pins = [t \in Thread |-> 0]
  /\ loc = [t \in Thread |-> NoLocals]
  /\ calls \in Programs /\ ooms = 0
  /\ seen = [t \in Thread |-> {}]
-----------------------------------------------------------------------------
At(t, label) == loc[t].pc = label
Become(t, l) == loc' = [loc EXCEPT ![t] = l]
SetPin(t, i, a) == pin' = [pin EXCEPT ![my_pins[t]][i] = a]

\* A step that changes only local variables, or these and one pin.
Local(t, label, l) == At(t, label) /\ Become(t, l) /\ UNCHANGED shared
Pins(t, label, i, a, l) ==
  At(t, label) /\ SetPin(t, i, a) /\ Become(t, l) /\ UNCHANGED allButPin

\* Faulty variant of PointsTo: the flag is not compared.
PointsToAnyFlag(a, n) == link[a][1] = n

\* The word at a is n without the DELETED flag.
PointsTo(a, n) == link[a] = <<n, FALSE>>
Store(a, word) == link' = [link EXCEPT ![a] = word]

\* lfind starts again.
Retry(l) == [l EXCEPT !.pc = "lfind", !.prev = Null, !.curr = Null, !.next = Null, !.del = FALSE]

\* my_atomic_casptr on a link that should be old.
CasLink(t, label, a, old, word, success) ==
  /\ At(t, label)
  /\ IF PointsTo(a, old) THEN Store(a, word) /\ Become(t, success)
                         ELSE Become(t, Retry(loc[t])) /\ UNCHANGED link
  /\ UNCHANGED allButLink

\* _lf_pinbox_get_pins.  The stack of unused pins is popped by a CAS on an
\* index with a version, that is, at once.
lf_pinbox_get_pins(t) ==
  /\ At(t, "idle") /\ my_pins[t] = 0 /\ calls[t] # <<>>
  /\ IF pinstack = <<>>
     THEN /\ pins_in_array' = pins_in_array + 1
          /\ my_pins' = [my_pins EXCEPT ![t] = pins_in_array']
          /\ UNCHANGED pinstack
     ELSE /\ my_pins' = [my_pins EXCEPT ![t] = Head(pinstack)]
          /\ pinstack' = Tail(pinstack)
          /\ UNCHANGED pins_in_array
  /\ UNCHANGED <<nodes, hash, alloc, pin, purgatory, loc, bounds>>

\* A thread ends: destroy_thread calls lf_hash_put_pins.
destroy_thread(t) ==
  my_pins[t] # 0 /\ Local(t, "idle", [NoLocals EXCEPT !.pc = "put"])

\* _lf_pinbox_real_free begins: only the pins known by now will be read.
RealFree(l) == [l EXCEPT !.pc = "harvest", !.npins = pins_in_array]

\* _lf_pinbox_put_pins, until the purgatory is empty.
lf_pinbox_put_pins(t) ==
  /\ At(t, "put")
  /\ IF purgatory[my_pins[t]] # <<>>
     THEN /\ Become(t, RealFree([loc[t] EXCEPT !.ret = "put"]))
          /\ UNCHANGED pinbox
     ELSE /\ pinstack' = <<my_pins[t]>> \o pinstack
          /\ my_pins' = [my_pins EXCEPT ![t] = 0]
          /\ Become(t, NoLocals)
          /\ UNCHANGED pins_in_array
  /\ UNCHANGED <<nodes, hash, alloc, pin, purgatory, bounds>>

\* lf_hash_insert, lf_hash_delete and lf_hash_search begin.
Call(t, op, k) ==
  /\ At(t, "idle") /\ my_pins[t] # 0
  /\ calls[t] # <<>> /\ <<op, k>> \in Head(calls[t])
  /\ calls' = [calls EXCEPT ![t] = Tail(@)]
  /\ Become(t, [NoLocals EXCEPT !.pc = IF op = "insert" THEN "alloc_new" ELSE "bucket",
                                !.op = op, !.k = k, !.res = "pending"])
  /\ UNCHANGED <<nodes, hash, alloc, pin, purgatory, pinbox, ooms>>

Return(t) == Local(t, "return", NoLocals)
-----------------------------------------------------------------------------
(* _lf_alloc_new *)

ReadTop(t) == Local(t, "alloc_new", [loc[t] EXCEPT !.pc = "pin_top", !.node = top])

\* Faulty variant of PinTop: the node is not pinned.
PinNothing(t) == Local(t, "pin_top", [loc[t] EXCEPT !.pc = "check_top"])

PinTop(t) == Pins(t, "pin_top", 0, loc[t].node, [loc[t] EXCEPT !.pc = "check_top"])
CheckTop(t) ==
  LET l == loc[t]
  IN Local(t, "check_top",
           CASE l.node # top -> [l EXCEPT !.pc = "alloc_new", !.node = Null]
             [] l.node = top /\ top = Null -> [l EXCEPT !.pc = "malloc"]
             [] l.node = top /\ top # Null -> [l EXCEPT !.pc = "read_free"])
\* anext_node(node), before the CAS
ReadFree(t) ==
  Local(t, "read_free", [loc[t] EXCEPT !.pc = "pop_cas", !.next = key[loc[t].node]])

\* lf_hash_insert puts the element into its new node; pin 0 is removed.
Fill(t, n) ==
  /\ data' = [data EXCEPT ![n] = loc[t].k]
  /\ key' = [key EXCEPT ![n] = Own]
  /\ SetPin(t, 0, Null)
  /\ Become(t, [loc[t] EXCEPT !.pc = "bucket", !.node = n, !.next = Null])
  /\ UNCHANGED <<link, hash, lost, purgatory, pinbox, bounds>>

Malloc(t) ==
  /\ At(t, "malloc") /\ malloced # Node
  /\ LET n == Min(Node \ malloced)
     IN Fill(t, n) /\ malloced' = malloced \cup {n} /\ UNCHANGED top

MallocFails(t) ==
  malloced = Node /\ Pins(t, "malloc", 0, Null, [loc[t] EXCEPT !.pc = "return", !.res = "oom"])

PopCas(t) ==
  LET l == loc[t]
  IN /\ At(t, "pop_cas")
     /\ IF top = l.node
        THEN top' = l.next /\ Fill(t, l.node) /\ UNCHANGED malloced
        ELSE /\ Become(t, [l EXCEPT !.pc = "alloc_new", !.node = Null, !.next = Null])
             /\ UNCHANGED shared
-----------------------------------------------------------------------------
(* The bucket, and initialize_bucket *)

FindBucket(t) ==
  LET b == Hash(loc[t].k) % size
      l == [loc[t] EXCEPT !.bucket = b]
  IN Local(t, "bucket",
           IF PointsTo(Slot(b), Null)
           THEN [l EXCEPT !.pc = "initialize_bucket", !.todo = <<b>>]
           ELSE [l EXCEPT !.pc = "lfind"])

\* initialize_bucket calls itself for the parent that has no dummy node yet;
\* todo is the stack of the buckets that wait.
initialize_bucket(t) ==
  LET l == loc[t]
      b == Last(l.todo)
  IN Local(t, "initialize_bucket",
           IF PointsTo(Slot(Parent(b)), Null) /\ b # 0
           THEN [l EXCEPT !.todo = Append(@, Parent(b))]
           ELSE [l EXCEPT !.pc = "lfind"])

\* malloc fails: the call returns -1, and lf_hash_insert drops its node.
NoDummy(t) ==
  /\ At(t, "initialize_bucket") /\ ooms < MaxOOM
  /\ ooms' = ooms + 1
  /\ lost' = lost \cup ({loc[t].node} \ {Null})
  /\ Become(t, [loc[t] EXCEPT !.pc = "return", !.res = "oom", !.node = Null, !.todo = <<>>])
  /\ UNCHANGED <<nodes, hash, top, malloced, pin, purgatory, pinbox, calls>>

\* The last CAS of initialize_bucket, then back to what waited for it.
Publish(t) ==
  LET l == loc[t]
      slot == Slot(Last(l.todo))
  IN /\ At(t, "publish")
     /\ IF PointsTo(slot, Null) THEN Store(slot, <<l.curr, FALSE>>) ELSE UNCHANGED link
     /\ Become(t, [l EXCEPT !.pc = "lfind", !.todo = Front(@), !.curr = Null])
     /\ UNCHANGED allButLink
-----------------------------------------------------------------------------
(* lfind: what it looks for depends on who called it *)

Dummies(l) == l.todo # <<>>
Wanted(l) == IF Dummies(l) THEN DummyNr(Last(l.todo)) ELSE NormalNr(l.k)
ListHead(l) == IF Dummies(l) THEN Slot(Parent(Last(l.todo))) ELSE Slot(l.bucket)

\* Where lfind returns to, with the cursor in prev, curr and next.
Found(l) ==
  IF Dummies(l) \/ l.res = "ok" THEN [l EXCEPT !.pc = "unpin"]
  ELSE CASE l.op = "insert" -> [l EXCEPT !.pc = "unpin", !.res = "no"]
         [] l.op = "delete" -> [l EXCEPT !.pc = "mark"]
         [] l.op = "search" -> [l EXCEPT !.pc = "pin_found", !.res = "ok"]
NotFound(l) ==
  IF Dummies(l) \/ l.op = "insert" THEN [l EXCEPT !.pc = "link"]
  ELSE IF l.res = "ok" THEN [l EXCEPT !.pc = "unpin"]
  ELSE [l EXCEPT !.pc = IF l.op = "search" THEN "unpin_01" ELSE "unpin", !.res = "no"]

\* curr has been set and pinned: the end of the list, or its link is next.
Continue(l) == IF l.curr = Null THEN NotFound(l) ELSE [l EXCEPT !.pc = "read_link"]

FindHead(t) ==
  LET l == loc[t]
  IN Local(t, "lfind", [l EXCEPT !.pc = "pin_head", !.prev = ListHead(l),
                                 !.curr = link[ListHead(l)][1]])
PinHead(t) == Pins(t, "pin_head", 1, loc[t].curr, [loc[t] EXCEPT !.pc = "check_head"])
CheckHead(t) ==
  LET l == loc[t]
  IN Local(t, "check_head", IF PointsTo(l.prev, l.curr) THEN Continue(l) ELSE Retry(l))

ReadLink(t) ==
  LET l == loc[t]
  IN Local(t, "read_link", [l EXCEPT !.pc = "pin_next", !.next = link[l.curr][1],
                                     !.del = link[l.curr][2]])
PinNext(t) == Pins(t, "pin_next", 0, loc[t].next, [loc[t] EXCEPT !.pc = "check_link"])
CheckLink(t) ==
  LET l == loc[t]
  IN Local(t, "check_link",
           IF link[l.curr] # <<l.next, l.del>> THEN [l EXCEPT !.pc = "read_link"]
           ELSE [l EXCEPT !.pc = "read_key"])
\* hashnr, key and keylen
ReadKey(t) ==
  LET l == loc[t]
  IN Local(t, "read_key",
           [l EXCEPT !.pc = "check_prev", !.cur_hashnr = HashNr(l.curr),
                     !.cur_key = IF l.curr \in Node THEN key[l.curr] ELSE Own])

\* prev moves on to curr, which pin 2 takes over from pin 1.
Advance(t, l) ==
  SetPin(t, 2, l.curr) /\ Become(t, [l EXCEPT !.pc = "advance", !.prev = l.curr])
Stay(t, l) == UNCHANGED pin /\ Become(t, l)

CheckPrev(t) ==
  LET l == loc[t]
      nr == l.cur_hashnr
      l0 == [l EXCEPT !.cur_key = Own, !.cur_hashnr = 0]
  IN /\ At(t, "check_prev")
     /\ \/ ~PointsTo(l.prev, l.curr) /\ Stay(t, Retry(l0))
        \/ /\ PointsTo(l.prev, l.curr)
           /\ \/ l.del /\ Stay(t, [l0 EXCEPT !.pc = "help"])
              \/ ~l.del /\ nr < Wanted(l) /\ Advance(t, l0)
              \/ ~l.del /\ nr = Wanted(l) /\ Stay(t, [l EXCEPT !.pc = "compare"])
              \/ ~l.del /\ nr > Wanted(l) /\ Stay(t, NotFound(l0))
     /\ UNCHANGED allButPin

\* my_strnncoll, of equal hash numbers: two dummy nodes are always equal.
Compare(t) ==
  LET l == loc[t]
      l0 == [l EXCEPT !.cur_key = Own, !.cur_hashnr = 0]
      r == IF Dummies(l) THEN 0 ELSE data[l.curr] - l.k
  IN /\ At(t, "compare")
     /\ \/ r = 0 /\ Stay(t, Found(l0))
        \/ r > 0 /\ Stay(t, NotFound(l0))
        \/ r < 0 /\ Advance(t, l0)
     /\ UNCHANGED allButPin

\* "be nice, help the other thread and remove this deleted node"
Help(t) ==
  LET l == loc[t]
  IN CasLink(t, "help", l.prev, l.curr, <<l.next, FALSE>>,
             [l EXCEPT !.pc = "free", !.victim = l.curr, !.ret = "advance"])

PinCurr(t) ==
  LET l == [loc[t] EXCEPT !.curr = loc[t].next, !.next = Null, !.del = FALSE, !.ret = "none"]
  IN Pins(t, "advance", 1, l.curr, Continue(l))
-----------------------------------------------------------------------------
(* linsert, ldelete, lsearch: what they do with the cursor *)

\* linsert: the node, or the dummy node of the bucket, goes before curr.
Link(t) ==
  LET l == loc[t]
      new == IF Dummies(l) THEN Dummy(Last(l.todo), t) ELSE l.node
      before == [link EXCEPT ![new] = <<l.curr, FALSE>>]
  IN /\ At(t, "link")
     /\ IF PointsTo(l.prev, l.curr)
        THEN /\ link' = [before EXCEPT ![l.prev] = <<new, FALSE>>]
             /\ Become(t, IF Dummies(l) THEN [l EXCEPT !.pc = "unpin", !.curr = new]
                          ELSE [l EXCEPT !.pc = "unpin", !.node = Null, !.res = "ok"])
        ELSE link' = before /\ Become(t, Retry(l))
     /\ UNCHANGED allButLink

\* ldelete: "mark the node deleted"
Mark(t) ==
  LET l == loc[t]
  IN CasLink(t, "mark", l.curr, l.next, <<l.next, TRUE>>,
             [l EXCEPT !.pc = "unlink", !.res = "ok"])

\* "and remove it from the list", or look for it once more.
Unlink(t) ==
  LET l == loc[t]
  IN CasLink(t, "unlink", l.prev, l.curr, <<l.next, FALSE>>,
             [l EXCEPT !.pc = "free", !.victim = l.curr, !.ret = "unpin"])

\* linsert and ldelete return, to initialize_bucket, lf_hash_insert (which
\* frees a node that it could not insert) or lf_hash_delete.
AfterUnpin(l) ==
  LET l0 == [Retry(l) EXCEPT !.ret = "none"]
  IN IF Dummies(l) THEN [l0 EXCEPT !.pc = "publish", !.curr = l.curr]
     ELSE CASE l.res = "ok" /\ l.op = "insert" -> [l0 EXCEPT !.pc = "csize"]
            [] l.res = "ok" /\ l.op = "delete" -> [l0 EXCEPT !.pc = "count"]
            [] l.res = "no" /\ l.op = "insert" ->
                 [l0 EXCEPT !.pc = "free", !.victim = l.node, !.node = Null, !.ret = "return"]
            [] l.res = "no" /\ l.op = "delete" -> [l0 EXCEPT !.pc = "return"]

Unpin(t) ==
  /\ At(t, "unpin")
  /\ pin' = [pin EXCEPT ![my_pins[t]] = [i \in 0 .. 2 |-> Null]]
  /\ Become(t, AfterUnpin(loc[t]))
  /\ UNCHANGED allButPin

\* lsearch keeps what it found in pin 2.
PinFound(t) ==
  Pins(t, "pin_found", 2, loc[t].curr, [loc[t] EXCEPT !.pc = "unpin_01"])

Unpin01(t) ==
  LET l == loc[t]
  IN /\ At(t, "unpin_01")
     /\ pin' = [pin EXCEPT ![my_pins[t]][0] = Null, ![my_pins[t]][1] = Null]
     /\ Become(t, [Retry(l) EXCEPT !.pc = "found", !.curr = IF l.res = "ok" THEN l.curr ELSE Null])
     /\ UNCHANGED allButPin

\* Faulty variant of lf_hash_search_unpin: the pin stays.
SearchPinned(t) == Local(t, "found", [loc[t] EXCEPT !.pc = "return", !.curr = Null])

\* The caller, find_or_create_file, has used what was found, if anything was.
lf_hash_search_unpin(t) ==
  Pins(t, "found", 2, Null, [loc[t] EXCEPT !.pc = "return", !.curr = Null])

ReadCsize(t) ==
  Local(t, "csize", [loc[t] EXCEPT !.pc = "count", !.csize = size])

\* The number of elements; an insertion may double the number of buckets.
Count(t) ==
  LET l == loc[t]
  IN /\ At(t, "count")
     /\ \/ /\ l.op = "insert"
           /\ count' = count + 1
           /\ size' = IF count' > l.csize /\ size = l.csize THEN 2 * size ELSE size
        \/ /\ l.op = "delete"
           /\ count' = count - 1
           /\ UNCHANGED size
     /\ Become(t, [l EXCEPT !.pc = "return", !.csize = 0])
     /\ UNCHANGED <<nodes, alloc, pin, purgatory, pinbox, bounds>>
-----------------------------------------------------------------------------
(* _lf_pinbox_free, _lf_pinbox_real_free, alloc_free *)

lf_pinbox_free(t) ==
  LET l == loc[t]
      p == my_pins[t]
      list == <<l.victim>> \o purgatory[p]
  IN /\ At(t, "free")
     /\ key' = Chained(list, Null)
     /\ purgatory' = [purgatory EXCEPT ![p] = list]
     /\ LET l0 == [l EXCEPT !.victim = Null]
        IN Become(t, IF Len(list) % LF_PURGATORY_SIZE # 0 THEN RealFree(l0)
                     ELSE [l0 EXCEPT !.pc = l.ret])
     /\ UNCHANGED <<link, data, hash, alloc, pin, pinbox, bounds>>

\* Faulty variant of HarvestOrder: against the direction in which pins move.
HarvestDown(i) == 2 - i

\* The order in which harvest_pins reads the pins of a thread.
HarvestOrder(i) == i

harvest_pins(t) ==
  LET l == loc[t]
      p == pin[l.at \div 3 + 1][HarvestOrder(l.at % 3)]
  IN Local(t, "harvest",
           [l EXCEPT !.at = @ + 1, !.granary = @ \cup ({p} \cap Node),
                                !.pc = IF l.at + 1 = 3 * l.npins THEN "scan" ELSE @])

\* The purgatory is divided into what somebody has pinned and what nobody has.
ScanPurgatory(t) ==
  LET l == loc[t]
      p == my_pins[t]
      keep == Reverse(SelectSeq(purgatory[p], LAMBDA n : n \in l.granary))
      free == SelectSeq(purgatory[p], LAMBDA n : n \notin l.granary)
  IN /\ At(t, "scan")
     /\ purgatory' = [purgatory EXCEPT ![p] = keep]
     /\ Become(t, [l EXCEPT !.pc = IF free = <<>> THEN l.ret ELSE "alloc_free",
                            !.chain = free, !.granary = {}, !.at = 0, !.npins = 0])
     /\ key' = Chained(keep, Null)
     /\ UNCHANGED <<link, data, hash, alloc, pin, pinbox, bounds>>

AllocFree(t) ==
  /\ At(t, "alloc_free")
  /\ key' = Chained(loc[t].chain, top)
  /\ Become(t, [loc[t] EXCEPT !.pc = "push_cas", !.tmp = top])
  /\ UNCHANGED allButKey

PushCas(t) ==
  LET l == loc[t]
  IN /\ At(t, "push_cas")
     /\ IF top = l.tmp
        THEN /\ top' = Head(l.chain)
             /\ Become(t, [l EXCEPT !.pc = l.ret, !.chain = <<>>, !.tmp = Null])
             /\ UNCHANGED key
        ELSE /\ key' = Chained(l.chain, top)
             /\ Become(t, [l EXCEPT !.tmp = top])
             /\ UNCHANGED top
     /\ UNCHANGED <<link, data, hash, malloced, lost, pin, purgatory, pinbox, bounds>>
-----------------------------------------------------------------------------
\* The nodes reachable from the first bucket, and the keys that the hash holds.
List ==
  LET from[a \in Address \cup {Null}] ==
        IF a = Null THEN {} ELSE {a} \cup from[link[a][1]]
  IN from[Slot(0)]
Members == {data[n] : n \in {m \in List \cap Node : ~link[m][2]}}

Observe ==
  LET members == Members'
  IN seen' = [t \in Thread |-> IF loc'[t].res # "pending" THEN {}
                                ELSE seen[t] \cup {loc'[t].k \in members}]

\* The steps of a thread that is in a call or gives its pins back.
Step(t) ==
  \/ lf_pinbox_put_pins(t) \/ Return(t)
  \/ ReadTop(t) \/ PinTop(t) \/ CheckTop(t) \/ ReadFree(t) \/ Malloc(t) \/ MallocFails(t) \/ PopCas(t)
  \/ FindBucket(t) \/ initialize_bucket(t) \/ NoDummy(t) \/ Publish(t)
  \/ FindHead(t) \/ PinHead(t) \/ CheckHead(t) \/ ReadLink(t) \/ PinNext(t)
  \/ CheckLink(t) \/ ReadKey(t) \/ CheckPrev(t) \/ Compare(t) \/ Help(t) \/ PinCurr(t)
  \/ Link(t) \/ Mark(t) \/ Unlink(t) \/ Unpin(t) \/ PinFound(t) \/ Unpin01(t)
  \/ lf_hash_search_unpin(t) \/ ReadCsize(t) \/ Count(t)
  \/ lf_pinbox_free(t) \/ harvest_pins(t) \/ ScanPurgatory(t)
  \/ AllocFree(t) \/ PushCas(t)

Begin(t) ==
  \/ lf_pinbox_get_pins(t)
  \/ destroy_thread(t)
  \/ \E op \in {"insert", "delete", "search"}, k \in Key : Call(t, op, k)

Next == \E t \in Thread : (Step(t) \/ Begin(t)) /\ Observe

Spec == Init /\ [][Next]_vars

\* A thread that is inside the hash goes on; nobody has to start a call.  This is
\* weak fairness of Step(t), since some Step(t) is enabled as long as t is inside
\* the hash, and each changes loc[t].
FairSpec ==
  Spec /\ \A t \in Thread : []<>(loc[t].pc = "idle") \/ []<><<TRUE>>_(loc[t])
-----------------------------------------------------------------------------

\* What can be reached from top in i steps, over as many as there are nodes.
FreeStack ==
  LET reach[i \in 0 .. Nodes] ==
        IF i = 0 THEN {top} ELSE reach[i - 1] \cup {key[n] : n \in reach[i - 1] \cap Node}
  IN reach[Nodes] \cap Node

\* Nodes that only thread t knows of: allocated and not yet inserted, or
\* removed from the list and not yet in the purgatory or on the stack.
Held(t) ==
  LET l == loc[t]
      new == IF l.pc \in {"pin_top", "check_top", "read_free", "pop_cas"} THEN {} ELSE {l.node}
  IN (new \cup {l.victim} \cup ToSet(l.chain)) \ {Null}

\* Every node is in exactly one place: never allocated, in the list, on the
\* stack of the allocator, in one purgatory, in the hands of one thread, or
\* lost by a failed insertion.
OnePlace ==
  \A n \in Node :
    1 = Cardinality({t \in Thread : n \in Held(t)})
        + Cardinality({p \in DOMAIN purgatory : n \in ToSet(purgatory[p])})
        + Cardinality({x \in {Node \ malloced, List, FreeStack, lost} : n \in x})

\* A pinned element keeps its content: the key that lfind compares has not
\* been overwritten by the free pointer since it was read, and what a search
\* has found stays what it was until the caller unpins it.
PinnedStays ==
  \A t \in Thread :
    LET l == loc[t]
    IN /\ l.pc = "compare" => l.cur_key = Own
       /\ l.pc = "found" /\ l.res = "ok" =>
            data[l.curr] = l.k /\ l.curr \notin FreeStack \cup UNION {ToSet(loc[u].chain) : u \in Thread}

\* lf_hash_destroy follows links without taking the DELETED flag off: when no
\* call is in progress, "the number of "set DELETED flag" actions is equal to
\* the number of "remove from the list" actions", and count is exact.
CleanWhenQuiet ==
  (\A t \in Thread : loc[t].op = "none") =>
    /\ \A n \in List : ~link[n][2]
    /\ count = Cardinality(List \cap Node)

NodesSafe == OnePlace /\ PinnedStays /\ CleanWhenQuiet

AbstractCall == [t \in Thread |-> [op |-> loc[t].op, key |-> loc[t].k, res |-> loc[t].res]]
Abstract == INSTANCE LfSet WITH set <- Members, call <- AbstractCall

\* The hash is a linearizable set.
LinearizableSet == Abstract!Spec

\* Every call returns and every thread that gives its pins back is rid of
\* them, although both retry for as long as others interfere.
CallReturns == \A t \in Thread : loc[t].pc # "idle" ~> loc[t].pc = "idle"
=============================================================================
