-------------------------------- MODULE LfSet --------------------------------
(***************************************************************************)
(* What the lock-free hash of mysys/lf_hash.c promises its callers: a set  *)
(* of keys on which concurrent lf_hash_insert, lf_hash_delete and          *)
(* lf_hash_search calls take effect at one moment between their start and  *)
(* their end.  A call that changes nothing (a duplicate insert, a delete   *)
(* or a search that finds nothing, a search that finds something) must be  *)
(* right about a moment of its own duration, not about the present one:    *)
(* seen remembers whether the key was in the set at some time since the    *)
(* call began.                                                             *)
(***************************************************************************)
CONSTANTS Thread, Key

VARIABLES set,     \* the keys that are in the hash
          call,    \* per thread: the call in progress and its answer
          seen     \* per thread: has the key been in the set, has it not

vars == <<set, call, seen>>

NoCall == [op |-> "none", key |-> 0, res |-> "none"]
Pending(c) == c.res = "pending"

Init == /\ set \subseteq Key
        /\ call = [t \in Thread |-> NoCall]
        /\ seen = [t \in Thread |-> {}]

Observe ==
  seen' = [t \in Thread |->
             IF Pending(call'[t]) THEN seen[t] \cup {call'[t].key \in set'} ELSE {}]

Call(t) ==
  /\ call[t] = NoCall
  /\ \E op \in {"insert", "delete", "search"}, k \in Key :
       call' = [call EXCEPT ![t] = [op |-> op, key |-> k, res |-> "pending"]]
  /\ UNCHANGED set

\* The answer, and what it says about the set.
Answer(t, res) ==
  LET c == call[t]
      present == TRUE \in seen[t]
      absent == FALSE \in seen[t]
  IN /\ Pending(c)
     /\ call' = [call EXCEPT ![t].res = res]
     /\ \/ res = "ok" /\ c.op = "insert" /\ c.key \notin set /\ set' = set \cup {c.key}
        \/ res = "ok" /\ c.op = "delete" /\ c.key \in set /\ set' = set \ {c.key}
        \/ res = "ok" /\ c.op = "search" /\ present /\ UNCHANGED set
        \/ res = "no" /\ c.op = "insert" /\ present /\ UNCHANGED set
        \/ res = "no" /\ c.op \in {"delete", "search"} /\ absent /\ UNCHANGED set
        \/ res = "oom" /\ UNCHANGED set

Return(t) ==
  /\ call[t].res \in {"ok", "no", "oom"}
  /\ call' = [call EXCEPT ![t] = NoCall]
  /\ UNCHANGED set

Next == \E t \in Thread :
          /\ Call(t) \/ Return(t) \/ \E res \in {"ok", "no", "oom"} : Answer(t, res)
          /\ Observe

Spec == Init /\ [][Next]_vars
=============================================================================
