---------------------------- MODULE AtomicCommit ----------------------------
(***************************************************************************)
(* What two-phase commit between the binary log and InnoDB promises, seen  *)
(* from outside: every transaction is decided once, the answer its client  *)
(* gets and what the engine has durably done with it agree with the        *)
(* decision, and none of the three is ever taken back, crashes included.   *)
(* One step may decide several transactions, as a crash does.              *)
(***************************************************************************)
CONSTANT Txn

VARIABLES decision,     \* what the coordinator's log says
          reply,        \* what ha_commit_trans returned to the client
          applied       \* what the engine has made durable

vars == <<decision, reply, applied>>

Verdict == {"none", "commit", "abort"}

TypeOK == /\ decision \in [Txn -> Verdict]
          /\ reply \in [Txn -> Verdict]
          /\ applied \in [Txn -> Verdict]

Init == /\ decision = [t \in Txn |-> "none"]
        /\ reply = [t \in Txn |-> "none"]
        /\ applied = [t \in Txn |-> "none"]

\* A step may only give values to what had none, and they agree.
Step(t) ==
    /\ decision[t] # "none" => decision'[t] = decision[t]
    /\ reply'[t] = reply[t] \/ (reply[t] = "none" /\ reply'[t] = decision'[t])
    /\ applied'[t] = applied[t]
          \/ (applied[t] = "none" /\ applied'[t] = decision'[t])

Next == TypeOK' /\ \A t \in Txn : Step(t)

Spec == Init /\ [][Next]_vars
=============================================================================
