----------------------------- MODULE MCBinlogTC -----------------------------
(* Two-phase commit with the binary log as coordinator, for TLC. *)
EXTENDS BinlogTC, TLC

TxnSymmetry == Permutations(Txn)
=============================================================================
