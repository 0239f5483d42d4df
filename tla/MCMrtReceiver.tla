----------------------------- MODULE MCMrtReceiver -----------------------------
(* Instances of MrtReceiverEnv for TLC. *)
EXTENDS MrtReceiverEnv, TLC

Symmetry == Permutations(Addrs) \cup Permutations(SenderIds)
===============================================================================
