------------------------------ MODULE MCMrtRestart ------------------------------
(* Instances of MrtRestart for TLC. *)
EXTENDS MrtRestart, TLC
===============================================================================
