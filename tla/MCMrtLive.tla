------------------------------- MODULE MCMrtLive -------------------------------
(* Instances of MrtLive for TLC. *)
EXTENDS MrtLive, TLC
===============================================================================
