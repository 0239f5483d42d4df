---------------------------- MODULE MCMrtConnections ----------------------------
(* An instance of MrtConnections for TLC: one application sends twice, first   *)
(* two payloads and then one, the other one connects and disconnects meanwhile. *)
EXTENDS MrtConnections, TLC

CONSTANTS talker, visitor
TalkerSends == [a \in Apps |-> IF a = talker THEN <<2, 1>> ELSE <<>>]
===============================================================================
