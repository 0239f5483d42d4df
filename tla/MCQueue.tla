-------------------------------- MODULE MCQueue --------------------------------
(* Instances of Queue for TLC. *)
EXTENDS Queue, TLC

Symmetry == Permutations(Nodes) \cup Permutations(Items) \cup Permutations(Numbers)
===============================================================================
