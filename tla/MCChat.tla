--------------------------------- MODULE MCChat ---------------------------------
(* Instances of Chat for TLC. *)
EXTENDS Chat, TLC

CONSTANTS ann, joe

\* One client has a name of its own, or all have the same name.
SomeUsernames ==
  {[c \in Clients |-> IF c = one THEN name ELSE ann] :
     one \in {CHOOSE c \in Clients : TRUE}, name \in Names}

Symmetry == Permutations(Clients)
===============================================================================
