--------------------------------- MODULE MCStun ---------------------------------
(* An instance of Stun for TLC: two addresses of stun.voipstunt.com and one    *)
(* of Google.                                                                  *)
EXTENDS Stun, Bitwise

VoipStunt == {[ip |-> <<19784, 43474>>, port |-> 3478], [ip |-> <<19784, 43476>>, port |-> 3478]}
Google == {[ip |-> <<44482, 51071>>, port |-> 19302]}
Original == [ip |-> <<19784, 43474>>, port |-> 3478]
Translated == <<8466, 7>>
TwoHosts == <<"stun.voipstunt.com", "stun.l.google.com">>
Lookup == [h \in {"stun.voipstunt.com", "stun.l.google.com"} |->
             SetToSeq(IF h = "stun.voipstunt.com" THEN VoipStunt ELSE Google)]

\* One external port for each client and destination; NoAddress: for a cone.
Ports ==
  LET servers == SetToSeq(VoipStunt \cup Google \cup {NoAddress})
      index(s) == CHOOSE k \in DOMAIN servers : servers[k] = s
  IN  [x \in Clients \X ToSet(servers) |-> x[1] + 8466 + index(x[2])]

ExclusiveOr(a, b) == a ^^ b

NoWords == [k \in 1 .. 12 |-> <<0, 0>>]
===============================================================================
