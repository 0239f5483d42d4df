----------------------------- MODULE StunConeLevel -----------------------------
(***************************************************************************)
(* stun_cone_level.c: asks one server to answer from another port, and     *)
(* from another address and port, each twice, and tells from where the     *)
(* answers come that got through what the NAT lets in.                     *)
(***************************************************************************)
EXTENDS StunNat, StunWalk

CONSTANTS original_server,          \* 77.72.169.210:3478
          num_cone_expected         \* num_response_expected of this program

VARIABLES cone_main,     \* -1 before the test, then the number of requests sent
          cone_i,        \* response_handler: the responses counted
          cone_buffer,   \* response_handler: response_buffer
          verdicts       \* what was printed: [level, address]
coneVars == <<cone_main, cone_i, cone_buffer, verdicts>>

STUN_CLIENT_PORT_CONE == 7878

ConeInit ==
  /\ cone_main = -1
  /\ cone_i = 0 /\ cone_buffer = Zeros
  /\ verdicts = {}

StartCone ==
  /\ cone_main = -1
  /\ cone_main' = 0
  /\ UNCHANGED <<cone_i, cone_buffer, verdicts>>

\* Mutant: build_both_spoof() sets the bit for the port only.
Spoofs_PortOnly == <<"port", "port", "port", "port">>

\* The requests in order, built in request_buffer.
Spoofs == <<"port", "port", "both", "both">>

SendSpoof ==
  /\ cone_main \in 0 .. Len(Spoofs) - 1
  /\ cone_main' = cone_main + 1
  /\ Send([client |-> STUN_CLIENT_PORT_CONE, to |-> original_server,
           change |-> Spoofs[cone_main'], id |-> cone_main'])
  /\ UNCHANGED <<nat, responses, disturbed, cone_i, cone_buffer, verdicts>>

\* Mutant: the address of the sender is not looked at.
Level_NoIp(from) == IF from.port = original_server.port THEN "none" ELSE "full"

\* What a MAPPED-ADDRESS in a response from `from' makes the program print.
Level(from) ==
  IF from.port = original_server.port THEN "none"
  ELSE IF from.ip # original_server.ip THEN "full" ELSE "restricted"

HandleConeResponse(r) ==
  /\ cone_main >= 0 /\ cone_i < num_cone_expected
  /\ r.client = STUN_CLIENT_PORT_CONE /\ Take(r)
  /\ cone_i' = cone_i + 1
  /\ cone_buffer' = Receive(cone_buffer, r.words)
  /\ LET at == IF r.type = "success" THEN ToSet(Visits(cone_buffer', 4 * Len(r.words))) ELSE {}
         mapped == {offset \in at : TypeAt(cone_buffer', offset) = MAPPED_ADDRESS}
     IN  verdicts' = verdicts \cup
           {[level |-> Level(r.from), address |-> AddressAt(cone_buffer', offset)] :
              offset \in {o \in mapped : Level(r.from) # "none"}}
  /\ UNCHANGED <<nat, requests, cone_main>>

ConeStep == SendSpoof \/ \E r \in responses : HandleConeResponse(r)

\* Nothing is left to send or to read.
ConeRead == cone_main = Len(Spoofs) /\ Quiet(STUN_CLIENT_PORT_CONE)

\* The program says no more: it has counted what it expects and ends, or it waits
\* for responses and none is left.
ConeOver == cone_i >= num_cone_expected \/ ConeRead
===============================================================================
