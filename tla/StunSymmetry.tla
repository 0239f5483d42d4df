------------------------------ MODULE StunSymmetry ------------------------------
(***************************************************************************)
(* stun_symmetry.c: asks every address of every STUN server it knows, and  *)
(* compares the mapped addresses of the first num_response_expected        *)
(* responses.  The main thread sends; response_handler() receives.         *)
(***************************************************************************)
EXTENDS StunNat, StunWalk

CONSTANTS Hosts,                 \* the names of main(), in order
          AddressesOf,           \* what getaddrinfo() finds for a name
          num_response_expected

VARIABLES to_resolve,               \* main: the names it has not come to
          infos,                    \* send_request_to: the addresses it has not come to
          i,                        \* response_handler: the responses counted
          response_buffer,
          nat_holder,               \* nat_ipv4_holder and nat_port_holder
          is_behind_symmetric_nat,
          heard                     \* history: the servers whose address it looked at
symmetryVars == <<to_resolve, infos, i, response_buffer, nat_holder, is_behind_symmetric_nat, heard>>

STUN_CLIENT_PORT == 4242
NoAddress == [ip |-> <<0, 0>>, port |-> 0]

SymmetryInit ==
  /\ to_resolve = Hosts /\ infos = <<>>
  /\ i = 0
  /\ response_buffer = Zeros
  /\ nat_holder = NoAddress
  /\ is_behind_symmetric_nat = FALSE
  /\ heard = {}

Running == i < num_response_expected

sendVars == <<to_resolve, infos>>
handlerVars == <<i, response_buffer, nat_holder, is_behind_symmetric_nat, heard>>

\* getaddrinfo(): a name that cannot be resolved is skipped.
Resolve ==
  /\ infos = <<>> /\ to_resolve # <<>>
  /\ to_resolve' = Tail(to_resolve)
  /\ \/ infos' = AddressesOf[Head(to_resolve)] /\ UNCHANGED disturbed
     \/ infos' = <<>> /\ disturbed' = disturbed \cup {"unresolved"}
  /\ UNCHANGED <<nat, requests, responses, handlerVars>>

SendRequest ==
  /\ infos # <<>>
  /\ Send([client |-> STUN_CLIENT_PORT, to |-> Head(infos), change |-> "none", id |-> 0])
  /\ infos' = Tail(infos)
  /\ UNCHANGED <<nat, responses, disturbed, to_resolve, handlerVars>>

\* Mutant: a masked address is taken as it is.
AttributeAddress_Masked(buffer, offset) == AddressAt(buffer, offset)

\* The address in the attribute at `offset': plain, or unmasked.
AttributeAddress(buffer, offset) ==
  IF TypeAt(buffer, offset) = XOR_MAPPED_ADDRESS THEN XorAddress(AddressAt(buffer, offset))
  ELSE AddressAt(buffer, offset)

\* Mutant: XOR-MAPPED-ADDRESS is not known.
Found_PlainOnly(buffer, num_bytes_attributes) ==
  LET visits == Visits(buffer, num_bytes_attributes)
      mapped == {k \in DOMAIN visits : TypeAt(buffer, visits[k]) = MAPPED_ADDRESS}
  IN  [k \in mapped |-> AttributeAddress(buffer, visits[k])]

\* The addresses the loop finds in a response, by the round it finds them in.
Found(buffer, num_bytes_attributes) ==
  LET visits == Visits(buffer, num_bytes_attributes)
      types == {MAPPED_ADDRESS, XOR_MAPPED_ADDRESS}
      mapped == {k \in DOMAIN visits : TypeAt(buffer, visits[k]) \in types}
  IN  [k \in mapped |-> AttributeAddress(buffer, visits[k])]

\* nat_ipv4_holder and nat_port_holder after the loop: the first address ever seen.
Holder(found) ==
  IF nat_holder = NoAddress /\ DOMAIN found # {}
    THEN found[CHOOSE k \in DOMAIN found : \A l \in DOMAIN found : k <= l]
    ELSE nat_holder

\* Mutant: the ports are not compared.
HandleResponse_IpOnly(r) ==
  /\ Running /\ r.client = STUN_CLIENT_PORT /\ Take(r)
  /\ i' = i + 1
  /\ response_buffer' = Receive(response_buffer, r.words)
  /\ LET found == IF r.type = "success" THEN Found(response_buffer', 4 * Len(r.words)) ELSE <<>>
         first == Holder(found)
     IN  /\ nat_holder' = first
         /\ is_behind_symmetric_nat' =
              (is_behind_symmetric_nat \/ \E k \in DOMAIN found : found[k].ip # first.ip)
  /\ heard' = IF r.type = "success" THEN heard \cup {r.to} ELSE heard
  /\ UNCHANGED <<nat, requests, sendVars>>

\* Mutant: an error does not count as a response.
HandleResponse_ErrorsFree(r) ==
  /\ Running /\ r.client = STUN_CLIENT_PORT /\ Take(r)
  /\ i' = IF r.type = "success" THEN i + 1 ELSE i
  /\ response_buffer' = Receive(response_buffer, r.words)
  /\ LET found == IF r.type = "success" THEN Found(response_buffer', 4 * Len(r.words)) ELSE <<>>
         first == Holder(found)
     IN  /\ nat_holder' = first
         /\ is_behind_symmetric_nat' =
              (is_behind_symmetric_nat \/ \E k \in DOMAIN found : found[k] # first)
  /\ heard' = IF r.type = "success" THEN heard \cup {r.to} ELSE heard
  /\ UNCHANGED <<nat, requests, sendVars>>

\* One round of response_handler(): the first address ever seen is kept, every
\* other one compared with it.  Every response counts, errors too.
HandleResponse(r) ==
  /\ Running /\ r.client = STUN_CLIENT_PORT /\ Take(r)
  /\ i' = i + 1
  /\ response_buffer' = Receive(response_buffer, r.words)
  /\ LET found == IF r.type = "success" THEN Found(response_buffer', 4 * Len(r.words)) ELSE <<>>
         first == Holder(found)
     IN  /\ nat_holder' = first
         /\ is_behind_symmetric_nat' =
              (is_behind_symmetric_nat \/ \E k \in DOMAIN found : found[k] # first)
  /\ heard' = IF r.type = "success" THEN heard \cup {r.to} ELSE heard
  /\ UNCHANGED <<nat, requests, sendVars>>

SymmetryStep == Resolve \/ SendRequest \/ \E r \in responses : HandleResponse(r)

\* The program has ended, or it waits for responses and none is left.
SymmetryOver ==
  /\ to_resolve = <<>> /\ infos = <<>>
  /\ ~ Running \/ Quiet(STUN_CLIENT_PORT)
===============================================================================
