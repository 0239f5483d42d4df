-------------------------------- MODULE StunNat --------------------------------
(***************************************************************************)
(* What lies between the two programs of lab4 and the STUN servers: the    *)
(* NAT of the user, which is what the programs are to find out, the        *)
(* servers, and UDP, which loses, duplicates and reorders.  None of it is  *)
(* code under src/lab4; the layout of the answers is that of the captures  *)
(* kept beside the code (test_symmetry.pcapng): a server of the old kind   *)
(* (RFC 3489) sends MAPPED-ADDRESS, SOURCE-ADDRESS and CHANGED-ADDRESS, a  *)
(* new one (RFC 5389) XOR-MAPPED-ADDRESS.                                  *)
(*                                                                         *)
(* A message is a sequence of 32-bit words, a word a pair of 16-bit        *)
(* halves; an address is [ip, port] where `ip' is a word.                  *)
(***************************************************************************)
EXTENDS Integers, Sequences

CONSTANTS OldServers,    \* the addresses of the servers of the old kind
          NewServers,    \* and of the new kind
          NatIp,         \* the external address of the NAT
          ExternalPort,  \* [client, server]: the port a symmetric NAT would use
          XOR(_, _)      \* the exclusive or of two halves

VARIABLES nat,        \* the kind of NAT, which never changes
          requests,   \* the requests in flight
          responses,  \* the responses in flight, inside of the NAT
          disturbed   \* history: what went wrong in this test, of Disturbances
natVars == <<nat, requests, responses, disturbed>>

Disturbances == {"lost", "refused", "repeated", "unresolved"}

NatKinds == {"full", "restricted", "port_restricted", "symmetric"}
Servers == OldServers \cup NewServers

MAPPED_ADDRESS     == 1
SOURCE_ADDRESS     == 4
CHANGED_ADDRESS    == 5
XOR_MAPPED_ADDRESS == 32
Cookie == <<8466, 42050>>   \* 0x2112A442

\* The mapped address: one of each client socket, or one of each destination.
Mapped(client, server) ==
  [ip |-> NatIp,
   port |-> ExternalPort[<<client, IF nat = "symmetric" THEN server ELSE [ip |-> <<0, 0>>, port |-> 0]>>]]

\* A packet from `from' to what `server' sees as the client.
LetsIn(server, from) ==
  CASE nat = "full"       -> TRUE
    [] nat = "restricted" -> from.ip = server.ip
    [] OTHER              -> from = server

Attribute(type, address) == << <<type, 8>>, <<1, address.port>>, address.ip >>

XorWord(word) == <<XOR(word[1], Cookie[1]), XOR(word[2], Cookie[2])>>
XorAddress(address) == [ip |-> XorWord(address.ip), port |-> XOR(address.port, Cookie[1])]

\* The addresses are numbers, and to mask twice is to unmask.
Halves == {NatIp[1], NatIp[2]} \cup {ExternalPort[x] : x \in DOMAIN ExternalPort}
ASSUME NatAssumption ==
  /\ Servers \subseteq [ip : Nat \X Nat, port : Nat]
  /\ NatIp \in Nat \X Nat
  /\ \A half \in Halves, mask \in {Cookie[1], Cookie[2]} :
       XOR(half, mask) \in Nat /\ XOR(XOR(half, mask), mask) = half

\* Where an answer with changed port (and address) comes from.
Changed(server, change) ==
  [ip |-> IF change = "both" THEN <<server.ip[1], server.ip[2] + 1>> ELSE server.ip,
   port |-> IF change = "none" THEN server.port ELSE server.port + 4]

Attributes(q, from) ==
  IF q.to \in OldServers
    THEN Attribute(MAPPED_ADDRESS, Mapped(q.client, q.to)) \o Attribute(SOURCE_ADDRESS, from)
         \o Attribute(CHANGED_ADDRESS, Changed(q.to, "both"))
    ELSE Attribute(XOR_MAPPED_ADDRESS, XorAddress(Mapped(q.client, q.to)))

Success(q, from) == [client |-> q.client, id |-> q.id, to |-> q.to, from |-> from,
                     type |-> "success", words |-> Attributes(q, from)]
Error(q) == [client |-> q.client, id |-> q.id, to |-> q.to, from |-> q.to,
             type |-> "error", words |-> <<>>]

\* A server that cannot change its address says so, or answers from where it is.
Refusals(q) == {Error(q)} \cup IF q.change = "none" THEN {} ELSE {Success(q, q.to)}

NatInit ==
  /\ nat \in NatKinds
  /\ requests = {} /\ responses = {} /\ disturbed = {}

Send(q) == requests' = requests \cup {q}

\* The server answers, from where it was asked to, and the NAT lets the answer
\* in or not; or it cannot do that.
Answer(q) ==
  /\ requests' = requests \ {q}
  /\ \/ LET r == Success(q, Changed(q.to, q.change)) IN
        /\ responses' = IF LetsIn(q.to, r.from) THEN responses \cup {r} ELSE responses
        /\ UNCHANGED disturbed
     \/ /\ \E r \in Refusals(q) : responses' = responses \cup {r}
        /\ disturbed' = disturbed \cup {"refused"}
  /\ UNCHANGED nat

\* The program reads r from its socket, and a duplicate of it may be still to come.
Take(r) ==
  /\ r \in responses
  /\ \/ responses' = responses \ {r} /\ UNCHANGED disturbed
     \/ responses' = responses /\ disturbed' = disturbed \cup {"repeated"}

\* A response is lost, or its request was.
Lose ==
  /\ \E r \in responses : responses' = responses \ {r}
  /\ disturbed' = disturbed \cup {"lost"}
  /\ UNCHANGED <<nat, requests>>

NatStep == Lose \/ \E q \in requests : Answer(q)

\* Nothing is on its way to or from the program that uses this socket.
Quiet(client) == \A x \in requests \cup responses : x.client # client
===============================================================================
