---------------------------------- MODULE Stun ----------------------------------
(***************************************************************************)
(* The NAT detector of lab4, used as its README says: the symmetry test    *)
(* first, and the test of the cone level when the first one has not found  *)
(* a symmetric NAT.                                                        *)
(***************************************************************************)
EXTENDS StunSymmetry, StunConeLevel, FiniteSets

Clients == {STUN_CLIENT_PORT, STUN_CLIENT_PORT_CONE}

\* All that getaddrinfo() can find.
Addresses(hosts) ==
  UNION {ToSet(AddressesOf[hosts[k]]) : k \in DOMAIN hosts}

\* The NAT is one of the kinds the README of lab4 knows, the server of the second
\* test is of the old kind, and each test asks for as many answers as it expects
\* ("4 from stun.voipstunt.com, 5 from 5 google", stun_symmetry.c:36).
ASSUME StunAssumption ==
  /\ NatIp # NoAddress.ip
  /\ ExternalPort \in [Clients \X (Servers \cup {NoAddress}) -> Nat]
  /\ \A s, t \in Servers :
       ExternalPort[<<STUN_CLIENT_PORT, s>>] = ExternalPort[<<STUN_CLIENT_PORT, t>>] => s = t
  /\ Hosts \in Seq(DOMAIN AddressesOf)
  /\ \A h \in DOMAIN AddressesOf : AddressesOf[h] \in Seq(Servers)
  /\ IsFiniteSet(Servers)
  /\ num_response_expected \in Nat
  /\ num_cone_expected \in Nat /\ num_cone_expected >= Len(Spoofs)
  /\ num_response_expected <= Cardinality(Addresses(Hosts))
  /\ original_server \in OldServers
  /\ Zeros \in Seq({<<0, 0>>})

vars == <<natVars, symmetryVars, coneVars>>

Init == NatInit /\ SymmetryInit /\ ConeInit

\* The user goes on when the first test has ended or is stuck, and ends it: what
\* is on the way to its socket arrives nowhere, its memory is gone, and what is
\* left is what it has printed.
NextTest ==
  /\ SymmetryOver /\ ~ is_behind_symmetric_nat
  /\ StartCone
  /\ requests' = {} /\ responses' = {} /\ disturbed' = {}
  /\ i' = 0 /\ response_buffer' = Zeros
  /\ UNCHANGED <<nat, sendVars, nat_holder, is_behind_symmetric_nat, heard>>

Next ==
  \/ NatStep /\ UNCHANGED <<symmetryVars, coneVars>>
  \/ SymmetryStep /\ UNCHANGED coneVars
  \/ ConeStep /\ UNCHANGED symmetryVars
  \/ NextTest

Spec == Init /\ [][Next]_vars

-------------------------------------------------------------------------------
(* Safety. *)

\* "You are behind a symmetric NAT!" is said to nobody else: whatever the loop
\* reads as an address, in whichever order the answers come, is the address.
SymmetricIsReal == is_behind_symmetric_nat => nat = "symmetric"

\* Two different servers are enough to find a symmetric NAT.
SymmetricIsFound == nat = "symmetric" /\ Cardinality(heard) >= 2 => is_behind_symmetric_nat

\* The address that the program reports is one that a server it has heard sees.
ReportedIsSeen ==
  IF heard = {} THEN nat_holder = NoAddress
  ELSE \E s \in heard : nat_holder = Mapped(STUN_CLIENT_PORT, s)

\* The program counts responses and asks nobody twice: it waits in vain when a
\* name was not resolved or a packet was lost, and only then.
WaitsOnlyForLost ==
  cone_main = -1 /\ Running /\ to_resolve = <<>> /\ infos = <<>> /\ Quiet(STUN_CLIENT_PORT)
    => disturbed \cap {"lost", "unresolved"} # {}

\* What the second test prints is so, and the address in it is the one at
\* which the NAT takes what comes for this program.
VerdictsAreReal ==
  \A v \in verdicts :
    /\ nat \in IF v.level = "full" THEN {"full"} ELSE {"full", "restricted"}
    /\ v.address = Mapped(STUN_CLIENT_PORT_CONE, original_server)

\* What the README concludes from what the second test has printed when nothing
\* more comes; from no prompt, a port restricted cone.  This needs the first
\* test, too: the second one cannot tell a symmetric NAT from that.
Concluded ==
  LET levels == {v.level : v \in verdicts}
  IN  IF "full" \in levels THEN "full"
      ELSE IF "restricted" \in levels THEN "restricted" ELSE "port_restricted"

\* The conclusion holds when the second test has ended or is stuck, nothing of it
\* was lost or refused, and the first test, whatever became of it, had heard two
\* servers.  The responses are only counted (stun_cone_level.c:125): when one was
\* repeated, the program may end with another one unread, and conclude too little.
ConclusionHolds ==
  /\ ConeOver /\ Cardinality(heard) >= 2
  /\ "lost" \notin disturbed /\ "refused" \notin disturbed
  /\ "repeated" \in disturbed => ConeRead
  => Concluded = nat

\* However far the walk strays behind the second attribute: the first two are
\* read where they start, and nothing else is taken for an address, neither
\* inside of an attribute nor in what an earlier response has left behind.
AddressesAreAttributes ==
  \A r \in responses :
    LET buffer == Receive(IF r.client = STUN_CLIENT_PORT THEN response_buffer ELSE cone_buffer, r.words)
        visits == Visits(buffer, 4 * Len(r.words))
        starts == Starts(r.words)
    IN  /\ \A k \in DOMAIN starts : k <= 2 => visits[k] = starts[k]
        /\ \A k \in DOMAIN visits :
             TypeAt(buffer, visits[k]) \in {MAPPED_ADDRESS, XOR_MAPPED_ADDRESS}
               => visits[k] \in ToSet(starts)
=============================================================================
