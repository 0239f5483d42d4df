-------------------------------- MODULE StunWalk --------------------------------
(***************************************************************************)
(* The loop that looks for attributes in response_buffer, the same one in  *)
(* stun_symmetry.c and stun_cone_level.c.  It adds to the location not the *)
(* size of the attribute it has just read but `index', the size of all of  *)
(* them: of the attributes of a response it finds the first and the        *)
(* second, and misses the third.                                           *)
(*                                                                         *)
(* The buffer is the part behind the header, in words.  recvfrom()         *)
(* overwrites its beginning; what an earlier response left behind stays.   *)
(***************************************************************************)
EXTENDS Integers, Sequences, SequencesExt

CONSTANT Zeros   \* the buffer before the first response

\* recvfrom(client_sockfd, response_buffer, ...)
Receive(buffer, words) == words \o SubSeq(buffer, Len(words) + 1, Len(buffer))

\* The responses of these servers keep every offset a multiple of 4.
Word(buffer, offset) ==
  IF offset % 4 = 0 /\ offset \div 4 < Len(buffer) THEN buffer[offset \div 4 + 1] ELSE <<0, 0>>

\* Mutant: the header of an attribute is counted twice.
Visits_HeaderTwice(buffer, num_bytes_attributes) ==
  LET rounds == num_bytes_attributes \div 4
      after[k \in 0 .. rounds] ==
        IF k = 0 THEN [index |-> 0, location |-> 0, visits |-> <<>>]
        ELSE LET before == after[k - 1]
                 here == before.location + before.index
                 attribute_length == Word(buffer, here)[2]
             IN  IF before.index >= num_bytes_attributes THEN before
                 ELSE [index    |-> (before.index + attribute_length + 8) % 65536,
                       location |-> here,
                       visits   |-> Append(before.visits, here)]
  IN  after[rounds].visits

\* The offsets at which the loop looks for an attribute.  after[k] is the state after
\* k rounds, or where the loop has ended before; a round reads at least a header.
Visits(buffer, num_bytes_attributes) ==
  LET rounds == num_bytes_attributes \div 4
      after[k \in 0 .. rounds] ==
        IF k = 0 THEN [index |-> 0, location |-> 0, visits |-> <<>>]
        ELSE LET before == after[k - 1]
                 here == before.location + before.index
                 attribute_length == Word(buffer, here)[2]
             IN  IF before.index >= num_bytes_attributes THEN before
                 ELSE [index    |-> (before.index + attribute_length + 4) % 65536,
                       location |-> here,
                       visits   |-> Append(before.visits, here)]
  IN  after[rounds].visits

TypeAt(buffer, offset) == Word(buffer, offset)[1]
AddressAt(buffer, offset) ==
  [ip |-> Word(buffer, offset + 8), port |-> Word(buffer, offset + 4)[2]]

\* Where the attributes are: those of these servers have three words each.
Starts(words) == [k \in 1 .. Len(words) \div 3 |-> 12 * (k - 1)]
===============================================================================
