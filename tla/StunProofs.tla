------------------------------ MODULE StunProofs ------------------------------
(***************************************************************************)
(* Proofs about Stun: what the walk finds in a response of either kind,    *)
(* the inductive invariant, and the properties of Stun as theorems.        *)
(***************************************************************************)
EXTENDS Stun, FiniteSetTheorems, SequenceTheorems, TLAPS

-------------------------------------------------------------------------------
(* The inductive invariant. *)

Word32 == Nat \X Nat
Address == [ip : Word32, port : Nat]

\* The requests of the two programs.
Binding(s) == [client |-> STUN_CLIENT_PORT, to |-> s, change |-> "none", id |-> 0]
Spoof(k) == [client |-> STUN_CLIENT_PORT_CONE, to |-> original_server, change |-> Spoofs[k], id |-> k]
Requests == {Binding(s) : s \in Servers} \cup {Spoof(k) : k \in 1 .. 4}

\* The response that q asks for.
Wanted(q) == Success(q, Changed(q.to, q.change))

\* What can come back to the program that sent q.
AnswerTo(r, q) ==
  \/ r = Wanted(q) /\ LetsIn(q.to, r.from)
  \/ r = Success(q, q.to)
  \/ r = Error(q)

\* No response reaches behind the ninth word of a buffer.
BufferOK(b) == b \in Seq(Word32) /\ \A k \in DOMAIN b : k > 9 => b[k] = <<0, 0>>

TypeOK ==
  /\ nat \in NatKinds
  /\ requests \subseteq Requests
  /\ \A r \in responses : \E q \in Requests : AnswerTo(r, q)
  /\ disturbed \subseteq Disturbances
  /\ to_resolve \in Seq(DOMAIN AddressesOf)
  /\ infos \in Seq(Servers)
  /\ i \in Nat
  /\ BufferOK(response_buffer)
  /\ nat_holder \in Address
  /\ is_behind_symmetric_nat \in BOOLEAN
  /\ heard \subseteq Servers
  /\ cone_main \in -1 .. 4
  /\ cone_i \in Nat
  /\ BufferOK(cone_buffer)

\* The address kept is that of a server heard, and a difference means two addresses.
HolderInv ==
  /\ ReportedIsSeen
  /\ is_behind_symmetric_nat <=> \E s \in heard : Mapped(STUN_CLIENT_PORT, s) # nat_holder

\* The servers whose response the first program has still to send for or to count.
Outstanding ==
  ToSet(infos) \cup Addresses(to_resolve)
    \cup {x.to : x \in {y \in requests \cup responses : y.client = STUN_CLIENT_PORT}}

CountInv ==
  cone_main = -1 /\ disturbed \cap {"lost", "unresolved"} = {}
    => Cardinality(Addresses(Hosts) \ Outstanding) <= i

\* The second test begins when nothing is left of the first one.
TestsInv ==
  cone_main >= 0 =>
    /\ ~ is_behind_symmetric_nat /\ to_resolve = <<>> /\ infos = <<>>
    /\ Quiet(STUN_CLIENT_PORT)

\* What became of the k-th request of the second test.
SpoofInv(k) ==
  \/ Spoof(k) \in requests
  \/ LetsIn(original_server, Changed(original_server, Spoofs[k])) =>
       \/ Wanted(Spoof(k)) \in responses
       \/ \E v \in verdicts : v.level = Level(Changed(original_server, Spoofs[k]))

\* Nothing of the second test was lost or refused, and then, nothing repeated.
Reliable == "lost" \notin disturbed /\ "refused" \notin disturbed
Smooth   == Reliable /\ "repeated" \notin disturbed

\* The requests of the second test on their way to the server, and the responses
\* on their way back.
ConeAsked == {k \in 1 .. 4 : Spoof(k) \in requests}
ConeBack  == {k \in 1 .. 4 : Wanted(Spoof(k)) \in responses}

\* No response is counted twice, so that none is left when four are counted.
FourInv ==
  /\ cone_main = -1 => cone_i = 0
  /\ cone_main >= 0 /\ Smooth =>
       /\ \A r \in responses : r.client = STUN_CLIENT_PORT_CONE => \E k \in 1 .. 4 : r = Wanted(Spoof(k))
       /\ cone_i + Cardinality(ConeAsked) + Cardinality(ConeBack) <= cone_main

ConeInv ==
  /\ VerdictsAreReal
  /\ Reliable => \A k \in 1 .. cone_main : SpoofInv(k)
  /\ FourInv

Inv == TypeOK /\ HolderInv /\ CountInv /\ TestsInv /\ ConeInv

-------------------------------------------------------------------------------
(* The walk over the attributes. *)

\* A response of three attributes: the loop reads two of them, and then three times
\* behind the response.
LEMMA OldVisits ==
  ASSUME NEW b, Word(b, 0)[2] = 8, Word(b, 12)[2] = 8,
         Word(b, 36)[2] = 0, Word(b, 64)[2] = 0, Word(b, 96)[2] = 0
  PROVE  Visits(b, 36) = <<0, 12, 36, 64, 96>>
<1> DEFINE Round(r) ==
             LET here == r.location + r.index
                 attribute_length == Word(b, here)[2]
             IN  IF r.index >= 36 THEN r
                 ELSE [index    |-> (r.index + attribute_length + 4) % 65536,
                       location |-> here,
                       visits   |-> Append(r.visits, here)]
           r0 == [index |-> 0, location |-> 0, visits |-> <<>>]
           r1 == [index |-> 12, location |-> 0, visits |-> <<0>>]
           r2 == [index |-> 24, location |-> 12, visits |-> <<0, 12>>]
           r3 == [index |-> 28, location |-> 36, visits |-> <<0, 12, 36>>]
           r4 == [index |-> 32, location |-> 64, visits |-> <<0, 12, 36, 64>>]
           r5 == [index |-> 36, location |-> 96, visits |-> <<0, 12, 36, 64, 96>>]
           Is(f) == f = [k \in 0 .. 9 |-> IF k = 0 THEN r0 ELSE Round(f[k - 1])]
           after == CHOOSE f : Is(f)
<1>1. Round(r0) = r1 OBVIOUS
<1>2. Round(r1) = r2 OBVIOUS
<1>3. Round(r2) = r3 OBVIOUS
<1>4. Round(r3) = r4 OBVIOUS
<1>5. Round(r4) = r5 OBVIOUS
<1>6. Round(r5) = r5 OBVIOUS
<1>7. Visits(b, 36) = after[9].visits
  <2>1. 36 \div 4 = 9 OBVIOUS
  <2> QED BY <2>1 DEF Visits
<1>8. r5.visits = <<0, 12, 36, 64, 96>> OBVIOUS
<1> HIDE DEF Round, r0, r1, r2, r3, r4, r5
<1>9. \E f : Is(f)
  <2> DEFINE g == [k \in 0 .. 9 |-> IF k = 0 THEN r0 ELSE IF k = 1 THEN r1 ELSE IF k = 2 THEN r2
                                    ELSE IF k = 3 THEN r3 ELSE IF k = 4 THEN r4 ELSE r5]
  <2>1. \A k \in 0 .. 9 : g[k] = IF k = 0 THEN r0 ELSE Round(g[k - 1])
    BY <1>1, <1>2, <1>3, <1>4, <1>5, <1>6
  <2>2. Is(g) BY <2>1
  <2> QED BY <2>2
<1>10. Is(after) BY <1>9
<1> HIDE DEF after
<1>11. \A k \in 1 .. 9 : after[k] = Round(after[k - 1]) BY <1>10
<1>12. after[0] = r0 BY <1>10
<1>13. after[1] = r1 /\ after[2] = r2 /\ after[3] = r3 BY <1>1, <1>2, <1>3, <1>11, <1>12
<1>14. after[4] = r4 /\ after[5] = r5 BY <1>4, <1>5, <1>11, <1>13
<1>15. after[9] = r5
  <2>1. after[6] = r5 BY <1>6, <1>11, <1>14
  <2>2. after[7] = r5 BY <1>6, <1>11, <2>1
  <2>3. after[8] = r5 BY <1>6, <1>11, <2>2
  <2> QED BY <1>6, <1>11, <2>3
<1> QED BY <1>7, <1>8, <1>15

\* A response of one attribute: the loop reads it, and no more.
LEMMA NewVisits ==
  ASSUME NEW b, Word(b, 0)[2] = 8
  PROVE  Visits(b, 12) = <<0>>
<1> DEFINE Round(r) ==
             LET here == r.location + r.index
                 attribute_length == Word(b, here)[2]
             IN  IF r.index >= 12 THEN r
                 ELSE [index    |-> (r.index + attribute_length + 4) % 65536,
                       location |-> here,
                       visits   |-> Append(r.visits, here)]
           r0 == [index |-> 0, location |-> 0, visits |-> <<>>]
           r1 == [index |-> 12, location |-> 0, visits |-> <<0>>]
           Is(f) == f = [k \in 0 .. 3 |-> IF k = 0 THEN r0 ELSE Round(f[k - 1])]
           after == CHOOSE f : Is(f)
<1>1. Round(r0) = r1 OBVIOUS
<1>2. Round(r1) = r1 OBVIOUS
<1>3. Visits(b, 12) = after[3].visits
  <2>1. 12 \div 4 = 3 OBVIOUS
  <2> QED BY <2>1 DEF Visits
<1>4. r1.visits = <<0>> OBVIOUS
<1> HIDE DEF Round, r0, r1
<1>5. \E f : Is(f)
  <2> DEFINE g == [k \in 0 .. 3 |-> IF k = 0 THEN r0 ELSE r1]
  <2>1. \A k \in 0 .. 3 : g[k] = IF k = 0 THEN r0 ELSE Round(g[k - 1]) BY <1>1, <1>2
  <2>2. Is(g) BY <2>1
  <2> QED BY <2>2
<1>6. Is(after) BY <1>5
<1> HIDE DEF after
<1>7. \A k \in 1 .. 3 : after[k] = Round(after[k - 1]) BY <1>6
<1>8. after[0] = r0 BY <1>6
<1>9. after[1] = r1 BY <1>1, <1>7, <1>8
<1>10. after[2] = r1 BY <1>2, <1>7, <1>9
<1>11. after[3] = r1 BY <1>2, <1>7, <1>10
<1> QED BY <1>3, <1>4, <1>11

\* A response without attributes.
LEMMA NoVisits ==
  ASSUME NEW b
  PROVE  Visits(b, 0) = <<>>
<1> DEFINE Round(r) ==
             LET here == r.location + r.index
                 attribute_length == Word(b, here)[2]
             IN  IF r.index >= 0 THEN r
                 ELSE [index    |-> (r.index + attribute_length + 4) % 65536,
                       location |-> here,
                       visits   |-> Append(r.visits, here)]
           r0 == [index |-> 0, location |-> 0, visits |-> <<>>]
           Is(f) == f = [k \in 0 .. 0 |-> IF k = 0 THEN r0 ELSE Round(f[k - 1])]
           after == CHOOSE f : Is(f)
<1>1. Visits(b, 0) = after[0].visits
  <2>1. 0 \div 4 = 0 OBVIOUS
  <2> QED BY <2>1 DEF Visits
<1>2. r0.visits = <<>> OBVIOUS
<1> HIDE DEF Round, r0
<1>3. \E f : Is(f)
  <2>1. Is([k \in 0 .. 0 |-> r0]) OBVIOUS
  <2> QED BY <2>1
<1>4. Is(after) BY <1>3
<1> HIDE DEF after
<1>5. after[0] = r0 BY <1>4
<1> QED BY <1>1, <1>2, <1>5
-------------------------------------------------------------------------------
(* What is read. *)

\* One sequence behind another.
Join(x, y) == x \o y

\* The items of the first sequence come first, and those of the second one next.
LEMMA Joined ==
  ASSUME NEW x \in Seq(Word32), NEW y \in Seq(Word32)
  PROVE  /\ Join(x, y) \in Seq(Word32) /\ Len(Join(x, y)) = Len(x) + Len(y)
         /\ \A k \in 1 .. Len(x) : Join(x, y)[k] = x[k]
         /\ \A k \in 1 .. Len(y) : Join(x, y)[Len(x) + k] = y[k]
<1>1. PICK S : S = Word32 OBVIOUS
<1>2. PICK n, m : n = Len(x) /\ m = Len(y) OBVIOUS
<1>3. x \in Seq(S) /\ y \in Seq(S) /\ n \in Nat /\ m \in Nat BY <1>1, <1>2
<1>4. /\ x \o y \in Seq(S) /\ Len(x \o y) = n + m
      /\ \A k \in 1 .. n + m : (x \o y)[k] = IF k <= n THEN x[k] ELSE y[k - n]
  BY ONLY <1>2, <1>3, ConcatProperties
<1>5. PICK v : v = x \o y OBVIOUS
<1>6. /\ v \in Seq(S) /\ Len(v) = n + m
      /\ \A k \in 1 .. n + m : v[k] = IF k <= n THEN x[k] ELSE y[k - n]
  BY ONLY <1>4, <1>5
<1>7. \A k \in 1 .. n : v[k] = x[k] BY ONLY <1>3, <1>6
<1>8. ASSUME NEW k \in 1 .. m PROVE v[n + k] = y[k]
  <2>1. n + k \in 1 .. n + m /\ ~ (n + k <= n) /\ (n + k) - n = k BY <1>3
  <2> QED BY ONLY <1>6, <2>1
<1>9. v = Join(x, y) BY <1>5 DEF Join
<1> QED BY <1>1, <1>2, <1>6, <1>7, <1>8, <1>9

\* recvfrom() writes the beginning of the buffer.
LEMMA Received ==
  ASSUME NEW b, BufferOK(b), NEW words \in Seq(Word32), Len(words) <= 9,
         NEW b2, b2 = Receive(b, words)
  PROVE  /\ BufferOK(b2)
         /\ Len(b2) \in Nat /\ Len(words) <= Len(b2)
         /\ \A k \in 1 .. Len(words) : b2[k] = words[k]
<1>1. b \in Seq(Word32) /\ Len(words) \in Nat /\ Len(b) \in Nat BY DEF BufferOK
<1>2. PICK n, l : n = Len(words) /\ l = Len(b) OBVIOUS
<1>3. n \in 0 .. 9 /\ l \in Nat
  <2>1. n <= 9 BY <1>2
  <2>2. n \in Nat /\ l \in Nat BY ONLY <1>1, <1>2
  <2> QED BY ONLY <2>1, <2>2
<1> DEFINE rest == SubSeq(b, n + 1, l)
<1>4. /\ rest \in Seq(Word32)
      /\ Len(rest) = IF n < l THEN l - n ELSE 0
      /\ \A k \in 1 .. Len(rest) : rest[k] = b[n + k]
  <2>1. CASE n < l
    <3>1. n + 1 \in 1 .. l /\ l \in n .. l /\ l - (n + 1) + 1 = l - n BY <1>3, <2>1
    <3>2. rest = [k \in 1 .. l - n |-> b[n + 1 + k - 1]] BY <1>1, <1>2, <1>3, <2>1
    <3>3. \A k \in 1 .. l - n : n + 1 + k - 1 = n + k /\ n + k \in 1 .. l BY <1>3, <2>1
    <3>4. \A k \in 1 .. l - n : b[n + k] \in Word32 BY <1>1, <1>2, <3>3
    <3>5. rest = [k \in 1 .. l - n |-> b[n + k]] BY <3>2, <3>3
    <3>6. l - n \in Nat BY <1>3, <2>1
    <3> HIDE DEF rest
    <3> QED BY <2>1, <3>4, <3>5, <3>6
  <2>2. CASE ~ (n < l)
    <3>1. rest = <<>>
      <4>1. n + 1 > l BY <1>3, <2>2
      <4>2. n + 1 \in Nat /\ l \in Nat BY <1>3
      <4>3. PICK o : o = n + 1 OBVIOUS
      <4>4. SubSeq(b, o, l) = <<>> BY <4>1, <4>2, <4>3, <1>1, SubSeqProperties
      <4> QED BY <4>3, <4>4
    <3> HIDE DEF rest
    <3>2. rest \in Seq(Word32) /\ Len(rest) = 0 BY <3>1
    <3> QED BY <2>2, <3>2
  <2> QED BY <2>1, <2>2
<1>5. b2 = words \o rest BY <1>2 DEF Receive
<1> HIDE DEF rest
<1>6. b2 \in Seq(Word32) /\ Len(b2) = n + Len(rest) /\ Len(rest) \in Nat BY <1>2, <1>4, <1>5
<1>7. \A k \in 1 .. n : b2[k] = words[k] BY <1>2, <1>4, <1>5
<1>8. ASSUME NEW k \in DOMAIN b2, k > 9 PROVE b2[k] = <<0, 0>>
  <2>1. k \in 1 .. n + Len(rest) BY <1>6
  <2>2. k - n \in 1 .. Len(rest) /\ k = n + (k - n) BY <1>3, <1>6, <1>8, <2>1
  <2>3. b2[k] = rest[k - n] BY <1>2, <1>3, <1>4, <1>5, <1>8, <2>1, <2>2
  <2>4. rest[k - n] = b[k] BY <1>4, <2>2
  <2>5. k \in 1 .. l BY <1>3, <1>4, <1>8, <2>1, <2>2
  <2>6. k \in DOMAIN b BY <1>1, <1>2, <2>5
  <2> QED BY <1>8, <2>3, <2>4, <2>6 DEF BufferOK
<1>9. Len(b2) \in Nat /\ n <= Len(b2) BY <1>3, <1>6
<1>10. BufferOK(b2) BY <1>6, <1>8 DEF BufferOK
<1> QED BY <1>2, <1>7, <1>9, <1>10

\* Behind the ninth word there is nothing but zeros.
LEMMA BehindResponses ==
  ASSUME NEW b, BufferOK(b)
  PROVE  Word(b, 36) = <<0, 0>> /\ Word(b, 64) = <<0, 0>> /\ Word(b, 96) = <<0, 0>>
<1>1. 36 \div 4 = 9 /\ 64 \div 4 = 16 /\ 96 \div 4 = 24 OBVIOUS
<1>2. b \in Seq(Word32) /\ DOMAIN b = 1 .. Len(b) /\ Len(b) \in Nat BY DEF BufferOK
<1>3. \A k \in 1 .. Len(b) : k > 9 => b[k] = <<0, 0>> BY <1>2 DEF BufferOK
<1>4. \A k \in {9, 16, 24} : k < Len(b) => b[k + 1] = <<0, 0>> BY <1>2, <1>3
<1> QED BY <1>1, <1>4 DEF Word

\* The words of an attribute.
LEMMA AttributeWords ==
  ASSUME NEW type \in Nat, NEW a \in Address
  PROVE  /\ Attribute(type, a) \in Seq(Word32) /\ Len(Attribute(type, a)) = 3
         /\ Attribute(type, a)[1] = <<type, 8>>
         /\ Attribute(type, a)[2] = <<1, a.port>> /\ Attribute(type, a)[3] = a.ip
BY DEF Attribute, Address, Word32

\* The words of a response of the old kind.
OldWords(m, s, c) ==
  Attribute(MAPPED_ADDRESS, m) \o Attribute(SOURCE_ADDRESS, s) \o Attribute(CHANGED_ADDRESS, c)

\* The loop finds in a response of the old kind the mapped address, and takes nothing
\* else for one.
LEMMA ReadOld ==
  ASSUME NEW b, BufferOK(b), NEW m \in Address, NEW s \in Address, NEW c \in Address,
         NEW words, words = OldWords(m, s, c),
         NEW b2, b2 = Receive(b, words)
  PROVE  /\ words \in Seq(Word32) /\ Len(words) = 9 /\ BufferOK(b2)
         /\ Visits(b2, 36) = <<0, 12, 36, 64, 96>>
         /\ TypeAt(b2, 0) = MAPPED_ADDRESS /\ AddressAt(b2, 0) = m
         /\ \A o \in {12, 36, 64, 96} : TypeAt(b2, o) \notin {MAPPED_ADDRESS, XOR_MAPPED_ADDRESS}
<1>1. /\ words \in Seq(Word32) /\ Len(words) = 9
      /\ words[1] = <<1, 8>> /\ words[2] = <<1, m.port>> /\ words[3] = m.ip
      /\ words[4] = <<4, 8>>
  <2>1. PICK x, y, z : x = Attribute(1, m) /\ y = Attribute(4, s) /\ z = Attribute(5, c) OBVIOUS
  <2>2. PICK v : v = Join(x, y) OBVIOUS
  <2>3. words = Join(v, z)
    BY <2>1, <2>2 DEF Join, OldWords, MAPPED_ADDRESS, SOURCE_ADDRESS, CHANGED_ADDRESS
  <2>4. /\ x \in Seq(Word32) /\ y \in Seq(Word32) /\ z \in Seq(Word32)
        /\ Len(x) = 3 /\ Len(y) = 3 /\ Len(z) = 3
        /\ x[1] = <<1, 8>> /\ x[2] = <<1, m.port>> /\ x[3] = m.ip
        /\ y[1] = <<4, 8>>
    BY <2>1, AttributeWords
  <2>5. /\ v \in Seq(Word32) /\ Len(v) = Len(x) + Len(y)
        /\ \A k \in 1 .. Len(x) : v[k] = x[k]
        /\ \A k \in 1 .. Len(y) : v[Len(x) + k] = y[k]
    <3>1. x \in Seq(Word32) /\ y \in Seq(Word32) BY <2>4
    <3> QED BY ONLY <2>2, <3>1, Joined
  <2>6. Len(v) = 6 /\ v[1] = x[1] /\ v[2] = x[2] /\ v[3] = x[3] /\ v[4] = y[1]
    <3>1. v[3 + 1] = y[1] BY ONLY <2>4, <2>5
    <3> QED BY ONLY <2>4, <2>5, <3>1
  <2>7. /\ words \in Seq(Word32) /\ Len(words) = Len(v) + Len(z)
        /\ \A k \in 1 .. Len(v) : words[k] = v[k]
    <3>1. v \in Seq(Word32) /\ z \in Seq(Word32) BY <2>4, <2>5
    <3>2. /\ Join(v, z) \in Seq(Word32) /\ Len(Join(v, z)) = Len(v) + Len(z)
          /\ \A k \in 1 .. Len(v) : Join(v, z)[k] = v[k]
      BY ONLY <3>1, Joined
    <3> QED BY ONLY <2>3, <3>2
  <2>8. Len(words) = 9 /\ \A k \in 1 .. 6 : words[k] = v[k] BY ONLY <2>4, <2>6, <2>7
  <2> QED BY ONLY <2>4, <2>6, <2>7, <2>8
<1>2. BufferOK(b2) /\ Len(b2) \in Nat /\ 9 <= Len(b2) /\ \A k \in 1 .. 9 : b2[k] = words[k]
  <2>1. words \in Seq(Word32) /\ Len(words) <= 9 BY <1>1
  <2>2. BufferOK(b) /\ b2 = Receive(b, words) OBVIOUS
  <2>3. /\ BufferOK(b2) /\ Len(b2) \in Nat /\ Len(words) <= Len(b2)
        /\ \A k \in 1 .. Len(words) : b2[k] = words[k]
    BY ONLY <2>1, <2>2, Received
  <2> QED BY ONLY <1>1, <2>3
<1>3. /\ Word(b2, 0) = <<1, 8>> /\ Word(b2, 4) = <<1, m.port>> /\ Word(b2, 8) = m.ip
      /\ Word(b2, 12) = <<4, 8>>
  <2>1. 0 \div 4 = 0 /\ 4 \div 4 = 1 /\ 8 \div 4 = 2 /\ 12 \div 4 = 3 OBVIOUS
  <2>2. 0 % 4 = 0 /\ 4 % 4 = 0 /\ 8 % 4 = 0 /\ 12 % 4 = 0 OBVIOUS
  <2>3. 0 < Len(b2) /\ 1 < Len(b2) /\ 2 < Len(b2) /\ 3 < Len(b2) BY <1>2
  <2>4. 1 \in 1 .. 9 /\ 2 \in 1 .. 9 /\ 3 \in 1 .. 9 /\ 4 \in 1 .. 9 OBVIOUS
  <2>5. b2[1] = words[1] /\ b2[2] = words[2] /\ b2[3] = words[3] /\ b2[4] = words[4]
    BY <1>2, <2>4
  <2> QED BY <1>1, <2>1, <2>2, <2>3, <2>5 DEF Word
<1>4. Word(b2, 36) = <<0, 0>> /\ Word(b2, 64) = <<0, 0>> /\ Word(b2, 96) = <<0, 0>>
  BY <1>2, BehindResponses
<1>5. Visits(b2, 36) = <<0, 12, 36, 64, 96>>
  <2>1. /\ Word(b2, 0)[2] = 8 /\ Word(b2, 12)[2] = 8
        /\ Word(b2, 36)[2] = 0 /\ Word(b2, 64)[2] = 0 /\ Word(b2, 96)[2] = 0
    BY <1>3, <1>4
  <2> QED BY <2>1, OldVisits
<1>6. TypeAt(b2, 0) = MAPPED_ADDRESS BY <1>3 DEF TypeAt, MAPPED_ADDRESS
<1>7. AddressAt(b2, 0) = m
  <2>1. AddressAt(b2, 0) = [ip |-> m.ip, port |-> m.port] BY <1>3 DEF AddressAt
  <2> QED BY <2>1 DEF Address
<1>8. \A o \in {12, 36, 64, 96} : TypeAt(b2, o) \notin {MAPPED_ADDRESS, XOR_MAPPED_ADDRESS}
  BY <1>3, <1>4 DEF TypeAt, MAPPED_ADDRESS, XOR_MAPPED_ADDRESS
<1> QED BY <1>1, <1>2, <1>5, <1>6, <1>7, <1>8

\* In one of the new kind it finds the masked one.
LEMMA ReadNew ==
  ASSUME NEW b, BufferOK(b), NEW m \in Address,
         NEW words, words = Attribute(XOR_MAPPED_ADDRESS, m),
         NEW b2, b2 = Receive(b, words)
  PROVE  /\ words \in Seq(Word32) /\ Len(words) = 3 /\ BufferOK(b2)
         /\ Visits(b2, 12) = <<0>>
         /\ TypeAt(b2, 0) = XOR_MAPPED_ADDRESS /\ AddressAt(b2, 0) = m
<1>1. /\ words \in Seq(Word32) /\ Len(words) = 3
      /\ words[1] = <<32, 8>> /\ words[2] = <<1, m.port>> /\ words[3] = m.ip
  BY AttributeWords DEF XOR_MAPPED_ADDRESS
<1>2. BufferOK(b2) /\ Len(b2) \in Nat /\ 3 <= Len(b2) /\ \A k \in 1 .. 3 : b2[k] = words[k]
  <2>1. words \in Seq(Word32) /\ Len(words) <= 9 BY <1>1
  <2>2. BufferOK(b) /\ b2 = Receive(b, words) OBVIOUS
  <2>3. /\ BufferOK(b2) /\ Len(b2) \in Nat /\ Len(words) <= Len(b2)
        /\ \A k \in 1 .. Len(words) : b2[k] = words[k]
    BY ONLY <2>1, <2>2, Received
  <2> QED BY ONLY <1>1, <2>3
<1>3. Word(b2, 0) = <<32, 8>> /\ Word(b2, 4) = <<1, m.port>> /\ Word(b2, 8) = m.ip
  <2>1. 0 \div 4 = 0 /\ 4 \div 4 = 1 /\ 8 \div 4 = 2 OBVIOUS
  <2>2. 0 % 4 = 0 /\ 4 % 4 = 0 /\ 8 % 4 = 0 OBVIOUS
  <2>3. 0 < Len(b2) /\ 1 < Len(b2) /\ 2 < Len(b2) BY <1>2
  <2>4. 1 \in 1 .. 3 /\ 2 \in 1 .. 3 /\ 3 \in 1 .. 3 OBVIOUS
  <2>5. b2[1] = words[1] /\ b2[2] = words[2] /\ b2[3] = words[3] BY <1>2, <2>4
  <2> QED BY <1>1, <2>1, <2>2, <2>3, <2>5 DEF Word
<1>4. Visits(b2, 12) = <<0>>
  <2>1. Word(b2, 0)[2] = 8 BY <1>3
  <2> QED BY <2>1, NewVisits
<1>5. TypeAt(b2, 0) = XOR_MAPPED_ADDRESS BY <1>3 DEF TypeAt, XOR_MAPPED_ADDRESS
<1>6. AddressAt(b2, 0) = m
  <2>1. AddressAt(b2, 0) = [ip |-> m.ip, port |-> m.port] BY <1>3 DEF AddressAt
  <2> QED BY <2>1 DEF Address
<1> QED BY <1>1, <1>2, <1>4, <1>5, <1>6

\* A mapped address is one, not the empty one, and is the same masked twice.
LEMMA MappedAddress ==
  ASSUME nat \in NatKinds, NEW p \in Clients, NEW s \in Servers
  PROVE  LET m == Mapped(p, s)
         IN  /\ m \in Address /\ m # NoAddress
             /\ XorAddress(m) \in Address /\ XorAddress(XorAddress(m)) = m
<1> DEFINE d == IF nat = "symmetric" THEN s ELSE [ip |-> <<0, 0>>, port |-> 0]
           x == ExternalPort[<<p, d>>]
<1>1. Mapped(p, s) = [ip |-> NatIp, port |-> x] BY DEF Mapped
<1>2. x \in Nat /\ x \in Halves
  <2>1. <<p, d>> \in DOMAIN ExternalPort BY StunAssumption DEF NoAddress
  <2>2. ExternalPort[<<p, d>>] \in Nat BY <2>1, StunAssumption
  <2> QED BY <2>1, <2>2 DEF Halves
<1> HIDE DEF x
<1>3. PICK u, v : NatIp = <<u, v>> /\ u \in Nat /\ v \in Nat /\ u \in Halves /\ v \in Halves
  BY NatAssumption DEF Halves
<1>4. \A h \in Halves : \A k \in {Cookie[1], Cookie[2]} : XOR(h, k) \in Nat /\ XOR(XOR(h, k), k) = h
  BY NatAssumption
<1>5. PICK j, k : j = Cookie[1] /\ k = Cookie[2] OBVIOUS
<1>6. /\ XOR(u, j) \in Nat /\ XOR(XOR(u, j), j) = u
      /\ XOR(v, k) \in Nat /\ XOR(XOR(v, k), k) = v
      /\ XOR(x, j) \in Nat /\ XOR(XOR(x, j), j) = x
  BY <1>2, <1>3, <1>4, <1>5
<1>7. XorAddress([ip |-> <<u, v>>, port |-> x])
        = [ip |-> <<XOR(u, j), XOR(v, k)>>, port |-> XOR(x, j)]
  BY <1>5 DEF XorAddress, XorWord
<1>8. XorAddress([ip |-> <<XOR(u, j), XOR(v, k)>>, port |-> XOR(x, j)])
        = [ip |-> <<u, v>>, port |-> x]
  <2>1. XorAddress([ip |-> <<XOR(u, j), XOR(v, k)>>, port |-> XOR(x, j)])
          = [ip |-> <<XOR(XOR(u, j), j), XOR(XOR(v, k), k)>>, port |-> XOR(XOR(x, j), j)]
    BY <1>5 DEF XorAddress, XorWord
  <2> QED BY <1>6, <2>1
<1>9. [ip |-> NatIp, port |-> x] # NoAddress BY StunAssumption DEF NoAddress
<1> QED BY <1>1, <1>2, <1>3, <1>6, <1>7, <1>8, <1>9 DEF Address, Word32

-------------------------------------------------------------------------------
(* Requests and responses. *)

\* The servers have addresses, and the one of the second test is among them.
LEMMA ServersHaveAddresses == Servers \subseteq Address /\ original_server \in Servers
BY NatAssumption, StunAssumption DEF Servers, Address, Word32

\* From where an answer comes.
LEMMA ChangedAddress ==
  ASSUME NEW s \in Servers, NEW change
  PROVE  /\ Changed(s, change) \in Address
         /\ change = "none" => Changed(s, change) = s
         /\ change # "none" => Changed(s, change).port # s.port
         /\ change = "both" <=> Changed(s, change).ip # s.ip
<1>1. PICK u \in Nat, v \in Nat, p \in Nat : s = [ip |-> <<u, v>>, port |-> p]
  BY ServersHaveAddresses DEF Address, Word32
<1>2. PICK c : c = Changed(s, change) OBVIOUS
<1>3. c = [ip |-> IF change = "both" THEN <<u, v + 1>> ELSE <<u, v>>,
           port |-> IF change = "none" THEN p ELSE p + 4]
  BY <1>1, <1>2 DEF Changed
<1>4. <<u, v + 1>> # <<u, v>> /\ p + 4 # p OBVIOUS
<1>5. <<u, v>> \in Word32 /\ <<u, v + 1>> \in Word32 /\ p + 4 \in Nat BY DEF Word32
<1>6. c \in Address BY <1>3, <1>5 DEF Address
<1>7. /\ s.port = p /\ s.ip = <<u, v>>
      /\ c.port = IF change = "none" THEN p ELSE p + 4
      /\ c.ip = IF change = "both" THEN <<u, v + 1>> ELSE <<u, v>>
  BY <1>1, <1>3
<1>8. change = "none" => c = s BY <1>1, <1>3
<1> QED BY <1>2, <1>4, <1>6, <1>7, <1>8

\* Whom a request is from and to.
LEMMA RequestFields ==
  ASSUME NEW q \in Requests
  PROVE  /\ q.client \in Clients /\ q.to \in Servers
         /\ q.client = STUN_CLIENT_PORT => q.change = "none"
         /\ q.client # STUN_CLIENT_PORT => \E k \in 1 .. 4 : q = Spoof(k)
<1>1. CASE \E s \in Servers : q = Binding(s)
  BY <1>1 DEF Binding, Clients
<1>2. CASE \E k \in 1 .. 4 : q = Spoof(k)
  BY <1>2, ServersHaveAddresses DEF Spoof, Clients, STUN_CLIENT_PORT, STUN_CLIENT_PORT_CONE
<1> QED BY <1>1, <1>2 DEF Requests

\* What a response tells of the request it answers.
LEMMA ResponseFields ==
  ASSUME NEW q \in Requests, NEW r, AnswerTo(r, q)
  PROVE  /\ r.client = q.client /\ r.to = q.to /\ r.from \in Address
         /\ r.type \in {"success", "error"}
         /\ r.type = "success" => r.words = Attributes(q, r.from)
         /\ r.type = "error" => r.words = <<>>
<1>1. q.to \in Servers /\ q.to \in Address BY RequestFields, ServersHaveAddresses
<1>2. Changed(q.to, q.change) \in Address BY <1>1, ChangedAddress
<1>3. CASE r = Success(q, Changed(q.to, q.change)) BY <1>2, <1>3 DEF Success
<1>4. CASE r = Success(q, q.to) BY <1>1, <1>4 DEF Success
<1>5. CASE r = Error(q) BY <1>1, <1>5 DEF Error
<1> QED BY <1>3, <1>4, <1>5 DEF AnswerTo, Wanted

-------------------------------------------------------------------------------
(* What the two loops make of a response. *)

\* The address m alone, found in the first round.
Only(m) == [k \in {1} |-> m]

\* The first program finds one address in a response: the mapped one.
LEMMA FoundIsMapped ==
  ASSUME nat \in NatKinds, NEW b, BufferOK(b),
         NEW q \in Requests, NEW from \in Address,
         NEW words, words = Attributes(q, from),
         NEW b2, b2 = Receive(b, words)
  PROVE  /\ BufferOK(b2)
         /\ Found(b2, 4 * Len(words)) = Only(Mapped(q.client, q.to))
<1>1. q.client \in Clients /\ q.to \in Servers BY RequestFields
<1>2. PICK m : m = Mapped(q.client, q.to) OBVIOUS
<1>3. m \in Address /\ XorAddress(m) \in Address /\ XorAddress(XorAddress(m)) = m
  BY <1>1, <1>2, MappedAddress
<1>4. Changed(q.to, "both") \in Address BY <1>1, ChangedAddress
<1>5. CASE q.to \in OldServers
  <2>1. words = OldWords(m, from, Changed(q.to, "both")) BY <1>2, <1>5 DEF Attributes, OldWords
  <2>2. /\ words \in Seq(Word32) /\ Len(words) = 9 /\ BufferOK(b2)
        /\ Visits(b2, 36) = <<0, 12, 36, 64, 96>>
        /\ TypeAt(b2, 0) = MAPPED_ADDRESS /\ AddressAt(b2, 0) = m
        /\ \A o \in {12, 36, 64, 96} : TypeAt(b2, o) \notin {MAPPED_ADDRESS, XOR_MAPPED_ADDRESS}
    BY <1>3, <1>4, <2>1, ReadOld
  <2>3. AttributeAddress(b2, 0) = m
    BY <2>2 DEF AttributeAddress, MAPPED_ADDRESS, XOR_MAPPED_ADDRESS
  <2>4. PICK v : v = Visits(b2, 36) OBVIOUS
  <2>5. /\ DOMAIN v = 1 .. 5 /\ v[1] = 0
        /\ \A k \in 1 .. 5 : k # 1 => v[k] \in {12, 36, 64, 96}
    BY <2>2, <2>4
  <2>6. \A k \in DOMAIN v : TypeAt(b2, v[k]) \in {MAPPED_ADDRESS, XOR_MAPPED_ADDRESS} <=> k = 1
    BY <2>2, <2>5
  <2>7. 1 \in DOMAIN v BY <2>5
  <2>8. {k \in DOMAIN v : TypeAt(b2, v[k]) \in {MAPPED_ADDRESS, XOR_MAPPED_ADDRESS}} = {1}
    BY <2>6, <2>7
  <2>9. Found(b2, 36) = [k \in {1} |-> AttributeAddress(b2, v[k])] BY <2>4, <2>8 DEF Found
  <2>10. Found(b2, 36) = [k \in {1} |-> m] BY <2>3, <2>5, <2>9
  <2>11. 4 * Len(words) = 36 BY <2>2
  <2> QED BY <1>2, <2>2, <2>10, <2>11 DEF Only
<1>6. CASE q.to \notin OldServers
  <2>1. words = Attribute(XOR_MAPPED_ADDRESS, XorAddress(m)) BY <1>2, <1>6 DEF Attributes
  <2>2. /\ words \in Seq(Word32) /\ Len(words) = 3 /\ BufferOK(b2)
        /\ Visits(b2, 12) = <<0>>
        /\ TypeAt(b2, 0) = XOR_MAPPED_ADDRESS /\ AddressAt(b2, 0) = XorAddress(m)
    BY <1>3, <2>1, ReadNew
  <2>3. AttributeAddress(b2, 0) = m BY <1>3, <2>2 DEF AttributeAddress
  <2>4. PICK v : v = Visits(b2, 12) OBVIOUS
  <2>5. DOMAIN v = 1 .. 1 /\ v[1] = 0 BY <2>2, <2>4
  <2>6. {k \in DOMAIN v : TypeAt(b2, v[k]) \in {MAPPED_ADDRESS, XOR_MAPPED_ADDRESS}} = {1}
    BY <2>2, <2>5
  <2>7. Found(b2, 12) = [k \in {1} |-> AttributeAddress(b2, v[k])] BY <2>4, <2>6 DEF Found
  <2>8. Found(b2, 12) = [k \in {1} |-> m] BY <2>3, <2>5, <2>7
  <2>9. 4 * Len(words) = 12 BY <2>2
  <2> QED BY <1>2, <2>2, <2>8, <2>9 DEF Only
<1> QED BY <1>5, <1>6

\* The second program finds the mapped address in a response of the old kind.
LEMMA ConeReadsMapped ==
  ASSUME nat \in NatKinds, NEW b, BufferOK(b),
         NEW q \in Requests, q.to \in OldServers, NEW from \in Address,
         NEW words, words = Attributes(q, from),
         NEW b2, b2 = Receive(b, words)
  PROVE  /\ BufferOK(b2)
         /\ {o \in ToSet(Visits(b2, 4 * Len(words))) : TypeAt(b2, o) = MAPPED_ADDRESS} = {0}
         /\ AddressAt(b2, 0) = Mapped(q.client, q.to)
<1>1. q.client \in Clients /\ q.to \in Servers BY RequestFields
<1>2. PICK m : m = Mapped(q.client, q.to) OBVIOUS
<1>3. m \in Address /\ Changed(q.to, "both") \in Address
  BY <1>1, <1>2, MappedAddress, ChangedAddress
<1>4. words = OldWords(m, from, Changed(q.to, "both")) BY <1>2 DEF Attributes, OldWords
<1>5. /\ words \in Seq(Word32) /\ Len(words) = 9 /\ BufferOK(b2)
      /\ Visits(b2, 36) = <<0, 12, 36, 64, 96>>
      /\ TypeAt(b2, 0) = MAPPED_ADDRESS /\ AddressAt(b2, 0) = m
      /\ \A o \in {12, 36, 64, 96} : TypeAt(b2, o) \notin {MAPPED_ADDRESS, XOR_MAPPED_ADDRESS}
  BY <1>3, <1>4, ReadOld
<1>6. ToSet(Visits(b2, 36)) = {0, 12, 36, 64, 96}
  <2>1. PICK v : v = Visits(b2, 36) OBVIOUS
  <2>2. DOMAIN v = {1, 2, 3, 4, 5} /\ v[1] = 0 /\ v[2] = 12 /\ v[3] = 36 /\ v[4] = 64 /\ v[5] = 96
    BY <1>5, <2>1
  <2> QED BY <2>1, <2>2 DEF ToSet
<1>7. {o \in ToSet(Visits(b2, 36)) : TypeAt(b2, o) = MAPPED_ADDRESS} = {0}
  BY <1>5, <1>6
<1>8. 4 * Len(words) = 36 BY <1>5
<1> QED BY <1>2, <1>5, <1>7, <1>8

\* An error changes nothing.
LEMMA EmptyReceived ==
  ASSUME NEW b, BufferOK(b), NEW b2, b2 = Receive(b, <<>>)
  PROVE  BufferOK(b2)
<1>1. PICK w : w = <<>> OBVIOUS
<1>2. w \in Seq(Word32) /\ Len(w) <= 9 BY <1>1
<1>3. BufferOK(b) /\ b2 = Receive(b, w) BY <1>1
<1> QED BY ONLY <1>2, <1>3, Received

-------------------------------------------------------------------------------
(* The type invariant. *)

\* The NAT is the same in every state.
LEMMA NatStays == [Next]_vars => nat' = nat
BY DEF Next, vars, natVars, symmetryVars, coneVars, handlerVars, sendVars, NatStep, SymmetryStep,
       ConeStep, Answer, Lose, Resolve, SendRequest, HandleResponse, SendSpoof,
       HandleConeResponse, NextTest

\* What a response tells, and what comes through, depends on the NAT alone.
LEMMA SameNat ==
  ASSUME nat' = nat
  PROVE  /\ \A c, s : Mapped(c, s)' = Mapped(c, s)
         /\ \A s, f : LetsIn(s, f)' <=> LetsIn(s, f)
         /\ \A q, f : Success(q, f)' = Success(q, f)
         /\ \A q : Wanted(q)' = Wanted(q)
         /\ \A r, q : AnswerTo(r, q)' <=> AnswerTo(r, q)
<1>1. \A c, s : Mapped(c, s)' = Mapped(c, s) BY DEF Mapped
<1>2. \A s, f : LetsIn(s, f)' <=> LetsIn(s, f) BY DEF LetsIn
<1>3. \A q, f : Attributes(q, f)' = Attributes(q, f) BY <1>1, Zenon DEF Attributes
<1>4. \A q, f : Success(q, f)' = Success(q, f) BY <1>3 DEF Success
<1>5. \A q : Wanted(q)' = Wanted(q) BY <1>4 DEF Wanted
<1>6. \A r, q : AnswerTo(r, q)' <=> AnswerTo(r, q) BY <1>2, <1>4, <1>5 DEF AnswerTo
<1> QED BY <1>1, <1>2, <1>4, <1>5, <1>6

\* The buffers begin empty.
LEMMA ZerosOK == BufferOK(Zeros)
<1>1. \A k \in DOMAIN Zeros : Zeros[k] = <<0, 0>> BY StunAssumption
<1>2. <<0, 0>> \in Word32 BY DEF Word32
<1>3. Zeros \in Seq(Word32)
  <2>1. Len(Zeros) \in Nat /\ DOMAIN Zeros = 1 .. Len(Zeros)
        /\ Zeros = [k \in 1 .. Len(Zeros) |-> Zeros[k]]
    BY StunAssumption
  <2> QED BY <1>1, <1>2, <2>1
<1> QED BY <1>1, <1>3 DEF BufferOK

\* Every variable begins with a value it may have.
LEMMA TypeInit == Init => TypeOK
<1> SUFFICES ASSUME Init PROVE TypeOK OBVIOUS
<1>1. nat \in NatKinds /\ requests \subseteq Requests /\ responses = {} /\ disturbed = {}
  BY DEF Init, NatInit
<1>2. /\ to_resolve \in Seq(DOMAIN AddressesOf) /\ infos = <<>> /\ i \in Nat
      /\ BufferOK(response_buffer) /\ is_behind_symmetric_nat \in BOOLEAN /\ heard = {}
  BY ZerosOK, StunAssumption DEF Init, SymmetryInit
<1>3. nat_holder \in Address BY DEF Init, SymmetryInit, NoAddress, Address, Word32
<1>4. cone_main \in -1 .. 4 /\ cone_i \in Nat /\ BufferOK(cone_buffer)
  BY ZerosOK DEF Init, ConeInit
<1>5. infos \in Seq(Servers) BY <1>2
<1> QED BY <1>1, <1>2, <1>3, <1>4, <1>5 DEF TypeOK

\* The buffer after a response is still one.
LEMMA BufferStep ==
  ASSUME nat \in NatKinds, NEW b, BufferOK(b), NEW r, NEW q \in Requests, AnswerTo(r, q)
  PROVE  BufferOK(Receive(b, r.words))
<1>1. (r.words = Attributes(q, r.from) /\ r.from \in Address) \/ r.words = <<>>
  BY ResponseFields
<1>2. PICK b2 : b2 = Receive(b, r.words) OBVIOUS
<1>3. CASE r.words = <<>> BY <1>2, <1>3, EmptyReceived
<1>4. CASE r.words = Attributes(q, r.from) /\ r.from \in Address
  BY <1>2, <1>4, FoundIsMapped
<1> QED BY <1>1, <1>2, <1>3, <1>4

\* What the answers to q can be.
LEMMA AnswersAre ==
  ASSUME NEW q, Answer(q)
  PROVE  /\ requests' = requests \ {q}
         /\ \/ /\ responses' \subseteq responses \cup {Wanted(q)}
               /\ Wanted(q) \in responses' => Wanted(q) \in responses \/ LetsIn(q.to, Wanted(q).from)
               /\ LetsIn(q.to, Wanted(q).from) => Wanted(q) \in responses'
               /\ responses \subseteq responses'
               /\ disturbed' = disturbed
            \/ /\ \E r \in {Error(q), Success(q, q.to)} : responses' = responses \cup {r}
               /\ disturbed' = disturbed \cup {"refused"}
<1>1. CASE /\ responses' = IF LetsIn(q.to, Wanted(q).from) THEN responses \cup {Wanted(q)}
                           ELSE responses
           /\ disturbed' = disturbed
  BY <1>1 DEF Answer
<1>2. CASE \E r \in Refusals(q) : /\ responses' = responses \cup {r}
                                  /\ disturbed' = disturbed \cup {"refused"}
  <2>1. Refusals(q) \subseteq {Error(q), Success(q, q.to)} BY DEF Refusals
  <2> QED BY <1>2, <2>1 DEF Answer
<1> QED BY <1>1, <1>2 DEF Answer, Wanted

\* What one round of the first program does with a response.
LEMMA Handled ==
  ASSUME TypeOK, NEW r \in responses, HandleResponse(r)
  PROVE  \/ /\ heard' = heard \cup {r.to}
            /\ nat_holder' = IF nat_holder = NoAddress THEN Mapped(r.client, r.to) ELSE nat_holder
            /\ is_behind_symmetric_nat' =
                 (is_behind_symmetric_nat \/ Mapped(r.client, r.to) # nat_holder')
         \/ UNCHANGED <<heard, nat_holder, is_behind_symmetric_nat>>
<1>1. PICK q \in Requests : AnswerTo(r, q) BY DEF TypeOK
<1>2. PICK b, b2, m : /\ b = response_buffer /\ b2 = Receive(b, r.words)
                      /\ m = Mapped(r.client, r.to)
  OBVIOUS
<1>3. PICK f : f = IF r.type = "success" THEN Found(b2, 4 * Len(r.words)) ELSE <<>> OBVIOUS
<1>4. /\ nat_holder' = Holder(f)
      /\ is_behind_symmetric_nat' = (is_behind_symmetric_nat \/ \E k \in DOMAIN f : f[k] # Holder(f))
      /\ heard' = IF r.type = "success" THEN heard \cup {r.to} ELSE heard
  <2>1. response_buffer' = b2 BY <1>2 DEF HandleResponse
  <2> QED BY <1>3, <2>1 DEF HandleResponse
<1>5. CASE r.type = "success"
  <2>1. /\ r.client = q.client /\ r.to = q.to
        /\ r.words = Attributes(q, r.from) /\ r.from \in Address
    BY <1>1, <1>5, ResponseFields
  <2>2. BufferOK(b) /\ nat \in NatKinds BY <1>2 DEF TypeOK
  <2>3. Found(b2, 4 * Len(r.words)) = Only(Mapped(q.client, q.to))
    <3>1. PICK w, from : w = r.words /\ from = r.from OBVIOUS
    <3>2. /\ BufferOK(b) /\ nat \in NatKinds /\ q \in Requests /\ from \in Address
          /\ w = Attributes(q, from) /\ b2 = Receive(b, w)
      BY <1>2, <2>1, <2>2, <3>1
    <3> QED BY ONLY <3>1, <3>2, FoundIsMapped
  <2>4. f = [k \in {1} |-> m] BY <1>2, <1>3, <1>5, <2>1, <2>3 DEF Only
  <2>5. DOMAIN f = {1} /\ f[1] = m BY <2>4
  <2>6. (CHOOSE k \in DOMAIN f : \A l \in DOMAIN f : k <= l) = 1 BY <2>5
  <2>7. Holder(f) = IF nat_holder = NoAddress THEN m ELSE nat_holder BY <2>5, <2>6 DEF Holder
  <2> QED BY <1>2, <1>4, <1>5, <2>5, <2>7
<1>6. CASE r.type # "success"
  <2>1. DOMAIN f = {} BY <1>3, <1>6
  <2>2. Holder(f) = nat_holder BY <2>1 DEF Holder
  <2> QED BY <1>4, <1>6, <2>1, <2>2 DEF TypeOK
<1> QED BY <1>5, <1>6

\* Every step leaves every variable a value it may have.
LEMMA TypeStep == TypeOK /\ [Next]_vars => TypeOK'
<1> SUFFICES ASSUME TypeOK, [Next]_vars PROVE TypeOK' OBVIOUS
<1>0. nat' = nat /\ nat' \in NatKinds BY NatStays DEF TypeOK
<1>1. \A r, q : AnswerTo(r, q)' <=> AnswerTo(r, q) BY <1>0, SameNat
<1>2. ASSUME NEW S, responses' \subseteq responses \cup S,
             \A r \in S : \E q \in Requests : AnswerTo(r, q)
      PROVE  \A r \in responses' : \E q \in Requests : AnswerTo(r, q)'
  <2>1. \A r \in responses : \E q \in Requests : AnswerTo(r, q) BY DEF TypeOK
  <2> QED BY <1>1, <1>2, <2>1
<1>3. ASSUME responses' \subseteq responses
      PROVE  \A r \in responses' : \E q \in Requests : AnswerTo(r, q)'
  <2>1. \A r \in responses : \E q \in Requests : AnswerTo(r, q) BY DEF TypeOK
  <2> QED BY <1>1, <1>3, <2>1
<1>4. CASE NatStep /\ UNCHANGED <<symmetryVars, coneVars>>
  <2>1. CASE Lose
    <3>1. /\ responses' \subseteq responses /\ requests' = requests
          /\ disturbed' = disturbed \cup {"lost"}
      BY <2>1 DEF Lose
    <3>2. \A r \in responses' : \E q \in Requests : AnswerTo(r, q)' BY <1>3, <3>1
    <3> QED BY <1>0, <1>4, <3>1, <3>2 DEF TypeOK, Disturbances, symmetryVars, coneVars
  <2>2. CASE \E q \in requests : Answer(q)
    <3>1. PICK q \in requests : Answer(q) BY <2>2
    <3>2. q \in Requests BY DEF TypeOK
    <3>3. /\ requests' \subseteq requests
          /\ disturbed' \subseteq disturbed \cup {"refused"}
          /\ responses' \subseteq responses \cup {r \in {Wanted(q), Error(q), Success(q, q.to)} : AnswerTo(r, q)}
      <4>1. AnswerTo(Error(q), q) /\ AnswerTo(Success(q, q.to), q) BY DEF AnswerTo
      <4>2. LetsIn(q.to, Wanted(q).from) => AnswerTo(Wanted(q), q) BY DEF AnswerTo
      <4> QED BY <3>1, <4>1, <4>2, AnswersAre
    <3>4. \A r \in responses' : \E p \in Requests : AnswerTo(r, p)'
      <4>1. PICK S : S = {r \in {Wanted(q), Error(q), Success(q, q.to)} : AnswerTo(r, q)} OBVIOUS
      <4>2. \A r \in S : \E p \in Requests : AnswerTo(r, p) BY <3>2, <4>1
      <4> QED BY <1>2, <3>3, <4>1, <4>2
    <3>5. requests' \subseteq Requests /\ disturbed' \subseteq Disturbances
      BY <3>3 DEF TypeOK, Disturbances
    <3> QED BY <1>0, <1>4, <3>4, <3>5 DEF TypeOK, symmetryVars, coneVars
  <2> QED BY <1>4, <2>1, <2>2 DEF NatStep
<1>5. CASE Resolve /\ UNCHANGED coneVars
  <2>1. to_resolve \in Seq(DOMAIN AddressesOf) /\ to_resolve # <<>> BY <1>5 DEF Resolve, TypeOK
  <2>2. Head(to_resolve) \in DOMAIN AddressesOf /\ Tail(to_resolve) \in Seq(DOMAIN AddressesOf)
    BY <2>1, HeadTailProperties
  <2>3. to_resolve' \in Seq(DOMAIN AddressesOf) BY <1>5, <2>2 DEF Resolve
  <2>4. infos' \in Seq(Servers)
    <3>1. <<>> \in Seq(Servers) OBVIOUS
    <3> QED BY <1>5, <2>2, <3>1, StunAssumption DEF Resolve
  <2>5. disturbed' \subseteq Disturbances BY <1>5 DEF Resolve, TypeOK, Disturbances
  <2>6. responses' = responses /\ requests' = requests BY <1>5 DEF Resolve
  <2>7. \A r \in responses' : \E q \in Requests : AnswerTo(r, q)' BY <1>3, <2>6
  <2> QED BY <1>0, <1>5, <2>3, <2>4, <2>5, <2>6, <2>7 DEF Resolve, TypeOK, handlerVars, coneVars
<1>6. CASE SendRequest /\ UNCHANGED coneVars
  <2>1. infos \in Seq(Servers) /\ infos # <<>> BY <1>6 DEF SendRequest, TypeOK
  <2>2. Head(infos) \in Servers /\ Tail(infos) \in Seq(Servers) BY <2>1, HeadTailProperties
  <2>3. infos' \in Seq(Servers) BY <1>6, <2>2 DEF SendRequest
  <2>4. requests' = requests \cup {Binding(Head(infos))} BY <1>6 DEF SendRequest, Send, Binding
  <2>5. requests' \subseteq Requests BY <2>2, <2>4 DEF Requests, TypeOK
  <2>6. responses' = responses BY <1>6 DEF SendRequest
  <2>7. \A r \in responses' : \E q \in Requests : AnswerTo(r, q)' BY <1>3, <2>6
  <2> QED BY <1>0, <1>6, <2>3, <2>5, <2>7 DEF SendRequest, TypeOK, handlerVars, coneVars
<1>7. CASE (\E r \in responses : HandleResponse(r)) /\ UNCHANGED coneVars
  <2>1. PICK r \in responses : HandleResponse(r) BY <1>7
  <2>2. PICK q \in Requests : AnswerTo(r, q) BY DEF TypeOK
  <2>3. responses' \subseteq responses BY <2>1 DEF HandleResponse, Take
  <2>4. \A x \in responses' : \E p \in Requests : AnswerTo(x, p)' BY <1>3, <2>3
  <2>5. response_buffer' = Receive(response_buffer, r.words) BY <2>1 DEF HandleResponse
  <2>6. BufferOK(Receive(response_buffer, r.words)) BY <2>2, BufferStep DEF TypeOK
  <2>7. BufferOK(response_buffer)' BY <2>5, <2>6 DEF BufferOK
  <2>8. nat_holder' \in Address /\ is_behind_symmetric_nat' \in BOOLEAN
    <3>1. r.to \in Servers /\ r.client \in Clients BY <2>2, ResponseFields, RequestFields
    <3>2. Mapped(r.client, r.to) \in Address BY <3>1, MappedAddress DEF TypeOK
    <3> QED BY <2>1, <3>2, Handled DEF TypeOK
  <2>9. heard' \subseteq Servers /\ i' \in Nat
    <3>1. r.to \in Servers BY <2>2, ResponseFields, RequestFields
    <3> QED BY <2>1, <3>1 DEF HandleResponse, TypeOK
  <2>10. disturbed' \subseteq Disturbances BY <2>1 DEF HandleResponse, Take, TypeOK, Disturbances
  <2> QED BY <1>0, <1>7, <2>1, <2>4, <2>7, <2>8, <2>9, <2>10 DEF HandleResponse, TypeOK, sendVars, coneVars
<1>8. CASE SendSpoof /\ UNCHANGED symmetryVars
  <2>1. cone_main' \in 1 .. 4 BY <1>8 DEF SendSpoof, Spoofs, TypeOK
  <2>2. requests' = requests \cup {Spoof(cone_main')} BY <1>8 DEF SendSpoof, Send, Spoof
  <2>3. requests' \subseteq Requests BY <2>1, <2>2 DEF Requests, TypeOK
  <2>4. responses' = responses BY <1>8 DEF SendSpoof
  <2>5. \A r \in responses' : \E q \in Requests : AnswerTo(r, q)' BY <1>3, <2>4
  <2> QED BY <1>0, <1>8, <2>1, <2>3, <2>5 DEF SendSpoof, TypeOK, symmetryVars
<1>9. CASE (\E r \in responses : HandleConeResponse(r)) /\ UNCHANGED symmetryVars
  <2>1. PICK r \in responses : HandleConeResponse(r) BY <1>9
  <2>2. PICK q \in Requests : AnswerTo(r, q) BY DEF TypeOK
  <2>3. responses' \subseteq responses BY <2>1 DEF HandleConeResponse, Take
  <2>4. \A x \in responses' : \E p \in Requests : AnswerTo(x, p)' BY <1>3, <2>3
  <2>5. cone_buffer' = Receive(cone_buffer, r.words) BY <2>1 DEF HandleConeResponse
  <2>6. BufferOK(Receive(cone_buffer, r.words)) BY <2>2, BufferStep DEF TypeOK
  <2>7. BufferOK(cone_buffer)' BY <2>5, <2>6 DEF BufferOK
  <2>8. cone_i' \in Nat BY <2>1 DEF HandleConeResponse, TypeOK
  <2>9. disturbed' \subseteq Disturbances BY <2>1 DEF HandleConeResponse, Take, TypeOK, Disturbances
  <2> QED BY <1>0, <1>9, <2>1, <2>4, <2>7, <2>8, <2>9 DEF HandleConeResponse, TypeOK, symmetryVars
<1>10. CASE NextTest
  <2>1. BufferOK(response_buffer)' BY <1>10, ZerosOK DEF NextTest, BufferOK
  <2> QED BY <1>0, <1>10, <2>1 DEF NextTest, StartCone, sendVars, TypeOK
<1>11. CASE UNCHANGED vars
  <2>1. responses' = responses BY <1>11 DEF vars, natVars
  <2>2. \A r \in responses' : \E q \in Requests : AnswerTo(r, q)' BY <1>3, <2>1
  <2> QED BY <1>0, <1>11, <2>2 DEF vars, natVars, symmetryVars, coneVars, TypeOK, BufferOK
<1> QED BY <1>4, <1>5, <1>6, <1>7, <1>8, <1>9, <1>10, <1>11 DEF Next, SymmetryStep, ConeStep

\* Every variable always has one of its values.
THEOREM StunTypeOK == Spec => []TypeOK
<1>1. Init => TypeOK BY TypeInit
<1>2. TypeOK /\ [Next]_vars => TypeOK' BY TypeStep
<1> QED BY <1>1, <1>2, PTL DEF Spec

-------------------------------------------------------------------------------
(* The symmetry test. *)

\* Only a response of its own changes what the first program has heard.
LEMMA OnlyHandled ==
  ASSUME [Next]_vars
  PROVE  \/ UNCHANGED <<heard, nat_holder, is_behind_symmetric_nat>>
         \/ \E r \in responses : HandleResponse(r)
BY DEF Next, vars, symmetryVars, handlerVars, SymmetryStep, Resolve, SendRequest, NextTest

\* The address that is kept stays that of a server heard, and the verdict a difference.
LEMMA HolderStep == TypeOK /\ HolderInv /\ [Next]_vars => HolderInv'
<1> SUFFICES ASSUME TypeOK, HolderInv, [Next]_vars PROVE HolderInv' OBVIOUS
<1> DEFINE Seen(s) == Mapped(STUN_CLIENT_PORT, s)
<1>1. \A s : Seen(s)' = Seen(s) BY NatStays, SameNat
<1>2. \A s \in Servers : Seen(s) # NoAddress
  BY MappedAddress DEF TypeOK, Clients
<1> HIDE DEF Seen
<1>3. /\ heard = {} => nat_holder = NoAddress
      /\ heard # {} => \E s \in heard : nat_holder = Seen(s)
      /\ is_behind_symmetric_nat <=> \E s \in heard : Seen(s) # nat_holder
      /\ heard \subseteq Servers
  BY DEF HolderInv, ReportedIsSeen, Seen, TypeOK
<1>4. CASE UNCHANGED <<heard, nat_holder, is_behind_symmetric_nat>>
  BY <1>1, <1>3, <1>4 DEF HolderInv, ReportedIsSeen, Seen
<1>5. CASE \E r \in responses : HandleResponse(r)
  <2>1. PICK r \in responses : HandleResponse(r) BY <1>5
  <2>2. CASE UNCHANGED <<heard, nat_holder, is_behind_symmetric_nat>> BY <1>4, <2>2
  <2>3. CASE /\ heard' = heard \cup {r.to}
             /\ nat_holder' = IF nat_holder = NoAddress THEN Mapped(r.client, r.to) ELSE nat_holder
             /\ is_behind_symmetric_nat' =
                  (is_behind_symmetric_nat \/ Mapped(r.client, r.to) # nat_holder')
    <3>1. r.client = STUN_CLIENT_PORT BY <2>1 DEF HandleResponse
    <3>2. PICK t : t = r.to OBVIOUS
    <3>3. Mapped(r.client, r.to) = Seen(t) BY <3>1, <3>2 DEF Seen
    <3>4. /\ heard' = heard \cup {t}
          /\ nat_holder' = IF nat_holder = NoAddress THEN Seen(t) ELSE nat_holder
          /\ is_behind_symmetric_nat' = (is_behind_symmetric_nat \/ Seen(t) # nat_holder')
      BY <2>3, <3>2, <3>3
    <3>5. /\ heard' # {} /\ \E s \in heard' : nat_holder' = Seen(s)
          /\ is_behind_symmetric_nat' <=> \E s \in heard' : Seen(s) # nat_holder'
      <4>1. CASE heard = {}
        <5>1. heard' = {t} /\ nat_holder' = Seen(t) BY <1>3, <3>4, <4>1
        <5>2. ~ is_behind_symmetric_nat BY <1>3, <4>1
        <5> QED BY <3>4, <5>1, <5>2
      <4>2. CASE heard # {}
        <5>1. nat_holder # NoAddress BY <1>2, <1>3, <4>2
        <5>2. nat_holder' = nat_holder BY <3>4, <5>1
        <5> QED BY <1>3, <3>4, <4>2, <5>2
      <4> QED BY <4>1, <4>2
    <3> QED BY <1>1, <3>5 DEF HolderInv, ReportedIsSeen, Seen
  <2> QED BY <2>1, <2>2, <2>3, Handled
<1> QED BY <1>4, <1>5, OnlyHandled

-------------------------------------------------------------------------------
(* The count of responses. *)

\* What a name stands for is finite in all.
LEMMA AddressesFinite == IsFiniteSet(Addresses(Hosts))
<1>1. ASSUME NEW s \in Addresses(Hosts) PROVE s \in Servers
  <2>1. PICK k \in DOMAIN Hosts : s \in ToSet(AddressesOf[Hosts[k]]) BY <1>1 DEF Addresses
  <2>2. Hosts[k] \in DOMAIN AddressesOf BY StunAssumption
  <2>3. AddressesOf[Hosts[k]] \in Seq(Servers) BY <2>2, StunAssumption
  <2> QED BY <2>1, <2>3 DEF ToSet
<1>2. Addresses(Hosts) \subseteq Servers BY <1>1
<1> QED BY <1>2, StunAssumption, FS_Subset

\* What one round takes from a list is the first item.
LEMMA HeadAndTail ==
  ASSUME NEW S, NEW s \in Seq(S), s # <<>>
  PROVE  /\ ToSet(s) = {Head(s)} \cup ToSet(Tail(s))
         /\ Addresses(s) = ToSet(AddressesOf[Head(s)]) \cup Addresses(Tail(s))
<1>1. PICK n \in Nat : n = Len(s) /\ n > 0 /\ DOMAIN s = 1 .. n BY EmptySeq
<1>2. PICK t : t = Tail(s) OBVIOUS
<1>3. DOMAIN t = 1 .. n - 1 /\ \A k \in 1 .. n - 1 : t[k] = s[k + 1] BY <1>1, <1>2
<1>4. Head(s) = s[1] OBVIOUS
<1>5. \A k \in DOMAIN s : k = 1 \/ (k - 1 \in DOMAIN t /\ t[k - 1] = s[k])
  BY <1>1, <1>3
<1>6. \A k \in DOMAIN t : k + 1 \in DOMAIN s /\ t[k] = s[k + 1] BY <1>1, <1>3
<1>7. 1 \in DOMAIN s BY <1>1
<1>8. ToSet(s) = {s[1]} \cup ToSet(t) BY <1>5, <1>6, <1>7 DEF ToSet
<1>9. Addresses(s) = ToSet(AddressesOf[s[1]]) \cup Addresses(t)
  BY <1>5, <1>6, <1>7 DEF Addresses
<1> QED BY <1>2, <1>4, <1>8, <1>9

\* At first every server is still to be asked.
LEMMA CountInit == Init => CountInv
<1> SUFFICES ASSUME Init PROVE CountInv OBVIOUS
<1>1. to_resolve = Hosts /\ i = 0 BY DEF Init, SymmetryInit
<1>2. Addresses(Hosts) \ Outstanding = {} BY <1>1 DEF Outstanding
<1>3. Cardinality({}) = 0 BY FS_EmptySet
<1> QED BY <1>1, <1>2, <1>3 DEF CountInv

\* No step but a loss, or a response that is counted, forgets a server.
LEMMA OutstandingStep ==
  ASSUME TypeOK, [Next]_vars, cone_main' = -1, disturbed' \cap {"lost", "unresolved"} = {}
  PROVE  /\ cone_main = -1 /\ disturbed \cap {"lost", "unresolved"} = {}
         /\ \/ Outstanding \subseteq Outstanding' /\ i' = i
            \/ (\E s : Outstanding \subseteq Outstanding' \cup {s}) /\ i' = i + 1
<1> DEFINE Asked == {x.to : x \in {y \in requests \cup responses : y.client = STUN_CLIENT_PORT}}
           Names == ToSet(infos) \cup Addresses(to_resolve)
<1>1. Outstanding = Names \cup Asked BY DEF Outstanding
<1>2. Outstanding' = Names' \cup Asked' BY DEF Outstanding
<1> HIDE DEF Names
<1>3. cone_main \in -1 .. 4 BY DEF TypeOK
<1>4. ASSUME UNCHANGED <<to_resolve, infos>> PROVE Names' = Names BY <1>4 DEF Names
<1>5. ASSUME requests \cup responses \subseteq (requests \cup responses)' PROVE Asked \subseteq Asked'
  BY <1>5
<1>6. CASE NatStep /\ UNCHANGED <<symmetryVars, coneVars>>
  <2>1. ~ Lose BY DEF Lose
  <2>2. PICK q \in requests : Answer(q) BY <1>6, <2>1 DEF NatStep
  <2>3. q \in Requests BY DEF TypeOK
  <2>4. /\ requests' = requests \ {q} /\ responses \subseteq responses'
        /\ disturbed \subseteq disturbed'
    BY <2>2, AnswersAre
  <2>5. ASSUME q.client = STUN_CLIENT_PORT PROVE \E r \in responses' : r.client = q.client /\ r.to = q.to
    <3>1. q.change = "none" /\ q.to \in Servers BY <2>3, <2>5, RequestFields
    <3>2. Changed(q.to, q.change) = q.to BY <3>1, ChangedAddress
    <3>3. Wanted(q) = Success(q, q.to) /\ Wanted(q).from = q.to BY <3>2 DEF Wanted, Success
    <3>4. LetsIn(q.to, q.to) BY DEF LetsIn
    <3>5. \E r \in {Error(q), Success(q, q.to)} : r \in responses'
      BY <2>2, <3>3, <3>4, AnswersAre
    <3> QED BY <3>5 DEF Error, Success
  <2>6. Asked \subseteq Asked' BY <2>4, <2>5
  <2>7. UNCHANGED <<to_resolve, infos, i, cone_main>> BY <1>6 DEF symmetryVars, coneVars
  <2> QED BY <1>1, <1>2, <1>4, <2>4, <2>6, <2>7
<1>7. CASE Resolve /\ UNCHANGED coneVars
  <2>1. /\ infos = <<>> /\ to_resolve # <<>> /\ to_resolve \in Seq(DOMAIN AddressesOf)
        /\ to_resolve' = Tail(to_resolve)
    BY <1>7 DEF Resolve, TypeOK
  <2>2. infos' = AddressesOf[Head(to_resolve)] /\ disturbed' = disturbed
    BY <1>7 DEF Resolve
  <2>3. Addresses(to_resolve) = ToSet(AddressesOf[Head(to_resolve)]) \cup Addresses(Tail(to_resolve))
    BY <2>1, HeadAndTail
  <2>4. ToSet(infos) = {} BY <2>1 DEF ToSet
  <2>5. Names' = ToSet(infos') \cup Addresses(to_resolve') BY DEF Names, Addresses
  <2>6. Names' = Names BY <2>1, <2>2, <2>3, <2>4, <2>5 DEF Names
  <2>7. UNCHANGED <<requests, responses, i, cone_main>> BY <1>7 DEF Resolve, handlerVars, coneVars
  <2> QED BY <1>1, <1>2, <1>5, <2>2, <2>6, <2>7
<1>8. CASE SendRequest /\ UNCHANGED coneVars
  <2>1. infos # <<>> /\ infos \in Seq(Servers) /\ infos' = Tail(infos) BY <1>8 DEF SendRequest, TypeOK
  <2>2. requests' = requests \cup {Binding(Head(infos))} /\ responses' = responses
    BY <1>8 DEF SendRequest, Send, Binding
  <2>3. ToSet(infos) = {Head(infos)} \cup ToSet(infos') BY <2>1, HeadAndTail
  <2>4. Binding(Head(infos)).client = STUN_CLIENT_PORT /\ Binding(Head(infos)).to = Head(infos)
    BY DEF Binding
  <2>5. Asked' = Asked \cup {Head(infos)} BY <2>2, <2>4
  <2>6. UNCHANGED <<to_resolve, disturbed, i, cone_main>> BY <1>8 DEF SendRequest, handlerVars, coneVars
  <2>7. Names' = ToSet(infos') \cup Addresses(to_resolve') BY DEF Names, Addresses
  <2>8. Names' = ToSet(infos') \cup Addresses(to_resolve) BY <2>6, <2>7
  <2>9. Names = ToSet(infos) \cup Addresses(to_resolve) BY DEF Names
  <2>10. Outstanding \subseteq Outstanding' BY <1>1, <1>2, <2>3, <2>5, <2>8, <2>9
  <2> QED BY <2>6, <2>10
<1>9. CASE (\E r \in responses : HandleResponse(r)) /\ UNCHANGED coneVars
  <2>1. PICK r \in responses : HandleResponse(r) BY <1>9
  <2>2. responses \subseteq responses' \cup {r} /\ requests' = requests
    BY <2>1 DEF HandleResponse, Take
  <2>3. Asked \subseteq Asked' \cup {r.to} BY <2>2
  <2>4. UNCHANGED <<to_resolve, infos, cone_main>> /\ i' = i + 1 /\ disturbed \subseteq disturbed'
    BY <1>9, <2>1 DEF HandleResponse, Take, sendVars, coneVars
  <2>5. Outstanding \subseteq Outstanding' \cup {r.to} BY <1>1, <1>2, <1>4, <2>3, <2>4
  <2> QED BY <2>4, <2>5
<1>10. CASE ConeStep /\ UNCHANGED symmetryVars
  BY <1>3, <1>10 DEF ConeStep, SendSpoof, HandleConeResponse
<1>11. CASE NextTest
  BY <1>11 DEF NextTest, StartCone
<1>12. CASE UNCHANGED vars
  <2>1. UNCHANGED <<to_resolve, infos, requests, responses, i, cone_main, disturbed>>
    BY <1>12 DEF vars, natVars, symmetryVars, coneVars
  <2> QED BY <1>1, <1>2, <1>4, <1>5, <2>1
<1> QED BY <1>6, <1>7, <1>8, <1>9, <1>10, <1>11, <1>12 DEF Next, SymmetryStep

\* No more servers are missing than responses were counted.
LEMMA CountStep == TypeOK /\ CountInv /\ [Next]_vars => CountInv'
<1> SUFFICES ASSUME TypeOK, CountInv, [Next]_vars,
                    cone_main' = -1, disturbed' \cap {"lost", "unresolved"} = {}
             PROVE  Cardinality(Addresses(Hosts) \ Outstanding') <= i'
  <2>1. (Addresses(Hosts) \ Outstanding)' = Addresses(Hosts) \ Outstanding' BY DEF Addresses
  <2> QED BY <2>1 DEF CountInv
<1>1. PICK all, old, new : all = Addresses(Hosts) /\ old = Outstanding /\ new = Outstanding' OBVIOUS
<1>2. IsFiniteSet(all) BY <1>1, AddressesFinite
<1>3. Cardinality(all \ old) <= i /\ i \in Nat BY <1>1, OutstandingStep DEF CountInv, TypeOK
<1>4. IsFiniteSet(all \ old) /\ IsFiniteSet(all \ new) BY <1>2, FS_Difference
<1>5. Cardinality(all \ old) \in Nat /\ Cardinality(all \ new) \in Nat BY <1>4, FS_CardinalityType
<1>6. CASE old \subseteq new /\ i' = i
  <2>1. all \ new \subseteq all \ old BY <1>6
  <2>2. Cardinality(all \ new) <= Cardinality(all \ old) BY <1>4, <2>1, FS_Subset
  <2> QED BY <1>1, <1>3, <1>5, <1>6, <2>2
<1>7. CASE (\E s : old \subseteq new \cup {s}) /\ i' = i + 1
  <2>1. PICK s : old \subseteq new \cup {s} BY <1>7
  <2>2. PICK more : more = (all \ old) \cup {s} OBVIOUS
  <2>3. IsFiniteSet(more) /\ Cardinality(more) \in {Cardinality(all \ old), Cardinality(all \ old) + 1}
    BY <1>4, <1>5, <2>2, FS_AddElement
  <2>4. all \ new \subseteq more BY <2>1, <2>2
  <2>5. Cardinality(all \ new) <= Cardinality(more) BY <2>3, <2>4, FS_Subset
  <2> QED BY <1>1, <1>3, <1>5, <1>7, <2>3, <2>5
<1> QED BY <1>1, <1>6, <1>7, OutstandingStep

-------------------------------------------------------------------------------
(* The second test. *)

\* The first program sends and receives nothing once the second one runs.
LEMMA TestsStep == TypeOK /\ TestsInv /\ [Next]_vars => TestsInv'
<1> SUFFICES ASSUME TypeOK, TestsInv, [Next]_vars, cone_main' >= 0 PROVE
      /\ ~ is_behind_symmetric_nat' /\ to_resolve' = <<>> /\ infos' = <<>>
      /\ \A x \in requests' \cup responses' : x.client # STUN_CLIENT_PORT
  BY DEF TestsInv, Quiet
<1>1. CASE NextTest
  BY <1>1 DEF NextTest, SymmetryOver, sendVars
<1>2. CASE ~ NextTest
  <2>1. cone_main >= 0
    <3>1. CASE SendSpoof BY <3>1 DEF SendSpoof, Spoofs
    <3>2. CASE ~ SendSpoof
      <4>1. cone_main' = cone_main
        BY <1>2, <3>2 DEF Next, vars, coneVars, ConeStep, HandleConeResponse
      <4> QED BY <4>1
    <3> QED BY <3>1, <3>2
  <2>2. /\ ~ is_behind_symmetric_nat /\ to_resolve = <<>> /\ infos = <<>>
        /\ \A x \in requests \cup responses : x.client # STUN_CLIENT_PORT
    BY <2>1 DEF TestsInv, Quiet
  <2>3. ~ Resolve /\ ~ SendRequest /\ ~ \E r \in responses : HandleResponse(r)
    BY <2>2 DEF Resolve, SendRequest, HandleResponse
  <2>4. UNCHANGED symmetryVars
    BY <1>2, <2>3 DEF Next, SymmetryStep, vars
  <2>5. CASE Lose
    BY <2>2, <2>4, <2>5 DEF Lose, symmetryVars
  <2>6. CASE \E q \in requests : Answer(q)
    <3>1. PICK q \in requests : Answer(q) BY <2>6
    <3>2. Wanted(q).client = q.client /\ Error(q).client = q.client
          /\ Success(q, q.to).client = q.client
      BY DEF Wanted, Success, Error
    <3>3. q.client # STUN_CLIENT_PORT BY <2>2
    <3>4. /\ requests' \subseteq requests
          /\ responses' \subseteq responses \cup {Wanted(q), Error(q), Success(q, q.to)}
      BY <3>1, AnswersAre
    <3> QED BY <2>2, <2>4, <3>2, <3>3, <3>4 DEF symmetryVars
  <2>7. CASE SendSpoof
    <3>1. responses' = responses /\ \A x \in requests' \ requests : x.client = STUN_CLIENT_PORT_CONE
      BY <2>7 DEF SendSpoof, Send
    <3>2. STUN_CLIENT_PORT_CONE # STUN_CLIENT_PORT
      BY DEF STUN_CLIENT_PORT, STUN_CLIENT_PORT_CONE
    <3> QED BY <2>2, <2>4, <3>1, <3>2 DEF symmetryVars
  <2>8. CASE \E r \in responses : HandleConeResponse(r)
    BY <2>2, <2>4, <2>8 DEF HandleConeResponse, Take, symmetryVars
  <2>9. CASE UNCHANGED vars
    BY <2>2, <2>4, <2>9 DEF vars, natVars, symmetryVars
  <2> QED BY <1>2, <2>3, <2>5, <2>6, <2>7, <2>8, <2>9 DEF Next, NatStep, SymmetryStep, ConeStep
<1> QED BY <1>1, <1>2

\* What the level of an answer from where the k-th request asked for says of the NAT.
LEMMA LevelOf ==
  ASSUME nat \in NatKinds, NEW k \in 1 .. 4,
         NEW from, from = Changed(original_server, Spoofs[k])
  PROVE  /\ Level(from) = IF k <= 2 THEN "restricted" ELSE "full"
         /\ LetsIn(original_server, from)
              <=> nat \in IF Level(from) = "full" THEN {"full"} ELSE {"full", "restricted"}
<1>1. original_server \in Servers BY ServersHaveAddresses
<1>2. Spoofs[k] = (IF k <= 2 THEN "port" ELSE "both") BY DEF Spoofs
<1>3. from.port # original_server.port BY <1>1, <1>2, ChangedAddress
<1>4. from.ip # original_server.ip <=> ~ (k <= 2) BY <1>1, <1>2, ChangedAddress
<1>5. Level(from) = IF k <= 2 THEN "restricted" ELSE "full" BY <1>3, <1>4 DEF Level
<1>6. from # original_server BY <1>3
<1>7. LetsIn(original_server, from) <=> (nat = "full" \/ (nat = "restricted" /\ k <= 2))
  BY <1>4, <1>6 DEF LetsIn, NatKinds
<1> QED BY <1>5, <1>7 DEF NatKinds

\* What the second program prints when it handles a response.
LEMMA ConeHandled ==
  ASSUME TypeOK, NEW r \in responses, HandleConeResponse(r)
  PROVE  \/ verdicts' = verdicts /\ \A k \in 1 .. 4 : r # Wanted(Spoof(k))
         \/ \E k \in 1 .. 4 : LET from == Changed(original_server, Spoofs[k]) IN
              /\ r = Wanted(Spoof(k)) /\ LetsIn(original_server, from)
              /\ verdicts' = verdicts \cup
                   {[level |-> Level(from), address |-> Mapped(STUN_CLIENT_PORT_CONE, original_server)]}
<1>1. PICK q \in Requests : AnswerTo(r, q) BY DEF TypeOK
<1>2. r.client = STUN_CLIENT_PORT_CONE BY DEF HandleConeResponse
<1>3. q.client # STUN_CLIENT_PORT
  BY <1>1, <1>2, ResponseFields DEF STUN_CLIENT_PORT, STUN_CLIENT_PORT_CONE
<1>4. PICK k \in 1 .. 4 : q = Spoof(k) BY <1>3, RequestFields
<1>5. PICK from : from = Changed(original_server, Spoofs[k]) OBVIOUS
<1>6. /\ q.client = STUN_CLIENT_PORT_CONE /\ q.to = original_server
      /\ q.change = Spoofs[k] /\ q.id = k
  BY <1>4 DEF Spoof
<1>7. \A l \in 1 .. 4 : /\ Wanted(Spoof(l)).id = l /\ Wanted(Spoof(l)).type = "success"
                        /\ Wanted(Spoof(l)).from = Changed(original_server, Spoofs[l])
  BY DEF Wanted, Success, Spoof
<1>8. Level(from) # "none" BY <1>5, LevelOf DEF TypeOK
<1>9. PICK b, b2, at : /\ b = cone_buffer /\ b2 = Receive(b, r.words)
                       /\ at = ToSet(Visits(b2, 4 * Len(r.words)))
  OBVIOUS
<1>10. verdicts' = verdicts \cup
         {[level |-> Level(r.from), address |-> AddressAt(b2, offset)] :
            offset \in {o \in {x \in IF r.type = "success" THEN at ELSE {} :
                                 TypeAt(b2, x) = MAPPED_ADDRESS} : Level(r.from) # "none"}}
  <2>1. cone_buffer' = b2 BY <1>9 DEF HandleConeResponse
  <2> QED BY <1>9, <2>1 DEF HandleConeResponse
<1>11. CASE r = Error(q)
  <2>1. r.type = "error" BY <1>11 DEF Error
  <2>2. verdicts' = verdicts BY <1>10, <2>1
  <2>3. \A l \in 1 .. 4 : r # Wanted(Spoof(l)) BY <1>7, <2>1
  <2> QED BY <2>2, <2>3
<1>12. CASE r = Success(q, q.to)
  <2>1. r.from = original_server /\ Level(r.from) = "none" BY <1>6, <1>12 DEF Success, Level
  <2>2. verdicts' = verdicts BY <1>10, <2>1
  <2>3. \A l \in 1 .. 4 : r # Wanted(Spoof(l))
    <3>1. ASSUME NEW l \in 1 .. 4 PROVE Level(Wanted(Spoof(l)).from) # "none"
      BY <1>7, LevelOf DEF TypeOK
    <3> QED BY <2>1, <3>1
  <2> QED BY <2>2, <2>3
<1>13. CASE r = Wanted(q) /\ LetsIn(q.to, r.from)
  <2>1. r.from = from /\ r.type = "success" BY <1>4, <1>5, <1>7, <1>13
  <2>2. r.words = Attributes(q, r.from) /\ r.from \in Address BY <1>1, <2>1, ResponseFields
  <2>3. /\ {o \in at : TypeAt(b2, o) = MAPPED_ADDRESS} = {0}
        /\ AddressAt(b2, 0) = Mapped(q.client, q.to)
    <3>1. PICK w, f : w = r.words /\ f = r.from OBVIOUS
    <3>2. /\ BufferOK(b) /\ nat \in NatKinds /\ q \in Requests /\ f \in Address
          /\ w = Attributes(q, f) /\ b2 = Receive(b, w) /\ q.to \in OldServers
      BY <1>6, <1>9, <2>2, <3>1, StunAssumption DEF TypeOK
    <3>3. /\ {o \in ToSet(Visits(b2, 4 * Len(w))) : TypeAt(b2, o) = MAPPED_ADDRESS} = {0}
          /\ AddressAt(b2, 0) = Mapped(q.client, q.to)
      BY ONLY <3>2, ConeReadsMapped
    <3> QED BY <1>9, <3>1, <3>3
  <2>4. verdicts' = verdicts \cup
          {[level |-> Level(from), address |-> Mapped(STUN_CLIENT_PORT_CONE, original_server)]}
    BY <1>6, <1>8, <1>10, <2>1, <2>3
  <2> QED BY <1>4, <1>5, <1>6, <1>13, <2>1, <2>4
<1> QED BY <1>1, <1>11, <1>12, <1>13 DEF AnswerTo

\* What is printed is so, in the state in which it is printed and ever after.
LEMMA VerdictsStep == TypeOK /\ VerdictsAreReal /\ [Next]_vars => VerdictsAreReal'
<1> SUFFICES ASSUME TypeOK, VerdictsAreReal, [Next]_vars PROVE VerdictsAreReal' OBVIOUS
<1>1. nat' = nat /\ nat \in NatKinds BY NatStays DEF TypeOK
<1>2. PICK m : m = Mapped(STUN_CLIENT_PORT_CONE, original_server) OBVIOUS
<1>3. Mapped(STUN_CLIENT_PORT_CONE, original_server)' = m BY <1>1, <1>2, SameNat
<1> DEFINE Real(v) == /\ nat \in IF v.level = "full" THEN {"full"} ELSE {"full", "restricted"}
                      /\ v.address = m
<1>4. \A v \in verdicts : Real(v) BY <1>2 DEF VerdictsAreReal
<1>5. ASSUME \A v \in verdicts' : Real(v) PROVE VerdictsAreReal'
  BY <1>1, <1>3, <1>5 DEF VerdictsAreReal
<1>6. CASE verdicts' = verdicts BY <1>4, <1>5, <1>6
<1>7. CASE \E r \in responses : HandleConeResponse(r)
  <2>1. PICK r \in responses : HandleConeResponse(r) BY <1>7
  <2>2. CASE \E k \in 1 .. 4 : LET from == Changed(original_server, Spoofs[k]) IN
               /\ r = Wanted(Spoof(k)) /\ LetsIn(original_server, from)
               /\ verdicts' = verdicts \cup {[level |-> Level(from), address |-> m]}
    <3>0. PICK k \in 1 .. 4 : \E from :
            /\ from = Changed(original_server, Spoofs[k]) /\ LetsIn(original_server, from)
            /\ verdicts' = verdicts \cup {[level |-> Level(from), address |-> m]}
      BY <2>2
    <3>1. PICK from :
            /\ from = Changed(original_server, Spoofs[k]) /\ LetsIn(original_server, from)
            /\ verdicts' = verdicts \cup {[level |-> Level(from), address |-> m]}
      BY <3>0
    <3>2. PICK v : v = [level |-> Level(from), address |-> m] OBVIOUS
    <3>3. v.level = Level(from) /\ v.address = m BY <3>2
    <3>4. Real(v) BY <1>1, <3>1, <3>3, LevelOf
    <3> HIDE DEF Real
    <3> QED BY <1>4, <1>5, <3>1, <3>2, <3>4
  <2> QED BY <1>2, <1>6, <2>1, <2>2, ConeHandled
<1>8. verdicts' = verdicts \/ \E r \in responses : HandleConeResponse(r)
  BY DEF Next, vars, coneVars, ConeStep, SendSpoof, NextTest, StartCone
<1> QED BY <1>6, <1>7, <1>8

\* Unless something goes wrong, no request of the second test is forgotten, from when
\* it is sent until its answer was printed or kept out by the NAT.
LEMMA SpoofStep ==
  ASSUME TypeOK, TestsInv, [Next]_vars, Reliable',
         Reliable => \A k \in 1 .. cone_main : SpoofInv(k),
         NEW k \in 1 .. cone_main'
  PROVE  SpoofInv(k)'
<1>1. nat' = nat /\ nat \in NatKinds BY NatStays DEF TypeOK
<1>2. PICK from, level : from = Changed(original_server, Spoofs[k]) /\ level = Level(from) OBVIOUS
<1>3. PICK q, w : q = Spoof(k) /\ w = Wanted(q) OBVIOUS
<1>4. PICK in \in BOOLEAN : in <=> LetsIn(original_server, from) OBVIOUS
<1>5. SpoofInv(k) <=> q \in requests
                      \/ (in => w \in responses \/ \E v \in verdicts : v.level = level)
  BY <1>2, <1>3, <1>4 DEF SpoofInv
<1>6. SpoofInv(k)' <=> q \in requests'
                      \/ (in => w \in responses' \/ \E v \in verdicts' : v.level = level)
  <2>1. /\ Wanted(Spoof(k))' = w /\ Spoof(k)' = q
        /\ LetsIn(original_server, Changed(original_server, Spoofs[k]))' <=> in
        /\ Level(Changed(original_server, Spoofs[k]))' = level
    BY <1>1, <1>2, <1>3, <1>4, SameNat DEF Spoof, Changed, Spoofs, Level
  <2> QED BY <2>1 DEF SpoofInv
<1>7. /\ q.client = STUN_CLIENT_PORT_CONE /\ q.to = original_server
      /\ w.from = from /\ w.client = STUN_CLIENT_PORT_CONE
  BY <1>2, <1>3 DEF Spoof, Wanted, Success
<1>8. cone_main \in -1 .. 4 BY DEF TypeOK
<1>9. CASE SendSpoof
  <2>1. /\ cone_main' = cone_main + 1 /\ requests' = requests \cup {Spoof(cone_main')}
        /\ responses' = responses /\ verdicts' = verdicts /\ Reliable
    BY <1>9 DEF SendSpoof, Send, Spoof, Reliable
  <2>2. CASE k = cone_main' BY <1>3, <1>6, <2>1, <2>2
  <2>3. CASE k # cone_main'
    <3>1. k \in 1 .. cone_main BY <1>8, <2>1, <2>3
    <3> QED BY <1>5, <1>6, <2>1, <3>1
  <2> QED BY <2>2, <2>3
<1>10. CASE NextTest BY <1>10 DEF NextTest, StartCone
<1>11. CASE ~ SendSpoof /\ ~ NextTest
  <2>1. cone_main' = cone_main
    BY <1>11 DEF Next, vars, coneVars, ConeStep, HandleConeResponse
  <2>2. k \in 1 .. cone_main /\ cone_main >= 0 BY <1>8, <2>1
  <2>3. /\ to_resolve = <<>> /\ infos = <<>>
        /\ \A x \in requests \cup responses : x.client # STUN_CLIENT_PORT
    BY <2>2 DEF TestsInv, Quiet
  <2>4. ~ Resolve /\ ~ SendRequest /\ ~ \E r \in responses : HandleResponse(r)
    BY <2>3 DEF Resolve, SendRequest, HandleResponse
  <2>5. ~ Lose BY DEF Lose, Reliable
  <2>6. CASE (\E x \in requests : Answer(x)) /\ UNCHANGED <<symmetryVars, coneVars>>
    <3>1. PICK x \in requests : Answer(x) BY <2>6
    <3>2. /\ requests' = requests \ {x} /\ responses \subseteq responses'
          /\ Reliable
          /\ LetsIn(x.to, Wanted(x).from) => Wanted(x) \in responses'
      BY <3>1, AnswersAre DEF Reliable
    <3>3. verdicts' = verdicts BY <2>6 DEF coneVars
    <3>4. SpoofInv(k) BY <2>2, <3>2
    <3>5. CASE x = q BY <1>3, <1>4, <1>6, <1>7, <3>2, <3>5
    <3>6. CASE x # q BY <1>5, <1>6, <3>2, <3>3, <3>4, <3>6
    <3> QED BY <3>5, <3>6
  <2>7. CASE (\E r \in responses : HandleConeResponse(r)) /\ UNCHANGED symmetryVars
    <3>1. PICK r \in responses : HandleConeResponse(r) BY <2>7
    <3>2. /\ requests' = requests /\ responses \subseteq responses' \cup {r} /\ Reliable
          /\ verdicts \subseteq verdicts'
      BY <3>1 DEF HandleConeResponse, Take, Reliable
    <3>3. SpoofInv(k) BY <2>2, <3>2
    <3>4. CASE r # w BY <1>5, <1>6, <3>2, <3>3, <3>4
    <3>5. CASE r = w
      <4>1. k \in 1 .. 4 BY <1>8, <2>2
      <4>2. PICK l \in 1 .. 4 :
              /\ r = Wanted(Spoof(l))
              /\ [level |-> Level(Changed(original_server, Spoofs[l])),
                  address |-> Mapped(STUN_CLIENT_PORT_CONE, original_server)] \in verdicts'
        BY <1>3, <3>1, <3>5, <4>1, ConeHandled
      <4>3. r.id = l /\ w.id = k BY <1>3, <4>2 DEF Wanted, Success, Spoof
      <4>4. l = k BY <3>5, <4>3
      <4>5. \E v \in verdicts' : v.level = level BY <1>2, <4>2, <4>4
      <4> QED BY <1>6, <4>5
    <3> QED BY <3>4, <3>5
  <2>8. CASE UNCHANGED vars
    <3>1. UNCHANGED <<requests, responses, verdicts>> /\ Reliable
      BY <2>8 DEF vars, natVars, coneVars, Reliable
    <3> QED BY <1>5, <1>6, <2>2, <3>1
  <2> QED BY <1>11, <2>4, <2>5, <2>6, <2>7, <2>8 DEF Next, NatStep, SymmetryStep, ConeStep
<1> QED BY <1>9, <1>10, <1>11

\* A set of some of the four numbers, and one of them more or less.
LEMMA SomeOfFour ==
  ASSUME NEW S \in SUBSET (1 .. 4), NEW k
  PROVE  /\ IsFiniteSet(S) /\ Cardinality(S) \in Nat
         /\ Cardinality(S \cup {k}) <= Cardinality(S) + 1
         /\ k \in S => Cardinality(S \ {k}) = Cardinality(S) - 1
<1>1. IsFiniteSet(1 .. 4)
  <2>1. 1 \in Int /\ 4 \in Int OBVIOUS
  <2> QED BY <2>1, FS_Interval
<1>2. IsFiniteSet(S) BY <1>1, FS_Subset
<1>3. Cardinality(S) \in Nat BY <1>2, FS_CardinalityType
<1>4. Cardinality(S \cup {k}) = IF k \in S THEN Cardinality(S) ELSE Cardinality(S) + 1
  BY ONLY <1>2, FS_AddElement
<1>5. Cardinality(S \ {k}) = IF k \in S THEN Cardinality(S) - 1 ELSE Cardinality(S)
  BY ONLY <1>2, FS_RemoveElement
<1> QED BY <1>2, <1>3, <1>4, <1>5

\* A subset of a set of some of the four numbers is no larger.
LEMMA FewerOfFour ==
  ASSUME NEW S \in SUBSET (1 .. 4), NEW T \in SUBSET S
  PROVE  Cardinality(T) <= Cardinality(S)
BY SomeOfFour, FS_Subset

\* While nothing is refused, lost or repeated, every response that is counted was
\* asked for, and is on its way no longer.
LEMMA FourStep == TypeOK /\ TestsInv /\ FourInv /\ [Next]_vars => FourInv'
<1> SUFFICES ASSUME TypeOK, TestsInv, FourInv, [Next]_vars PROVE FourInv' OBVIOUS
<1>1. nat' = nat BY NatStays
<1>2. cone_main \in -1 .. 4 /\ cone_i \in Nat BY DEF TypeOK
<1>3. PICK w : w = [k \in 1 .. 4 |-> Wanted(Spoof(k))] OBVIOUS
<1>4. \A k \in 1 .. 4 : Wanted(Spoof(k)) = w[k] /\ Wanted(Spoof(k))' = w[k]
  BY <1>1, <1>3, SameNat DEF Spoof, Spoofs
<1>5. \A k \in 1 .. 4 : /\ w[k].id = k /\ w[k].client = STUN_CLIENT_PORT_CONE
                        /\ Spoof(k).id = k /\ Spoof(k).client = STUN_CLIENT_PORT_CONE
  BY <1>4 DEF Wanted, Success, Spoof
<1>6. PICK A, B, A2, B2 :
        /\ A = {k \in 1 .. 4 : Spoof(k) \in requests} /\ B = {k \in 1 .. 4 : w[k] \in responses}
        /\ A2 = {k \in 1 .. 4 : Spoof(k) \in requests'} /\ B2 = {k \in 1 .. 4 : w[k] \in responses'}
  OBVIOUS
<1>7. /\ ConeAsked = A /\ ConeBack = B /\ ConeAsked' = A2 /\ ConeBack' = B2
  BY <1>4, <1>6 DEF ConeAsked, ConeBack, Spoof, Spoofs
<1>8. /\ A \in SUBSET (1 .. 4) /\ B \in SUBSET (1 .. 4) /\ A2 \in SUBSET (1 .. 4) /\ B2 \in SUBSET (1 .. 4)
      /\ Cardinality(A) \in Nat /\ Cardinality(B) \in Nat
      /\ Cardinality(A2) \in Nat /\ Cardinality(B2) \in Nat
  BY <1>6, SomeOfFour
<1> DEFINE Ours(S) == \A r \in S : r.client = STUN_CLIENT_PORT_CONE => \E k \in 1 .. 4 : r = w[k]
<1>9. FourInv' <=>
        /\ cone_main' = -1 => cone_i' = 0
        /\ cone_main' >= 0 /\ Smooth' =>
             Ours(responses') /\ cone_i' + Cardinality(A2) + Cardinality(B2) <= cone_main'
  BY <1>4, <1>7 DEF FourInv
<1>10. /\ cone_main = -1 => cone_i = 0
       /\ cone_main >= 0 /\ Smooth =>
            Ours(responses) /\ cone_i + Cardinality(A) + Cardinality(B) <= cone_main
  BY <1>4, <1>7 DEF FourInv
<1>11. CASE NextTest
  <2>1. /\ requests' = {} /\ responses' = {} /\ cone_main' = 0 /\ cone_i' = 0
    BY <1>10, <1>11 DEF NextTest, StartCone
  <2>2. A2 = {} /\ B2 = {} BY <1>6, <2>1
  <2> QED BY <1>9, <2>1, <2>2, FS_EmptySet
<1>12. CASE cone_main = -1 /\ ~ NextTest
  <2>1. ~ ConeStep BY <1>12 DEF ConeStep, SendSpoof, HandleConeResponse
  <2>2. UNCHANGED coneVars BY <1>12, <2>1 DEF Next, vars
  <2> QED BY <1>9, <1>10, <1>12, <2>2 DEF coneVars
<1>13. CASE cone_main >= 0 /\ ~ NextTest
  <2>0. \A x \in requests \cup responses : x.client # STUN_CLIENT_PORT
    BY <1>13 DEF TestsInv, Quiet
  <2>1. ~ Resolve /\ ~ SendRequest /\ ~ \E r \in responses : HandleResponse(r)
    BY <1>13, <2>0 DEF TestsInv, Resolve, SendRequest, HandleResponse
  <2>2. cone_main' >= 0
    <3>1. CASE SendSpoof BY <1>2, <3>1 DEF SendSpoof, Spoofs
    <3>2. CASE ~ SendSpoof
      <4>1. cone_main' = cone_main
        BY <1>13, <3>2 DEF Next, vars, coneVars, ConeStep, HandleConeResponse
      <4> QED BY <1>13, <4>1
    <3> QED BY <3>1, <3>2
  <2>3. SUFFICES ASSUME Smooth'
                 PROVE  Ours(responses') /\ cone_i' + Cardinality(A2) + Cardinality(B2) <= cone_main'
    BY <1>9, <2>2
  <2>4. ASSUME disturbed \subseteq disturbed'
        PROVE  Ours(responses) /\ cone_i + Cardinality(A) + Cardinality(B) <= cone_main
    BY <1>10, <1>13, <2>3, <2>4 DEF Smooth, Reliable
  <2>5. CASE SendSpoof
    <3>1. /\ cone_main' = cone_main + 1 /\ requests' = requests \cup {Spoof(cone_main')}
          /\ UNCHANGED <<responses, disturbed, cone_i>>
      BY <2>5 DEF SendSpoof, Send, Spoof
    <3>2. Ours(responses) /\ cone_i + Cardinality(A) + Cardinality(B) <= cone_main BY <2>4, <3>1
    <3>3. A2 \in SUBSET (A \cup {cone_main'}) /\ B2 = B
      <4>1. cone_main' \in 1 .. 4 BY <1>2, <2>5, <3>1 DEF SendSpoof, Spoofs
      <4>2. ASSUME NEW k \in A2, k \notin A PROVE k = cone_main'
        <5>1. Spoof(k) = Spoof(cone_main') /\ k \in 1 .. 4 BY <1>6, <3>1, <4>2
        <5> QED BY <1>5, <4>1, <5>1
      <4> QED BY <1>6, <3>1, <4>2
    <3>4. A \cup {cone_main'} \in SUBSET (1 .. 4)
      BY <1>2, <1>8, <2>5, <3>1 DEF SendSpoof, Spoofs
    <3>5. Cardinality(A2) <= Cardinality(A \cup {cone_main'}) BY <3>3, <3>4, FewerOfFour
    <3>6. Cardinality(A \cup {cone_main'}) <= Cardinality(A) + 1 BY <1>8, SomeOfFour
    <3>7. Cardinality(A \cup {cone_main'}) \in Nat BY <3>4, SomeOfFour
    <3>8. Cardinality(A2) <= Cardinality(A) + 1 BY <1>8, <3>5, <3>6, <3>7
    <3>9. cone_i + Cardinality(A2) + Cardinality(B) <= cone_main + 1
      BY ONLY <1>2, <1>8, <3>2, <3>8
    <3> QED BY <3>1, <3>2, <3>3, <3>9
  <2>6. CASE (\E q \in requests : Answer(q)) /\ UNCHANGED <<symmetryVars, coneVars>>
    <3>1. PICK q \in requests : Answer(q) BY <2>6
    <3>2. q \in Requests /\ q.client # STUN_CLIENT_PORT BY <2>0 DEF TypeOK
    <3>3. PICK k \in 1 .. 4 : q = Spoof(k) BY <3>2, RequestFields
    <3>4. /\ requests' = requests \ {q} /\ responses' \subseteq responses \cup {w[k]}
          /\ disturbed' = disturbed
      BY <1>4, <2>3, <3>1, <3>3, AnswersAre DEF Smooth, Reliable
    <3>5. Ours(responses) /\ cone_i + Cardinality(A) + Cardinality(B) <= cone_main BY <2>4, <3>4
    <3>6. Ours(responses') BY <3>4, <3>5
    <3>7. k \in A BY <1>6, <3>3
    <3>8. A2 = A \ {k}
      <4>1. \A j \in 1 .. 4 : Spoof(j) = q => j = k BY <1>5, <3>3
      <4> QED BY <1>6, <3>3, <3>4, <4>1
    <3>9. B2 \in SUBSET (B \cup {k})
      <4>1. \A j \in 1 .. 4 : w[j] = w[k] => j = k BY <1>5
      <4> QED BY <1>6, <3>4, <4>1
    <3>10. Cardinality(A2) = Cardinality(A) - 1 BY <1>8, <3>7, <3>8, SomeOfFour
    <3>11. B \cup {k} \in SUBSET (1 .. 4) BY <1>8
    <3>12. Cardinality(B2) <= Cardinality(B \cup {k}) BY <3>9, <3>11, FewerOfFour
    <3>13. Cardinality(B \cup {k}) <= Cardinality(B) + 1 BY <1>8, SomeOfFour
    <3>14. Cardinality(B \cup {k}) \in Nat BY <3>11, SomeOfFour
    <3>15. cone_i + Cardinality(A2) + Cardinality(B2) <= cone_main
      BY ONLY <1>2, <1>8, <3>5, <3>10, <3>12, <3>13, <3>14
    <3>16. cone_i' = cone_i /\ cone_main' = cone_main BY <2>6 DEF coneVars
    <3> QED BY <3>6, <3>15, <3>16
  <2>7. CASE (\E r \in responses : HandleConeResponse(r)) /\ UNCHANGED symmetryVars
    <3>1. PICK r \in responses : HandleConeResponse(r) BY <2>7
    <3>2. /\ r.client = STUN_CLIENT_PORT_CONE /\ responses' = responses \ {r}
          /\ cone_i' = cone_i + 1 /\ UNCHANGED <<requests, disturbed, cone_main>>
      BY <2>3, <3>1 DEF HandleConeResponse, Take, Smooth
    <3>3. Ours(responses) /\ cone_i + Cardinality(A) + Cardinality(B) <= cone_main BY <2>4, <3>2
    <3>4. PICK k \in 1 .. 4 : r = w[k] BY <3>2, <3>3
    <3>5. k \in B BY <1>6, <3>4
    <3>6. A2 = A BY <1>6, <3>2
    <3>7. B2 = B \ {k}
      <4>1. \A j \in 1 .. 4 : w[j] = r => j = k BY <1>5, <3>4
      <4> QED BY <1>6, <3>2, <3>4, <4>1
    <3>8. Cardinality(B2) = Cardinality(B) - 1 BY <1>8, <3>5, <3>7, SomeOfFour
    <3>9. cone_i + 1 + Cardinality(A) + Cardinality(B2) <= cone_main
      BY ONLY <1>2, <1>8, <3>3, <3>8
    <3>10. Ours(responses') BY <3>2, <3>3
    <3> QED BY <3>2, <3>6, <3>9, <3>10
  <2>8. CASE UNCHANGED vars
    <3>1. UNCHANGED <<requests, responses, disturbed, cone_i, cone_main>>
      BY <2>8 DEF vars, natVars, coneVars
    <3>2. A2 = A /\ B2 = B BY <1>6, <3>1
    <3> QED BY <2>4, <3>1, <3>2
  <2>9. ~ Lose BY <2>3 DEF Lose, Smooth, Reliable
  <2> HIDE DEF Ours
  <2> QED BY <1>13, <2>1, <2>5, <2>6, <2>7, <2>8, <2>9 DEF Next, NatStep, SymmetryStep, ConeStep
<1> QED BY <1>2, <1>11, <1>12, <1>13

-------------------------------------------------------------------------------
(* The invariant, and what follows from it. *)

\* It holds at the start.
LEMMA InvInit == Init => Inv
<1> SUFFICES ASSUME Init PROVE Inv OBVIOUS
<1>1. TypeOK BY TypeInit
<1>2. HolderInv BY DEF Init, SymmetryInit, HolderInv, ReportedIsSeen
<1>3. CountInv BY CountInit
<1>4. cone_main = -1 /\ cone_i = 0 /\ verdicts = {} BY DEF Init, ConeInit
<1>5. TestsInv BY <1>4 DEF TestsInv
<1>6. ConeInv BY <1>4 DEF ConeInv, VerdictsAreReal, FourInv
<1> QED BY <1>1, <1>2, <1>3, <1>5, <1>6 DEF Inv

\* Every step preserves it.
LEMMA InvStep == Inv /\ [Next]_vars => Inv'
<1> SUFFICES ASSUME Inv, [Next]_vars PROVE Inv' OBVIOUS
<1>1. TypeOK' BY TypeStep DEF Inv
<1>2. HolderInv' BY HolderStep DEF Inv
<1>3. CountInv' BY CountStep DEF Inv
<1>4. TestsInv' BY TestsStep DEF Inv
<1>5. ConeInv'
  <2>1. VerdictsAreReal' BY VerdictsStep DEF Inv, ConeInv
  <2>2. ASSUME Reliable', NEW k \in 1 .. cone_main' PROVE SpoofInv(k)'
    BY <2>2, SpoofStep DEF Inv, ConeInv
  <2>3. FourInv' BY FourStep DEF Inv, ConeInv
  <2> QED BY <2>1, <2>2, <2>3 DEF ConeInv
<1> QED BY <1>1, <1>2, <1>3, <1>4, <1>5 DEF Inv

\* The invariant holds in every state.
THEOREM StunInv == Spec => []Inv
<1> QED BY InvInit, InvStep, PTL DEF Spec

\* Two addresses seen by servers that were heard differ, so each destination has its own.
THEOREM StunSymmetricIsReal == Spec => []SymmetricIsReal
<1>1. Inv => SymmetricIsReal
  <2> SUFFICES ASSUME Inv, is_behind_symmetric_nat PROVE nat = "symmetric"
    BY DEF SymmetricIsReal
  <2>1. PICK s \in heard : Mapped(STUN_CLIENT_PORT, s) # nat_holder BY DEF Inv, HolderInv
  <2>2. PICK t \in heard : nat_holder = Mapped(STUN_CLIENT_PORT, t)
    BY <2>1 DEF Inv, HolderInv, ReportedIsSeen
  <2>3. Mapped(STUN_CLIENT_PORT, s) # Mapped(STUN_CLIENT_PORT, t) BY <2>1, <2>2
  <2> QED BY <2>3 DEF Mapped
<1> QED BY <1>1, StunInv, PTL

\* One of two servers sees another address than the one that is kept.
LEMMA TwoServersTell == Inv => SymmetricIsFound
<1> SUFFICES ASSUME Inv, nat = "symmetric", Cardinality(heard) >= 2
             PROVE  is_behind_symmetric_nat
  BY DEF SymmetricIsFound
<1>1. heard \subseteq Servers BY DEF Inv, TypeOK
<1>2. heard # {} BY FS_EmptySet
<1>3. PICK t \in heard : nat_holder = Mapped(STUN_CLIENT_PORT, t)
  BY <1>2 DEF Inv, HolderInv, ReportedIsSeen
<1>4. PICK s \in heard : s # t
  <2>1. Cardinality({t}) = 1 BY FS_Singleton
  <2>2. heard # {t} BY <2>1
  <2> QED BY <2>2
<1>5. ExternalPort[<<STUN_CLIENT_PORT, s>>] # ExternalPort[<<STUN_CLIENT_PORT, t>>]
  BY <1>1, <1>4, StunAssumption
<1>6. /\ Mapped(STUN_CLIENT_PORT, s).port = ExternalPort[<<STUN_CLIENT_PORT, s>>]
      /\ Mapped(STUN_CLIENT_PORT, t).port = ExternalPort[<<STUN_CLIENT_PORT, t>>]
  BY DEF Mapped
<1>7. Mapped(STUN_CLIENT_PORT, s) # nat_holder BY <1>3, <1>5, <1>6
<1> QED BY <1>7 DEF Inv, HolderInv

\* A symmetric NAT is found with any two of the servers, whichever answer first.
THEOREM StunSymmetricIsFound == Spec => []SymmetricIsFound
<1> QED BY TwoServersTell, StunInv, PTL

\* The address that the program prints is the one that a server it has heard sees.
THEOREM StunReportedIsSeen == Spec => []ReportedIsSeen
<1>1. Inv => ReportedIsSeen BY DEF Inv, HolderInv
<1> QED BY <1>1, StunInv, PTL

\* As many responses as the program waits for come, unless a name was not resolved
\* or a packet was lost.
THEOREM StunWaitsOnlyForLost == Spec => []WaitsOnlyForLost
<1>1. Inv => WaitsOnlyForLost
  <2> SUFFICES ASSUME Inv, cone_main = -1, i < num_response_expected, to_resolve = <<>>,
                      infos = <<>>, Quiet(STUN_CLIENT_PORT),
                      disturbed \cap {"lost", "unresolved"} = {}
               PROVE  FALSE
    BY DEF WaitsOnlyForLost, Running
  <2>1. ToSet(infos) = {} /\ Addresses(to_resolve) = {} BY DEF ToSet, Addresses
  <2>2. {y \in requests \cup responses : y.client = STUN_CLIENT_PORT} = {} BY DEF Quiet
  <2>3. Outstanding = {} BY <2>1, <2>2 DEF Outstanding
  <2>4. Addresses(Hosts) \ Outstanding = Addresses(Hosts) BY <2>3
  <2>5. Cardinality(Addresses(Hosts)) <= i BY <2>4 DEF Inv, CountInv
  <2>6. Cardinality(Addresses(Hosts)) \in Nat BY AddressesFinite, FS_CardinalityType
  <2>7. i \in Nat BY DEF Inv, TypeOK
  <2> QED BY <2>5, <2>6, <2>7, StunAssumption
<1> QED BY <1>1, StunInv, PTL

\* What the second program prints of the NAT and of its address is so.
THEOREM StunVerdictsAreReal == Spec => []VerdictsAreReal
<1>1. Inv => VerdictsAreReal BY DEF Inv, ConeInv
<1> QED BY <1>1, StunInv, PTL

\* When nothing was lost or refused, the two tests together tell every kind of NAT,
\* as soon as the second one has counted its responses, unless a repeated response
\* took the place of one that is still to be read.
THEOREM StunConclusionHolds == Spec => []ConclusionHolds
<1>1. Inv => ConclusionHolds
  <2> SUFFICES ASSUME Inv, ConeOver, Reliable, "repeated" \in disturbed => ConeRead,
                      Cardinality(heard) >= 2
               PROVE  Concluded = nat
    BY DEF ConclusionHolds, Reliable
  <2>1. /\ cone_main = 4
        /\ \A k \in 1 .. 4 : Spoof(k) \notin requests /\ Wanted(Spoof(k)) \notin responses
    <3>1. CASE ConeRead
      <4>1. \A k \in 1 .. 4 : /\ Spoof(k).client = STUN_CLIENT_PORT_CONE
                              /\ Wanted(Spoof(k)).client = STUN_CLIENT_PORT_CONE
        BY DEF Spoof, Wanted, Success
      <4> QED BY <3>1, <4>1 DEF ConeRead, Quiet, Spoofs
    <3>2. CASE ~ ConeRead
      <4>1. Smooth BY <3>2 DEF Smooth
      <4>2. cone_i >= 4 /\ cone_i \in Nat
        <5>1. num_cone_expected \in Nat /\ num_cone_expected >= 4 BY StunAssumption DEF Spoofs
        <5>2. cone_i >= num_cone_expected /\ cone_i \in Nat BY <3>2 DEF ConeOver, Inv, TypeOK
        <5> QED BY <5>1, <5>2
      <4>3. cone_main \in -1 .. 4 BY DEF Inv, TypeOK
      <4>4. cone_main >= 0 BY <4>2, <4>3 DEF Inv, ConeInv, FourInv
      <4>5. cone_i + Cardinality(ConeAsked) + Cardinality(ConeBack) <= cone_main
        BY <4>1, <4>4 DEF Inv, ConeInv, FourInv
      <4>6. ConeAsked \in SUBSET (1 .. 4) /\ ConeBack \in SUBSET (1 .. 4)
        BY DEF ConeAsked, ConeBack
      <4>7. /\ IsFiniteSet(ConeAsked) /\ IsFiniteSet(ConeBack)
            /\ Cardinality(ConeAsked) \in Nat /\ Cardinality(ConeBack) \in Nat
        BY <4>6, SomeOfFour
      <4>8. cone_main = 4 /\ Cardinality(ConeAsked) = 0 /\ Cardinality(ConeBack) = 0
        BY ONLY <4>2, <4>3, <4>5, <4>7
      <4>9. ConeAsked = {} /\ ConeBack = {} BY <4>7, <4>8, FS_EmptySet
      <4> QED BY <4>8, <4>9 DEF ConeAsked, ConeBack
    <3> QED BY <3>1, <3>2
  <2>2. nat \in {"full", "restricted", "port_restricted"}
    <3>1. ~ is_behind_symmetric_nat BY <2>1 DEF Inv, TestsInv
    <3>2. nat # "symmetric" BY <3>1, TwoServersTell DEF SymmetricIsFound
    <3> QED BY <3>2 DEF Inv, TypeOK, NatKinds
  <2>3. ASSUME NEW k \in 1 .. 4,
               nat \in IF k <= 2 THEN {"full", "restricted"} ELSE {"full"}
        PROVE  \E v \in verdicts : v.level = IF k <= 2 THEN "restricted" ELSE "full"
    <3>1. SpoofInv(k) BY <2>1 DEF Inv, ConeInv
    <3>3. Spoof(k) \notin requests /\ Wanted(Spoof(k)) \notin responses BY <2>1
    <3>4. PICK from : from = Changed(original_server, Spoofs[k]) OBVIOUS
    <3>5. LetsIn(original_server, from) => \E v \in verdicts : v.level = Level(from)
      BY <3>1, <3>3, <3>4 DEF SpoofInv
    <3>6. Level(from) = IF k <= 2 THEN "restricted" ELSE "full"
      BY <3>4, LevelOf DEF Inv, TypeOK
    <3>7. LetsIn(original_server, from) BY <2>3, <3>4, <3>6, LevelOf DEF Inv, TypeOK
    <3> QED BY <3>5, <3>6, <3>7
  <2>4. \A v \in verdicts : nat \in IF v.level = "full" THEN {"full"} ELSE {"full", "restricted"}
    BY DEF Inv, ConeInv, VerdictsAreReal
  <2>5. PICK levels : levels = {v.level : v \in verdicts} OBVIOUS
  <2>6. Concluded = IF "full" \in levels THEN "full"
                    ELSE IF "restricted" \in levels THEN "restricted" ELSE "port_restricted"
    BY <2>5 DEF Concluded
  <2>7. CASE nat = "full"
    <3>1. "full" \in levels BY <2>3, <2>5, <2>7
    <3> QED BY <2>6, <2>7, <3>1
  <2>8. CASE nat = "restricted"
    <3>1. "restricted" \in levels
      <4>1. 1 \in 1 .. 4 /\ 1 <= 2 OBVIOUS
      <4> QED BY <2>3, <2>5, <2>8, <4>1
    <3>2. "full" \notin levels BY <2>4, <2>5, <2>8
    <3> QED BY <2>6, <2>8, <3>1, <3>2
  <2>9. CASE nat = "port_restricted"
    <3>1. levels = {} BY <2>4, <2>5, <2>9
    <3> QED BY <2>6, <2>9, <3>1
  <2> QED BY <2>2, <2>7, <2>8, <2>9
<1> QED BY <1>1, StunInv, PTL

\* What AddressesAreAttributes asks of the walk over one response.
Walked(buffer, words) ==
  LET visits == Visits(buffer, 4 * Len(words))
      starts == Starts(words)
  IN  /\ \A k \in DOMAIN starts : k <= 2 => visits[k] = starts[k]
      /\ \A k \in DOMAIN visits :
           TypeAt(buffer, visits[k]) \in {MAPPED_ADDRESS, XOR_MAPPED_ADDRESS}
             => visits[k] \in ToSet(starts)

\* The walk reads the attributes of an answer where they are.
LEMMA WalkOfAnswer ==
  ASSUME nat \in NatKinds, NEW b, BufferOK(b),
         NEW q \in Requests, NEW from \in Address,
         NEW words, words = Attributes(q, from),
         NEW b2, b2 = Receive(b, words)
  PROVE  Walked(b2, words)
<1>1. q.client \in Clients /\ q.to \in Servers BY RequestFields
<1>2. PICK m : m = Mapped(q.client, q.to) OBVIOUS
<1>3. m \in Address /\ XorAddress(m) \in Address /\ Changed(q.to, "both") \in Address
  BY <1>1, <1>2, MappedAddress, ChangedAddress
<1>4. PICK v, s : v = Visits(b2, 4 * Len(words)) /\ s = Starts(words) OBVIOUS
<1>5. SUFFICES /\ \A k \in DOMAIN s : k <= 2 => v[k] = s[k]
               /\ \A k \in DOMAIN v :
                    TypeAt(b2, v[k]) \in {MAPPED_ADDRESS, XOR_MAPPED_ADDRESS} => v[k] \in ToSet(s)
  BY <1>4 DEF Walked
<1>6. CASE q.to \in OldServers
  <2>1. words = OldWords(m, from, Changed(q.to, "both")) BY <1>2, <1>6 DEF Attributes, OldWords
  <2>2. /\ Len(words) = 9 /\ Visits(b2, 36) = <<0, 12, 36, 64, 96>>
        /\ \A o \in {12, 36, 64, 96} : TypeAt(b2, o) \notin {MAPPED_ADDRESS, XOR_MAPPED_ADDRESS}
    BY <1>3, <2>1, ReadOld
  <2>3. 4 * Len(words) = 36 /\ Len(words) \div 3 = 3 BY <2>2
  <2>4. /\ DOMAIN v = 1 .. 5 /\ v[1] = 0 /\ v[2] = 12
        /\ \A k \in 1 .. 5 : k # 1 => v[k] \in {12, 36, 64, 96}
    BY <1>4, <2>2, <2>3
  <2>5. DOMAIN s = 1 .. 3 /\ s[1] = 0 /\ s[2] = 12 BY <1>4, <2>3 DEF Starts
  <2>6. 0 \in ToSet(s) BY <2>5 DEF ToSet
  <2> QED BY <2>2, <2>4, <2>5, <2>6
<1>7. CASE q.to \notin OldServers
  <2>1. words = Attribute(XOR_MAPPED_ADDRESS, XorAddress(m)) BY <1>2, <1>7 DEF Attributes
  <2>2. Len(words) = 3 /\ Visits(b2, 12) = <<0>> BY <1>3, <2>1, ReadNew
  <2>3. 4 * Len(words) = 12 /\ Len(words) \div 3 = 1 BY <2>2
  <2>4. DOMAIN v = 1 .. 1 /\ v[1] = 0 BY <1>4, <2>2, <2>3
  <2>5. DOMAIN s = 1 .. 1 /\ s[1] = 0 BY <1>4, <2>3 DEF Starts
  <2>6. 0 \in ToSet(s) BY <2>5 DEF ToSet
  <2> QED BY <2>4, <2>5, <2>6
<1> QED BY <1>6, <1>7

\* The step of the walk is the wrong one, and yet it reads no address where there is none.
THEOREM StunAddressesAreAttributes == Spec => []AddressesAreAttributes
<1>1. Inv => AddressesAreAttributes
  <2> SUFFICES ASSUME Inv, NEW r \in responses
               PROVE  Walked(Receive(IF r.client = STUN_CLIENT_PORT THEN response_buffer
                                     ELSE cone_buffer, r.words), r.words)
    BY DEF AddressesAreAttributes, Walked
  <2>1. PICK b : b = IF r.client = STUN_CLIENT_PORT THEN response_buffer ELSE cone_buffer OBVIOUS
  <2>2. BufferOK(b) /\ nat \in NatKinds BY <2>1 DEF Inv, TypeOK
  <2>3. PICK q \in Requests : AnswerTo(r, q) BY DEF Inv, TypeOK
  <2>4. PICK w, b2, from : w = r.words /\ b2 = Receive(b, w) /\ from = r.from OBVIOUS
  <2>5. CASE r.type = "success"
    <3>1. w = Attributes(q, from) /\ from \in Address BY <2>3, <2>4, <2>5, ResponseFields
    <3>2. Walked(b2, w) BY <2>2, <2>4, <3>1, WalkOfAnswer
    <3> QED BY <2>1, <2>4, <3>2
  <2>6. CASE r.type # "success"
    <3>1. w = <<>> BY <2>3, <2>4, <2>6, ResponseFields
    <3>2. Len(w) = 0 BY <3>1
    <3>3. 4 * Len(w) = 0 /\ Len(w) \div 3 = 0 BY <3>2
    <3>4. DOMAIN Starts(w) = {} BY <3>3 DEF Starts
    <3>5. DOMAIN Visits(b2, 4 * Len(w)) = {} BY <3>3, NoVisits
    <3>6. Walked(b2, w) BY <3>4, <3>5 DEF Walked
    <3> QED BY <2>1, <2>4, <3>6
  <2> QED BY <2>5, <2>6
<1> QED BY <1>1, StunInv, PTL
===============================================================================
