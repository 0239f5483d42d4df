----------------------------- MODULE QueueProofs -----------------------------
(***************************************************************************)
(* Proofs about Queue: the linked list stays a list, and it implements     *)
(* ItemQueue, for any finite set of nodes and any items and numbers.       *)
(* The inductive invariant has the nodes from head to tail as a sequence,  *)
(* the walk, and for a call under way the position k of the walk that it   *)
(* has come to and what it has done in front of it.                        *)
(***************************************************************************)
EXTENDS Queue, NaturalsInduction, WellFoundedInduction, FiniteSetTheorems,
  SequenceTheorems, TLAPS

-------------------------------------------------------------------------------
(* The inductive invariant. *)

TypeOK ==
  /\ version \in {"lab2", "lab3"}
  /\ queue \in Headers \cup {NULL}
  /\ DOMAIN heap \subseteq Nodes
  /\ heap \in [DOMAIN heap -> [item : Items, node_behind : Pointers]]
  /\ items \subseteq Items
  /\ number \in [Items -> Numbers]
  /\ op \in Calls \cup {NULL}

\* w leads from the head to the tail, through every node once.
IsWalk(w, q, h) ==
  /\ w \in Seq(DOMAIN h)
  /\ \A j, k \in DOMAIN w : w[j] = w[k] => j = k
  /\ \A n \in DOMAIN h : \E k \in DOMAIN w : w[k] = n
  /\ \A k \in DOMAIN w : h[w[k]].node_behind = IF k = Len(w) THEN NULL ELSE w[k + 1]
  /\ q.head = IF w = <<>> THEN NULL ELSE w[1]
  /\ q.tail = IF w = <<>> THEN NULL ELSE w[Len(w)]

ListInv ==
  IF queue = NULL THEN heap = [n \in {} |-> NULL] /\ op = NULL
  ELSE IsWalk(Walk, queue, heap)

ItemsInv ==
  /\ Queued \subseteq items
  /\ \A m, n \in DOMAIN heap : heap[m].item = heap[n].item => m = n

\* The items without number n among the first k of s, as a function of k.
Kept(num, s, n) ==
  LET kept[k \in 0 .. Len(s)] ==
        IF k = 0 THEN <<>>
        ELSE IF num[s[k]] = n THEN kept[k - 1] ELSE Append(kept[k - 1], s[k])
  IN  kept

\* The call o has come to position k of the walk w, or past its end.
Reached(k, o, w) ==
  /\ k \in 1 .. Len(w) + 1
  /\ o.currNode = IF k <= Len(w) THEN w[k] ELSE NULL
  /\ o.name \in {"pop_item_q", "delete_integer_targets_q"} /\ k > 1 => o.lastNode = w[k - 1]

\* What o has done up to there: s has the items that are queued now.
Unchanged(k, o, s) == o.name # "delete_integer_targets_q" => o.before = s
Shown(k, o, s) == o.name = "iterate_q" => o.seen = [j \in 1 .. k - 1 |-> s[j]]
NotFound(k, o, s, num) ==
  o.name \in Loops3 => \A j \in 1 .. k - 1 : num[s[j]] # o.target
Deleted(k, o, s, num) ==
  o.name = "delete_integer_targets_q" =>
    LET gone == Len(o.before) - Len(s)
    IN  /\ gone \in Nat
        /\ \A j \in k .. Len(s) : s[j] = o.before[j + gone]
        /\ Kept(num, o.before, o.target)[k - 1 + gone] = [j \in 1 .. k - 1 |-> s[j]]

At(k, o, w, s, num) ==
  /\ Reached(k, o, w)
  /\ Unchanged(k, o, s) /\ Shown(k, o, s) /\ NotFound(k, o, s, num) /\ Deleted(k, o, s, num)

CallInv ==
  op # NULL /\ op.name # "delete_q" =>
    /\ op.name # "iterate_q" => op.target \in Numbers
    /\ \E k \in 1 .. Len(Walk) + 1 : At(k, op, Walk, ItemsOf(Walk), number)

Inv == TypeOK /\ ListInv /\ ItemsInv /\ CallInv
-------------------------------------------------------------------------------
(* Numbers and sequences. *)

\* A set of numbers that is not empty has a least element.
LEMMA LeastElement ==
  ASSUME NEW S \in SUBSET Nat, S # {}
  PROVE  \E x \in S : \A y \in S : x <= y
<1> DEFINE R == OpToRel(<, Nat)
<1>1. IsWellFoundedOn(R, Nat) BY NatLessThanWellFounded
<1> HIDE DEF R
<1>2. PICK x \in S : \A y \in S : ~ (<<y, x>> \in R) BY <1>1, WFMin
<1>3. ASSUME NEW y \in S PROVE x <= y
  <2>1. y < x => <<y, x>> \in R BY DEF R, OpToRel
  <2> QED BY <1>2, <2>1
<1> QED BY <1>3

\* Induction, in terms of the set of the numbers that have the property.
LEMMA SetInduction ==
  ASSUME NEW S, 0 \in S, \A n \in Nat : n \in S => n + 1 \in S
  PROVE  Nat \subseteq S
<1> SUFFICES ASSUME Nat \ S # {} PROVE FALSE OBVIOUS
<1>1. PICK x \in Nat \ S : \A y \in Nat \ S : x <= y BY LeastElement
<1>2. x - 1 \in Nat /\ x - 1 \in S BY <1>1
<1> QED BY <1>1, <1>2

-------------------------------------------------------------------------------
(* The walk. *)

\* A sequence that leads from the head to the tail is the walk.
LEMMA WalkIs ==
  ASSUME NEW q, NEW h, NEW w, DOMAIN h \subseteq Nodes, IsWalk(w, q, h)
  PROVE  WalkOf(q, h) = w
<1> DEFINE N == Cardinality(Nodes)
           n == Len(w)
           Def(f, k) == IF k = 0 THEN q.head
                        ELSE IF f[k - 1] \in DOMAIN h THEN h[f[k - 1]].node_behind ELSE NULL
           Is(f) == f = [k \in 0 .. N |-> Def(f, k)]
           g == [k \in 0 .. N |-> IF k < n THEN w[k + 1] ELSE NULL]
           node == CHOOSE f : Is(f)
           live == {k \in 0 .. N : node[k] \in DOMAIN h}
<1>1. N \in Nat BY PointersDiffer, FS_CardinalityType
<1>2. w \in [1 .. n -> DOMAIN h] /\ n \in Nat BY DEF IsWalk
<1>3. n <= N
  <2>1. w \in Injection(1 .. n, Nodes) BY <1>2 DEF Injection, IsInjective, IsWalk
  <2>2. Cardinality(1 .. n) <= N
    <3> HIDE DEF n
    <3> QED BY <2>1, FS_Injection, PointersDiffer
  <2>3. Cardinality(1 .. n) = n
    <3> HIDE DEF n
    <3>1. Cardinality(1 .. n) = IF 1 > n THEN 0 ELSE n - 1 + 1 BY <1>2, FS_Interval
    <3> QED BY <1>2, <3>1
  <2> QED BY <2>2, <2>3
<1>4. NULL \notin DOMAIN h BY PointersDiffer
<1>5. Is(g)
  <2> SUFFICES ASSUME NEW k \in 0 .. N PROVE g[k] = Def(g, k) OBVIOUS
  <2>1. CASE k = 0 BY <1>2, <2>1 DEF IsWalk
  <2>2. CASE k # 0
    <3>1. k - 1 \in 0 .. N BY <1>1, <2>2
    <3>2. g[k - 1] = IF k - 1 < n THEN w[k] ELSE NULL BY <1>1, <3>1
    <3>3. g[k] = IF k < n THEN w[k + 1] ELSE NULL OBVIOUS
    <3> HIDE DEF g
    <3>4. CASE k <= n
      <4>1. k \in 1 .. n BY <1>2, <2>2, <3>4
      <4>2. g[k - 1] = w[k] BY <3>2, <3>4, <1>2
      <4>3. w[k] \in DOMAIN h BY <1>2, <4>1
      <4>4. h[w[k]].node_behind = IF k = n THEN NULL ELSE w[k + 1] BY <1>2, <4>1 DEF IsWalk
      <4> QED BY <2>2, <3>3, <3>4, <4>2, <4>3, <4>4
    <3>5. CASE ~(k <= n) BY <1>2, <1>4, <2>2, <3>2, <3>3, <3>5
    <3> QED BY <3>4, <3>5
  <2> QED BY <2>1, <2>2
<1>6. Is(node)
  <2> HIDE DEF g, Is
  <2> QED BY <1>5
<1>7. \A k \in 0 .. N : node[k] = Def(node, k)
  <2> HIDE DEF node
  <2> QED BY <1>6
<1>8. \A k \in 0 .. N : g[k] = Def(g, k)
  <2> HIDE DEF g
  <2> QED BY <1>5
<1> DEFINE M == {m \in Nat : m <= N => node[m] = g[m]}
<1>9. Nat \subseteq M
  <2> HIDE DEF g, node
  <2>1. 0 \in M
    <3>1. 0 \in 0 .. N BY <1>1
    <3> QED BY <1>7, <1>8, <3>1
  <2>2. ASSUME NEW m \in Nat, m \in M PROVE m + 1 \in M
    <3> SUFFICES ASSUME m + 1 <= N PROVE node[m + 1] = g[m + 1] OBVIOUS
    <3>1. m + 1 \in 0 .. N /\ m + 1 # 0 /\ m + 1 - 1 = m /\ m <= N BY <1>1
    <3>2. node[m] = g[m] BY <2>2, <3>1
    <3> QED BY <1>7, <1>8, <3>1, <3>2
  <2> HIDE DEF M
  <2> QED BY <2>1, <2>2, SetInduction
<1>10. live = 0 .. n - 1
  <2>1. ASSUME NEW k \in 0 .. N PROVE node[k] \in DOMAIN h <=> k < n
    <3>1. node[k] = g[k]
      <4> HIDE DEF node, g
      <4> QED BY <1>1, <1>9
    <3>2. g[k] = IF k < n THEN w[k + 1] ELSE NULL OBVIOUS
    <3>3. k < n => w[k + 1] \in DOMAIN h BY <1>2
    <3> HIDE DEF node, g
    <3> QED BY <1>4, <3>1, <3>2, <3>3
  <2> HIDE DEF node
  <2> QED BY <1>1, <1>2, <1>3, <2>1
<1>11. Cardinality(live) = n
  <2>1. Cardinality(0 .. n - 1) = IF 0 > n - 1 THEN 0 ELSE n - 1 - 0 + 1
    <3>1. n - 1 \in Int /\ 0 \in Int BY <1>2
    <3> HIDE DEF n
    <3> QED BY <3>1, FS_Interval
  <2> HIDE DEF live
  <2> QED BY <1>2, <1>10, <2>1
<1>12. WalkOf(q, h) = [k \in 1 .. Cardinality(live) |-> node[k - 1]] BY DEF WalkOf
<1>13. ASSUME NEW k \in 1 .. n PROVE node[k - 1] = w[k]
  <2>1. k - 1 \in 0 .. N BY <1>1, <1>2, <1>3
  <2>2. node[k - 1] = g[k - 1]
    <3> HIDE DEF node, g
    <3> QED BY <1>1, <1>9, <2>1
  <2>3. g[k - 1] = w[k] BY <1>2, <2>1
  <2> HIDE DEF node, g
  <2> QED BY <2>2, <2>3
<1>14. WalkOf(q, h) = [k \in 1 .. n |-> w[k]]
  <2> HIDE DEF node, live
  <2> QED BY <1>11, <1>12, <1>13
<1> QED BY <1>2, <1>14

HeapType(h) ==
  DOMAIN h \subseteq Nodes /\ h \in [DOMAIN h -> [item : Items, node_behind : Pointers]]

\* The nodes of S are left, with the items they had.
Keeps(h2, h, S) == DOMAIN h2 = S /\ \A m \in S : h2[m].item = h[m].item

InFront(l, w, j) == j > 1 => l = w[j - 1]
Without(w, j) == [k \in 1 .. Len(w) - 1 |-> IF k < j THEN w[k] ELSE w[k + 1]]

\* enq_q() makes the walk one node longer.
LEMMA LinkedWalk ==
  ASSUME NEW q \in Headers, NEW h, HeapType(h), NEW w, IsWalk(w, q, h),
         NEW n \in Nodes, n \notin DOMAIN h, NEW i \in Items
  PROVE  LET q2 == [head |-> IF q.head = NULL THEN n ELSE q.head, tail |-> n]
             h2 == Linked(h, q, n, i)
         IN  /\ q2 \in Headers /\ HeapType(h2) /\ DOMAIN h2 = DOMAIN h \cup {n}
             /\ h2[n].item = i /\ \A m \in DOMAIN h : h2[m].item = h[m].item
             /\ IsWalk(Append(w, n), q2, h2)
<1> DEFINE q2 == [head |-> IF q.head = NULL THEN n ELSE q.head, tail |-> n]
           h2 == Linked(h, q, n, i)
           v == Append(w, n)
           l == Len(w)
<1>1. w \in [1 .. l -> DOMAIN h] /\ l \in Nat /\ w \in Seq(DOMAIN h) BY DEF IsWalk
<1>2. NULL \notin Nodes BY PointersDiffer
<1>3. q.head # NULL <=> l # 0 BY <1>1, <1>2 DEF IsWalk, HeapType
<1>4. l # 0 => q.tail = w[l] BY <1>1 DEF IsWalk
<1>5. DOMAIN h2 = DOMAIN h \cup {n} BY DEF Linked
<1>6. h2[n] = [item |-> i, node_behind |-> NULL] BY DEF Linked
<1>7. ASSUME NEW m \in DOMAIN h
      PROVE  h2[m] = IF l # 0 /\ m = w[l] THEN [h[m] EXCEPT !.node_behind = n] ELSE h[m]
  BY <1>3, <1>4, m # n DEF Linked
<1>8. \A m \in DOMAIN h : h[m] \in [item : Items, node_behind : Pointers] BY DEF HeapType
<1>9. ASSUME NEW m \in DOMAIN h
      PROVE  /\ h2[m] \in [item : Items, node_behind : Pointers]
             /\ h2[m].item = h[m].item
             /\ h2[m].node_behind = IF l # 0 /\ m = w[l] THEN n ELSE h[m].node_behind
  <2> HIDE DEF h2
  <2> QED BY <1>7, <1>8 DEF Pointers
<1>10. HeapType(h2)
  <2>1. h2 = [m \in DOMAIN h2 |-> h2[m]] BY DEF Linked
  <2> HIDE DEF h2
  <2>2. \A m \in DOMAIN h2 : h2[m] \in [item : Items, node_behind : Pointers]
    BY <1>5, <1>6, <1>9 DEF Pointers
  <2> QED BY <1>5, <2>1, <2>2 DEF HeapType
<1>11. Len(v) = l + 1 /\ v[l + 1] = n /\ \A k \in 1 .. l : v[k] = w[k] BY <1>1
<1>12. v \in Seq(DOMAIN h2) /\ DOMAIN v = 1 .. l + 1 BY <1>1, <1>5
<1>13. q2 \in Headers BY DEF Headers, Pointers
<1>14. IsWalk(v, q2, h2)
  <2>1. ASSUME NEW k \in 1 .. l + 1 PROVE k = l + 1 \/ k \in 1 .. l BY <1>1
  <2>2. \A k \in 1 .. l : w[k] \in DOMAIN h /\ w[k] # n BY <1>1
  <2>3. \A j, k \in 1 .. l : w[j] = w[k] => j = k BY <1>1 DEF IsWalk
  <2>4. \A k \in 1 .. l : h[w[k]].node_behind = IF k = l THEN NULL ELSE w[k + 1] BY <1>1 DEF IsWalk
  <2>5. \A m \in DOMAIN h : \E k \in 1 .. l : w[k] = m BY <1>1 DEF IsWalk
  <2>6. q.head = IF l = 0 THEN NULL ELSE w[1] BY <1>1 DEF IsWalk
  <2>7. v # <<>> BY <1>11
  <2> HIDE DEF v, h2, l
  <2>8. \A j, k \in 1 .. l + 1 : v[j] = v[k] => j = k BY <1>11, <2>1, <2>2, <2>3
  <2>9. \A m \in DOMAIN h2 : \E k \in 1 .. l + 1 : v[k] = m
    <3>1. l + 1 \in 1 .. l + 1 /\ 1 .. l \subseteq 1 .. l + 1 BY <1>1
    <3> QED BY <1>5, <1>11, <2>5, <3>1
  <2>10. ASSUME NEW k \in 1 .. l + 1
         PROVE  h2[v[k]].node_behind = IF k = l + 1 THEN NULL ELSE v[k + 1]
    <3>1. CASE k = l + 1 BY <1>6, <1>11, <3>1
    <3>2. CASE k \in 1 .. l
      <4>1. v[k] = w[k] /\ w[k] \in DOMAIN h BY <1>11, <2>2, <3>2
      <4>2. CASE k = l
        <5>1. l # 0 /\ k + 1 = l + 1 /\ k # l + 1 BY <1>1, <3>2, <4>2
        <5> QED BY <1>9, <1>11, <4>1, <4>2, <5>1
      <4>3. CASE k # l
        <5>1. w[k] # w[l] /\ k + 1 \in 1 .. l /\ k # l + 1
          <6>1. l \in 1 .. l /\ k + 1 \in 1 .. l /\ k # l + 1 BY <1>1, <3>2, <4>3
          <6> QED BY <2>3, <3>2, <4>3, <6>1
        <5> QED BY <1>9, <1>11, <2>4, <3>2, <4>1, <4>3, <5>1
      <4> QED BY <4>2, <4>3
    <3> QED BY <2>1, <3>1, <3>2
  <2>11. q2.head = v[1]
    <3>1. l = 0 => q2.head = n /\ v[1] = n BY <1>3, <1>11
    <3>2. l # 0 => q2.head = w[1] /\ v[1] = w[1]
      <4>1. l # 0 => 1 \in 1 .. l BY <1>1
      <4> QED BY <1>3, <1>11, <2>6, <4>1
    <3> QED BY <3>1, <3>2
  <2>12. q2.tail = v[l + 1] BY <1>11
  <2> HIDE DEF q2
  <2>13. Len(v) = l + 1 /\ DOMAIN v = 1 .. l + 1 /\ v \in Seq(DOMAIN h2) BY <1>11, <1>12
  <2>14. \A k \in DOMAIN v : h2[v[k]].node_behind = IF k = Len(v) THEN NULL ELSE v[k + 1]
    BY <2>10, <2>13
  <2>15. \A j, k \in DOMAIN v : v[j] = v[k] => j = k BY <2>8, <2>13
  <2>16. q2.head = (IF v = <<>> THEN NULL ELSE v[1]) /\ q2.tail = IF v = <<>> THEN NULL ELSE v[Len(v)]
    BY <2>7, <2>11, <2>12, <2>13
  <2> HIDE DEF v
  <2> QED BY <2>9, <2>13, <2>14, <2>15, <2>16 DEF IsWalk
<1> HIDE DEF h2, v, q2
<1>15. QED BY <1>5, <1>6, <1>9, <1>10, <1>13, <1>14 DEF h2, v, q2

\* Taking out the j-th node of the walk, l being the one in front of it, leaves
\* the walk without it.
LEMMA UnlinkedWalk ==
  ASSUME NEW q \in Headers, NEW h, HeapType(h), NEW w, IsWalk(w, q, h),
         NEW j \in 1 .. Len(w), NEW l, InFront(l, w, j)
  PROVE  LET c == w[j]
             q2 == unlinked_q(q, h, c, l)
             h2 == unlinked_heap(q, h, c, l)
         IN  /\ q2 \in Headers /\ HeapType(h2) /\ Keeps(h2, h, DOMAIN h \ {c})
             /\ IsWalk(Without(w, j), q2, h2)
<1>0. PICK n : n = Len(w) OBVIOUS
<1> DEFINE c == w[j]
           q2 == unlinked_q(q, h, c, l)
           h2 == unlinked_heap(q, h, c, l)
           v == Without(w, j)
           next == IF j = n THEN NULL ELSE w[j + 1]
           Node == [item : Items, node_behind : Pointers]
<1>1. /\ w \in [1 .. n -> DOMAIN h] /\ n \in Nat /\ n # 0 /\ w # <<>>
      /\ n = Len(w) /\ j \in 1 .. n /\ DOMAIN w = 1 .. n
  BY <1>0 DEF IsWalk
<1>a. n \in Nat \ {0} /\ j \in 1 .. n BY <1>1
<1>b. j # n => j < n /\ j + 1 \in 1 .. n
  BY ONLY <1>a
<1>c. j # 1 => j > 1 /\ j - 1 \in 1 .. n /\ j - 1 # j BY <1>a
<1>2. NULL \notin Nodes BY PointersDiffer
<1>3. /\ \A k, m \in 1 .. n : w[k] = w[m] => k = m
      /\ \A k \in 1 .. n : h[w[k]].node_behind = IF k = n THEN NULL ELSE w[k + 1]
      /\ \A m \in DOMAIN h : \E k \in 1 .. n : w[k] = m
      /\ q.head = w[1] /\ q.tail = w[n]
  BY <1>1 DEF IsWalk
<1>4. /\ q.head = c <=> j = 1
      /\ q.tail = c <=> j = n
      /\ h[c].node_behind = next
  <2>1. 1 \in 1 .. n /\ n \in 1 .. n BY <1>a
  <2>2. j = n => c = w[n] /\ next = NULL OBVIOUS
  <2>3. j # n => next = w[j + 1] OBVIOUS
  <2> HIDE DEF next
  <2> QED BY <1>a, <1>3, <2>1, <2>2, <2>3
<1>5. c \in DOMAIN h /\ next \in Pointers
  BY <1>1, <1>b DEF Pointers, HeapType
<1>6. /\ q.head \in Pointers /\ q.tail \in Pointers
      /\ q = [head |-> q.head, tail |-> q.tail] BY DEF Headers
<1>7. q2 = [head |-> IF j = 1 THEN next ELSE w[1],
            tail |-> IF j # n THEN w[n] ELSE IF j = 1 THEN NULL ELSE l]
  <2>1. CASE j = 1
    <3>1. next = NULL <=> j = n
      <4> QED BY <1>1, <1>2, <1>b DEF HeapType
    <3> HIDE DEF next
    <3> QED BY <1>3, <1>4, <2>1, <3>1 DEF unlinked_q, HeadTaken
  <2>2. CASE j # 1
    <3> HIDE DEF next
    <3> QED BY <1>3, <1>4, <1>6, <2>2 DEF unlinked_q
  <2> QED BY <2>1, <2>2
<1>8. j # 1 => j - 1 \in 1 .. n /\ l = w[j - 1] /\ l \in DOMAIN h /\ l # c
  <2>1. j # 1 => l = w[j - 1] BY <1>c DEF InFront
  <2>2. j # 1 => w[j - 1] \in DOMAIN h BY <1>1, <1>c
  <2>3. j # 1 => w[j - 1] # w[j] BY <1>a, <1>3, <1>c
  <2> QED BY <1>c, <2>1, <2>2, <2>3
<1>9. q2 \in Headers
  <2>1. \A k \in 1 .. n : w[k] \in Pointers BY <1>1 DEF HeapType, Pointers
  <2>2. 1 \in 1 .. n /\ n \in 1 .. n BY <1>1
  <2>3. NULL \in Pointers BY DEF Pointers
  <2> HIDE DEF next, q2
  <2> QED BY <1>5, <1>7, <1>8, <2>1, <2>2, <2>3 DEF Headers
<1>10. h = [m \in DOMAIN h |-> h[m]] /\ \A m \in DOMAIN h : h[m] \in Node BY DEF HeapType
<1>11. /\ DOMAIN h2 = DOMAIN h \ {c} /\ h2 = [m \in DOMAIN h2 |-> h2[m]]
       /\ \A m \in DOMAIN h2 : h2[m] = IF j # 1 /\ m = l THEN [h[l] EXCEPT !.node_behind = next] ELSE h[m]
  <2>1. CASE j = 1 BY <1>4, <1>10, <2>1 DEF unlinked_heap, free
  <2>2. CASE j # 1
    <3> DEFINE g == [h EXCEPT ![l].node_behind = next]
    <3>1. h2 = free(g, c)
      <4>1. next = IF q.tail = c THEN NULL ELSE h[c].node_behind BY <1>4
      <4> HIDE DEF next
      <4> QED BY <1>4, <2>2, <4>1 DEF unlinked_heap
    <3>2. DOMAIN g = DOMAIN h BY <1>10
    <3>3. \A m \in DOMAIN h : g[m] = IF m = l THEN [h[l] EXCEPT !.node_behind = next] ELSE h[m]
      <4> HIDE DEF next
      <4> QED BY <1>8, <1>10, <2>2
    <3> HIDE DEF g, h2, next
    <3> QED BY <2>2, <3>1, <3>2, <3>3 DEF free
  <2> QED BY <2>1, <2>2
<1>12. ASSUME NEW m \in DOMAIN h2
       PROVE  /\ h2[m] \in Node /\ h2[m].item = h[m].item
              /\ h2[m].node_behind = IF j # 1 /\ m = l THEN next ELSE h[m].node_behind
  <2> HIDE DEF h2, next
  <2> QED BY <1>5, <1>8, <1>10, <1>11
<1>13. HeapType(h2)
  <2> HIDE DEF h2
  <2> QED BY <1>11, <1>12 DEF HeapType
<1>14. /\ DOMAIN v = 1 .. n - 1 /\ Len(v) = n - 1
       /\ \A k \in 1 .. n - 1 : v[k] = IF k < j THEN w[k] ELSE w[k + 1]
  BY <1>1 DEF Without
<1> DEFINE pos(k) == IF k < j THEN k ELSE k + 1
<1>15. ASSUME NEW k \in 1 .. n - 1
       PROVE  pos(k) \in 1 .. n /\ pos(k) # j /\ v[k] = w[pos(k)] /\ v[k] \in DOMAIN h2
  <2>1. pos(k) \in 1 .. n /\ pos(k) # j /\ v[k] = w[pos(k)] BY <1>1, <1>14
  <2>2. w[pos(k)] \in DOMAIN h /\ w[pos(k)] # c
    <3> HIDE DEF pos
    <3> QED BY <1>1, <1>3, <2>1
  <2> QED BY <1>11, <2>1, <2>2
<1>16. v \in Seq(DOMAIN h2)
  <2>1. v = [k \in 1 .. n - 1 |-> v[k]] /\ n - 1 \in Nat BY <1>1 DEF Without
  <2> HIDE DEF v, h2
  <2> QED BY <1>15, <2>1
<1>17. IsWalk(v, q2, h2)
  <2> HIDE DEF v, h2, q2, next
  <2>1. \A k, m \in DOMAIN v : v[k] = v[m] => k = m
    <3> SUFFICES ASSUME NEW k \in 1 .. n - 1, NEW m \in 1 .. n - 1, v[k] = v[m] PROVE k = m BY <1>14
    <3>1. pos(k) = pos(m)
      <4> HIDE DEF pos
      <4> QED BY <1>3, <1>15
    <3> QED BY <3>1
  <2>2. \A m \in DOMAIN h2 : \E k \in DOMAIN v : v[k] = m
    <3> SUFFICES ASSUME NEW m \in DOMAIN h2 PROVE \E k \in 1 .. n - 1 : v[k] = m BY <1>14
    <3>1. PICK p \in 1 .. n : w[p] = m BY <1>3, <1>11
    <3>2. p # j BY <1>11, <3>1
    <3>3. CASE p < j
      <4>1. p \in 1 .. n - 1 BY <1>1, <3>3
      <4> QED BY <1>14, <3>1, <3>3, <4>1
    <3>4. CASE p > j
      <4>1. p - 1 \in 1 .. n - 1 /\ ~(p - 1 < j) /\ p - 1 + 1 = p BY <1>1, <3>4
      <4> QED BY <1>14, <3>1, <4>1
    <3> QED BY <1>1, <3>2, <3>3, <3>4
  <2>3. ASSUME NEW k \in 1 .. n - 1
        PROVE  h2[v[k]].node_behind = IF k = n - 1 THEN NULL ELSE v[k + 1]
    <3>1. v[k] = w[pos(k)] /\ v[k] \in DOMAIN h2 /\ pos(k) \in 1 .. n BY <1>15
    <3>2. k # n - 1 => k + 1 \in 1 .. n - 1 /\ v[k + 1] = IF k + 1 < j THEN w[k + 1] ELSE w[k + 2]
      <4>1. k # n - 1 => k + 1 \in 1 .. n - 1 /\ k + 1 + 1 = k + 2 BY ONLY <1>a, k \in 1 .. n - 1
      <4> QED BY <1>14, <4>1
    <3>3. CASE k = j - 1
      <4>1. pos(k) = j - 1 /\ j # 1 BY <3>3
      <4>2. v[k] = l BY <1>8, <3>1, <4>1
      <4>3. h2[v[k]].node_behind = next BY <1>12, <3>1, <4>1, <4>2
      <4>4. k + 1 = j /\ k + 2 = j + 1 /\ (k = n - 1 <=> j = n) BY <1>1, <3>3
      <4> QED BY <3>2, <4>3, <4>4 DEF next
    <3>4. CASE k # j - 1
      <4>1. j # 1 => v[k] # l
        <5>1. j # 1 => pos(k) # j - 1 BY <3>4
        <5> HIDE DEF pos
        <5> QED BY <1>3, <1>8, <3>1, <5>1
      <4>2. h2[v[k]].node_behind = h[w[pos(k)]].node_behind BY <1>12, <3>1, <4>1
      <4>3. h[w[pos(k)]].node_behind = IF pos(k) = n THEN NULL ELSE w[pos(k) + 1]
        <5> HIDE DEF pos
        <5> QED BY <1>3, <3>1
      <4>4. CASE k < j
        <5>1. pos(k) = k /\ k + 1 < j /\ k # n - 1 /\ k # n
          <6>1. k + 1 < j /\ k # n - 1 /\ k # n BY ONLY <1>a, k \in 1 .. n - 1, <3>4, <4>4
          <6> QED BY <4>4, <6>1
        <5> HIDE DEF pos
        <5> QED BY <3>2, <4>2, <4>3, <5>1
      <4>5. CASE ~(k < j)
        <5>1. pos(k) = k + 1 /\ ~(k + 1 < j) /\ (k = n - 1 <=> k + 1 = n) /\ k + 1 + 1 = k + 2
          BY <1>1, <4>5
        <5> HIDE DEF pos
        <5> QED BY <3>2, <4>2, <4>3, <5>1
      <4> QED BY <4>4, <4>5
    <3> QED BY <3>3, <3>4
  <2>4. v = <<>> <=> n = 1
    <3>1. v = <<>> <=> Len(v) = 0 BY <1>16
    <3> QED BY <1>1, <1>14, <3>1
  <2>5. q2.head = IF n = 1 THEN NULL ELSE v[1]
    <3>1. n # 1 => 1 \in 1 .. n - 1 BY <1>1
    <3>2. n = 1 => j = 1 /\ next = NULL BY <1>1 DEF next
    <3>3. n # 1 /\ j = 1 => next = w[2] /\ v[1] = w[2] BY <1>14, <3>1 DEF next
    <3>4. n # 1 /\ j # 1 => v[1] = w[1]
      <4>1. j # 1 => 1 < j OBVIOUS
      <4> QED BY <1>14, <3>1, <4>1
    <3> QED BY <1>7, <3>2, <3>3, <3>4
  <2>6. q2.tail = IF n = 1 THEN NULL ELSE v[n - 1]
    <3>1. n # 1 => n - 1 \in 1 .. n - 1 /\ n - 1 + 1 = n BY <1>1
    <3>2. n = 1 => j = 1 BY <1>1
    <3>4. n # 1 /\ j = n => v[n - 1] = w[n - 1] BY <1>1, <1>14, <3>1
    <3>5. n # 1 /\ j # n => v[n - 1] = w[n]
      <4>1. j # n => ~(n - 1 < j) BY <1>a, <1>b
      <4> QED BY <1>14, <3>1, <4>1
    <3> QED BY <1>7, <1>8, <3>2, <3>4, <3>5
  <2> QED BY <1>14, <1>16, <2>1, <2>2, <2>3, <2>4, <2>5, <2>6 DEF IsWalk
<1>19. Keeps(h2, h, DOMAIN h \ {c})
  <2> HIDE DEF h2
  <2> QED BY <1>11, <1>12 DEF Keeps
<1> HIDE DEF h2, q2, v, next
<1> QED BY <1>9, <1>13, <1>17, <1>19 DEF h2, q2, v

-------------------------------------------------------------------------------
(* What the operations do to the queue. *)

\* The items of the walk are the queued ones, each once.
LEMMA WalkItems ==
  ASSUME TypeOK, ListInv, queue # NULL
  PROVE  /\ queue \in Headers /\ HeapType(heap) /\ IsWalk(Walk, queue, heap)
         /\ Walk \in [1 .. Len(Walk) -> DOMAIN heap] /\ Len(Walk) \in Nat
         /\ ItemsOf(Walk) \in Seq(Items) /\ Len(ItemsOf(Walk)) = Len(Walk)
         /\ \A k \in 1 .. Len(Walk) : ItemsOf(Walk)[k] = heap[Walk[k]].item
         /\ \A k \in 1 .. Len(Walk) : ItemsOf(Walk)[k] \in Items
         /\ queue.head = IF Len(Walk) = 0 THEN NULL ELSE Walk[1]
         /\ Len(Walk) # 0 => queue.head # NULL
<1> DEFINE n == Len(Walk)
           s == ItemsOf(Walk)
<1>1. queue \in Headers /\ HeapType(heap) /\ IsWalk(Walk, queue, heap)
  BY DEF TypeOK, ListInv, HeapType
<1>2. Walk \in Seq(DOMAIN heap) BY <1>1 DEF IsWalk
<1>3. Walk \in [1 .. n -> DOMAIN heap] /\ n \in Nat
  <2> HIDE DEF Walk
  <2> QED BY <1>2
<1>4. s = [k \in 1 .. n |-> heap[Walk[k]].item] BY <1>3 DEF ItemsOf
<1>5. \A m \in DOMAIN heap : heap[m].item \in Items BY <1>1 DEF HeapType
<1>6. \A k \in 1 .. n : s[k] = heap[Walk[k]].item /\ s[k] \in Items
  <2> HIDE DEF n, s
  <2> QED BY <1>3, <1>4, <1>5
<1>7. s \in Seq(Items) /\ Len(s) = n
  <2>1. s = [k \in 1 .. n |-> s[k]] BY <1>4
  <2> HIDE DEF n, s
  <2> QED BY <1>3, <1>6, <2>1
<1>8. queue.head = IF n = 0 THEN NULL ELSE Walk[1]
  <2>1. Walk = <<>> <=> n = 0 BY <1>2
  <2> QED BY <1>1, <2>1 DEF IsWalk
<1>9. n # 0 => Walk[1] # NULL
  <2>1. n # 0 => 1 \in 1 .. n BY <1>3
  <2>2. n # 0 => Walk[1] \in DOMAIN heap
    <3> HIDE DEF n
    <3> QED BY <1>3, <2>1
  <2> QED BY <1>1, <2>2, PointersDiffer DEF HeapType
<1> HIDE DEF n, s
<1> QED BY <1>1, <1>3, <1>6, <1>7, <1>8, <1>9 DEF n, s

\* An item that is queued is queued in a node of the walk.
LEMMA QueuedItems ==
  ASSUME TypeOK, ListInv, queue # NULL
  PROVE  \A i : i \in Queued <=> \E k \in 1 .. Len(Walk) : ItemsOf(Walk)[k] = i
<1>1. \A m \in DOMAIN heap : \E k \in 1 .. Len(Walk) : Walk[k] = m
  BY WalkItems DEF IsWalk
<1>2. \A k \in 1 .. Len(Walk) : Walk[k] \in DOMAIN heap /\ ItemsOf(Walk)[k] = heap[Walk[k]].item
  BY WalkItems
<1> QED BY <1>1, <1>2 DEF Queued

\* A new queue is empty.
LEMMA MadeQueue ==
  ASSUME ListInv, make_q
  PROVE  queue' \in Headers /\ IsWalk(Walk', queue', heap') /\ ItemsOf(Walk)' = <<>>
<1>1. heap = [n \in {} |-> NULL] /\ queue' = [head |-> NULL, tail |-> NULL] /\ heap' = heap
  BY DEF make_q, ListInv
<1>2. queue' \in Headers BY <1>1 DEF Headers, Pointers
<1>3. IsWalk(<<>>, queue', heap')
  <2>1. DOMAIN heap' = {} /\ <<>> \in Seq({}) /\ DOMAIN <<>> = {} BY <1>1
  <2> QED BY <1>1, <2>1 DEF IsWalk
<1>4. Walk' = <<>>
  <2>1. DOMAIN heap' \subseteq Nodes BY <1>1
  <2>2. WalkOf(queue', heap') = <<>> BY <1>3, <2>1, WalkIs
  <2> QED BY <2>2 DEF Walk
<1>5. ItemsOf(Walk)' = <<>>
  <2>1. ItemsOf(Walk)' = [k \in DOMAIN Walk' |-> heap'[Walk'[k]].item] BY DEF ItemsOf
  <2> QED BY <1>4, <2>1
<1> QED BY <1>2, <1>3, <1>4, <1>5

\* The j-th node is taken out, l being the one in front of it.
LEMMA NodeRemoved ==
  ASSUME TypeOK, ListInv, ItemsInv, queue # NULL, NEW j \in 1 .. Len(Walk),
         NEW l, InFront(l, Walk, j),
         queue' = unlinked_q(queue, heap, Walk[j], l),
         heap' = unlinked_heap(queue, heap, Walk[j], l)
  PROVE  /\ queue' \in Headers /\ HeapType(heap') /\ IsWalk(Walk', queue', heap')
         /\ Walk' = Without(Walk, j)
         /\ ItemsOf(Walk)' = Without(ItemsOf(Walk), j)
         /\ Queued' = Queued \ {ItemsOf(Walk)[j]}
         /\ \A m, n \in DOMAIN heap' : heap'[m].item = heap'[n].item => m = n
         /\ nextNode(queue, heap, Walk[j], l) = IF j = Len(Walk) THEN NULL ELSE Walk[j + 1]
<1>1. /\ queue \in Headers /\ HeapType(heap) /\ IsWalk(Walk, queue, heap)
      /\ Walk \in [1 .. Len(Walk) -> DOMAIN heap] /\ Len(Walk) \in Nat
      /\ Len(ItemsOf(Walk)) = Len(Walk)
      /\ \A k \in 1 .. Len(Walk) : ItemsOf(Walk)[k] = heap[Walk[k]].item
  BY WalkItems
<1>2. PICK w : w = Walk OBVIOUS
<1>3. /\ queue' \in Headers /\ HeapType(heap') /\ DOMAIN heap' = DOMAIN heap \ {w[j]}
      /\ \A m \in DOMAIN heap' : heap'[m].item = heap[m].item
      /\ IsWalk(Without(w, j), queue', heap')
  <2> DEFINE q2 == unlinked_q(queue, heap, w[j], l)
             h2 == unlinked_heap(queue, heap, w[j], l)
  <2>1. IsWalk(w, queue, heap) /\ j \in 1 .. Len(w) /\ InFront(l, w, j) BY <1>1, <1>2
  <2>2. /\ q2 \in Headers /\ HeapType(h2) /\ DOMAIN h2 = DOMAIN heap \ {w[j]}
        /\ \A m \in DOMAIN h2 : h2[m].item = heap[m].item
        /\ IsWalk(Without(w, j), q2, h2)
    <3>1. q2 \in Headers /\ HeapType(h2) BY <1>1, <2>1, UnlinkedWalk
    <3>2. Keeps(h2, heap, DOMAIN heap \ {w[j]}) BY <1>1, <2>1, UnlinkedWalk
    <3>3. /\ DOMAIN h2 = DOMAIN heap \ {w[j]}
          /\ \A m \in DOMAIN h2 : h2[m].item = heap[m].item BY <3>2 DEF Keeps
    <3>4. IsWalk(Without(w, j), q2, h2) BY <1>1, <2>1, UnlinkedWalk
    <3> QED BY <3>1, <3>2, <3>3, <3>4
  <2>3. queue' = q2 /\ heap' = h2 BY <1>2
  <2> HIDE DEF q2, h2
  <2> QED BY <2>2, <2>3
<1>4. Walk' = Without(w, j)
  <2>1. DOMAIN heap' \subseteq Nodes BY <1>3 DEF HeapType
  <2>2. WalkOf(queue', heap') = Without(w, j) BY <1>3, <2>1, WalkIs
  <2> QED BY <2>2 DEF Walk
<1>5. ItemsOf(Walk)' = Without(ItemsOf(Walk), j)
  <2>1. ItemsOf(Walk)' = [k \in DOMAIN Walk' |-> heap'[Walk'[k]].item] BY DEF ItemsOf
  <2>2. DOMAIN Walk' = 1 .. Len(Walk) - 1 BY <1>2, <1>4 DEF Without
  <2>3. ASSUME NEW k \in 1 .. Len(Walk) - 1
        PROVE  heap'[Walk'[k]].item = IF k < j THEN ItemsOf(Walk)[k] ELSE ItemsOf(Walk)[k + 1]
    <3>1. Walk'[k] \in DOMAIN heap'
      <4>1. Walk' \in Seq(DOMAIN heap') BY <1>3, <1>4 DEF IsWalk
      <4> QED BY <2>2, <4>1
    <3>2. heap'[Walk'[k]].item = heap[Walk'[k]].item BY <1>3, <3>1
    <3>3. Walk'[k] = IF k < j THEN Walk[k] ELSE Walk[k + 1] BY <1>2, <1>4 DEF Without
    <3>4. k \in 1 .. Len(Walk) /\ k + 1 \in 1 .. Len(Walk) BY <1>1
    <3> QED BY <1>1, <3>2, <3>3, <3>4
  <2> QED BY <1>1, <2>1, <2>2, <2>3 DEF Without
<1>6. \A m, n \in DOMAIN heap' : heap'[m].item = heap'[n].item => m = n
  BY <1>3 DEF ItemsInv
<1>7. Queued' = Queued \ {ItemsOf(Walk)[j]}
  <2>1. Queued' = {heap'[m].item : m \in DOMAIN heap'} BY DEF Queued
  <2>2. w[j] \in DOMAIN heap /\ ItemsOf(Walk)[j] = heap[w[j]].item BY <1>1, <1>2
  <2>3. Queued' = {heap[m].item : m \in DOMAIN heap \ {w[j]}} BY <1>3, <2>1
  <2>4. \A m \in DOMAIN heap \ {w[j]} : heap[m].item # heap[w[j]].item BY <2>2 DEF ItemsInv
  <2> QED BY <2>2, <2>3, <2>4 DEF Queued
<1>8. nextNode(queue, heap, Walk[j], l) = IF j = Len(Walk) THEN NULL ELSE Walk[j + 1]
  <2>1. DOMAIN w = 1 .. Len(w) /\ Len(w) \in Nat /\ j \in 1 .. Len(w) /\ w # <<>> BY <1>1, <1>2
  <2>2. Len(w) \in 1 .. Len(w) BY <2>1
  <2>3. queue.tail = w[Len(w)] BY <1>1, <1>2, <2>1 DEF IsWalk
  <2>4. queue.tail = w[j] <=> j = Len(w) BY <1>1, <1>2, <2>1, <2>2, <2>3 DEF IsWalk
  <2>5. heap[w[j]].node_behind = IF j = Len(w) THEN NULL ELSE w[j + 1]
    BY <1>1, <1>2, <2>1 DEF IsWalk
  <2> QED BY <1>2, <2>4, <2>5 DEF nextNode
<1> QED BY <1>2, <1>3, <1>4, <1>5, <1>6, <1>7, <1>8

\* A node with an item that was not queued is put behind the tail.
LEMMA NodeAdded ==
  ASSUME TypeOK, ListInv, ItemsInv, NEW i \in Items, NEW n \in Nodes, enq_q(i, n)
  PROVE  /\ queue' \in Headers /\ HeapType(heap') /\ IsWalk(Walk', queue', heap')
         /\ ItemsOf(Walk)' = Append(ItemsOf(Walk), i)
         /\ Queued' = Queued \cup {i}
         /\ \A m, o \in DOMAIN heap' : heap'[m].item = heap'[o].item => m = o
<1>0. queue # NULL /\ n \notin DOMAIN heap /\ i \notin Queued BY DEF enq_q
<1>1. /\ queue \in Headers /\ HeapType(heap) /\ IsWalk(Walk, queue, heap)
      /\ Walk \in [1 .. Len(Walk) -> DOMAIN heap] /\ Len(Walk) \in Nat
      /\ ItemsOf(Walk) \in Seq(Items) /\ Len(ItemsOf(Walk)) = Len(Walk)
      /\ \A k \in 1 .. Len(Walk) : ItemsOf(Walk)[k] = heap[Walk[k]].item
  BY <1>0, WalkItems
<1>2. PICK w : w = Walk OBVIOUS
<1>3. /\ queue' \in Headers /\ HeapType(heap') /\ DOMAIN heap' = DOMAIN heap \cup {n}
      /\ heap'[n].item = i /\ \A m \in DOMAIN heap : heap'[m].item = heap[m].item
      /\ IsWalk(Append(w, n), queue', heap')
  <2> DEFINE q2 == [head |-> IF queue.head = NULL THEN n ELSE queue.head, tail |-> n]
             h2 == Linked(heap, queue, n, i)
  <2>1. IsWalk(w, queue, heap) BY <1>1, <1>2
  <2>2. /\ q2 \in Headers /\ HeapType(h2) /\ DOMAIN h2 = DOMAIN heap \cup {n}
        /\ h2[n].item = i /\ \A m \in DOMAIN heap : h2[m].item = heap[m].item
        /\ IsWalk(Append(w, n), q2, h2)
    BY <1>0, <1>1, <2>1, LinkedWalk
  <2>3. heap' = h2 /\ queue' = q2 BY DEF enq_q
  <2> HIDE DEF q2, h2
  <2> QED BY <2>2, <2>3
<1>4. Walk' = Append(w, n)
  <2>1. DOMAIN heap' \subseteq Nodes BY <1>3 DEF HeapType
  <2>2. WalkOf(queue', heap') = Append(w, n) BY <1>3, <2>1, WalkIs
  <2> QED BY <2>2 DEF Walk
<1>5. ItemsOf(Walk)' = Append(ItemsOf(Walk), i)
  <2>1. ItemsOf(Walk)' = [k \in DOMAIN Walk' |-> heap'[Walk'[k]].item] BY DEF ItemsOf
  <2>2. w \in Seq(DOMAIN heap) BY <1>1, <1>2 DEF IsWalk
  <2>3. DOMAIN Walk' = 1 .. Len(w) + 1 BY <1>4, <2>2
  <2>4. ASSUME NEW k \in 1 .. Len(w) + 1
        PROVE  heap'[Walk'[k]].item = IF k = Len(w) + 1 THEN i ELSE ItemsOf(Walk)[k]
    <3>1. Walk'[k] = IF k = Len(w) + 1 THEN n ELSE w[k] BY <1>4, <2>2
    <3>2. k # Len(w) + 1 => k \in 1 .. Len(w) BY <2>2
    <3>3. k # Len(w) + 1 => w[k] \in DOMAIN heap BY <2>2, <3>2
    <3> QED BY <1>1, <1>2, <1>3, <3>1, <3>2, <3>3
  <2>5. ASSUME NEW s \in Seq(Items), Len(s) = Len(w)
        PROVE  Append(s, i) = [k \in 1 .. Len(w) + 1 |-> IF k = Len(w) + 1 THEN i ELSE s[k]]
    <3>1. Append(s, i) \in Seq(Items) /\ Len(Append(s, i)) = Len(w) + 1 BY <2>5
    <3>2. \A k \in 1 .. Len(w) + 1 : Append(s, i)[k] = IF k = Len(w) + 1 THEN i ELSE s[k] BY <2>5
    <3>3. PICK t \in Seq(Items) : t = Append(s, i) BY <3>1
    <3>4. t = [k \in 1 .. Len(t) |-> t[k]] OBVIOUS
    <3> QED BY <3>1, <3>2, <3>3, <3>4
  <2>6. Append(ItemsOf(Walk), i)
          = [k \in 1 .. Len(w) + 1 |-> IF k = Len(w) + 1 THEN i ELSE ItemsOf(Walk)[k]]
    BY <1>1, <1>2, <2>5
  <2> QED BY <2>1, <2>3, <2>4, <2>6
<1>6. \A m \in DOMAIN heap : heap[m].item # i BY <1>0 DEF Queued
<1>7. \A m, o \in DOMAIN heap' : heap'[m].item = heap'[o].item => m = o
  BY <1>3, <1>6 DEF ItemsInv
<1>8. Queued' = Queued \cup {i}
  <2>1. Queued' = {heap'[m].item : m \in DOMAIN heap'} BY DEF Queued
  <2> QED BY <1>3, <2>1 DEF Queued
<1> QED BY <1>3, <1>4, <1>5, <1>7, <1>8

-------------------------------------------------------------------------------
(* The position of a call in the walk. *)

IsKept(kept, num, s, n) ==
  \A k \in 0 .. Len(s) :
    kept[k] = IF k = 0 THEN <<>>
              ELSE IF num[s[k]] = n THEN kept[k - 1] ELSE Append(kept[k - 1], s[k])

\* Kept(num, s, n) is what its definition says: such a function exists.
LEMMA KeptUnfold ==
  ASSUME NEW num, NEW s, Len(s) \in Nat, NEW n
  PROVE  IsKept(Kept(num, s, n), num, s, n)
<1> DEFINE Def(g, k) == IF k = 0 THEN <<>>
                        ELSE IF num[s[k]] = n THEN g[k - 1] ELSE Append(g[k - 1], s[k])
           Is(g, m) == g = [k \in 0 .. m |-> Def(g, k)]
           N == {m \in Nat : \E g : Is(g, m)}
<1>1. Nat \subseteq N
  <2>1. Is([k \in 0 .. 0 |-> <<>>], 0) OBVIOUS
  <2>2. ASSUME NEW m \in Nat, m \in N PROVE m + 1 \in N
    <3>1. PICK g : Is(g, m) BY <2>2
    <3> DEFINE h == [k \in 0 .. m + 1 |-> IF k = m + 1 THEN Def(g, m + 1) ELSE g[k]]
    <3>2. ASSUME NEW k \in 0 .. m + 1 PROVE h[k] = Def(h, k)
      <4>1. CASE k = m + 1
        <5>1. k - 1 \in 0 .. m + 1 /\ k - 1 # m + 1 /\ k # 0 /\ k - 1 = m BY <4>1
        <5>2. h[k - 1] = g[k - 1] BY <5>1
        <5>3. h[k] = Def(g, m + 1) BY <4>1
        <5> HIDE DEF h
        <5> QED BY <4>1, <5>1, <5>2, <5>3
      <4>2. CASE k # m + 1
        <5>1. k \in 0 .. m BY <4>2
        <5>2. h[k] = g[k] /\ g[k] = Def(g, k) BY <3>1, <4>2, <5>1
        <5>3. k # 0 => k - 1 \in 0 .. m + 1 /\ k - 1 # m + 1 BY <5>1
        <5>4. k # 0 => h[k - 1] = g[k - 1] BY <5>3
        <5> HIDE DEF h
        <5> QED BY <5>2, <5>4
      <4> QED BY <4>1, <4>2
    <3>3. h = [k \in 0 .. m + 1 |-> h[k]] OBVIOUS
    <3> HIDE DEF h
    <3>4. [k \in 0 .. m + 1 |-> h[k]] = [k \in 0 .. m + 1 |-> Def(h, k)] BY <3>2
    <3>5. Is(h, m + 1) BY <3>3, <3>4
    <3> HIDE DEF Is
    <3> QED BY <3>5
  <2>3. 0 \in N BY <2>1
  <2> HIDE DEF N
  <2> QED BY <2>2, <2>3, SetInduction
<1> DEFINE kept == CHOOSE g : Is(g, Len(s))
<1>2. Is(kept, Len(s)) BY <1>1
<1>3. Kept(num, s, n) = kept BY DEF Kept
<1>4. \A k \in 0 .. Len(s) : kept[k] = Def(kept, k)
  <2> HIDE DEF kept
  <2> QED BY <1>2
<1> HIDE DEF kept
<1> QED BY <1>3, <1>4 DEF IsKept

\* A prefix of a sequence, one longer.
LEMMA PrefixAppend ==
  ASSUME NEW s \in Seq(Items), NEW k \in 1 .. Len(s)
  PROVE  Append([j \in 1 .. k - 1 |-> s[j]], s[k]) = [j \in 1 .. k |-> s[j]]
<1> DEFINE p == [j \in 1 .. k - 1 |-> s[j]]
<1>1. \A j \in 1 .. k - 1 : s[j] \in Items OBVIOUS
<1>2. p \in Seq(Items) /\ Len(p) = k - 1 BY <1>1
<1>3. s[k] \in Items OBVIOUS
<1>a. Append(p, s[k]) \in Seq(Items)
  <2> HIDE DEF p
  <2> QED BY <1>2, <1>3
<1>4. PICK t \in Seq(Items) : t = Append(p, s[k]) BY <1>a
<1>5. Len(t) = k /\ \A j \in 1 .. k : t[j] = s[j]
  <2>1. \A j \in 1 .. k - 1 : p[j] = s[j] OBVIOUS
  <2> HIDE DEF p
  <2> QED BY <1>2, <1>3, <1>4, <2>1
<1>6. t = [j \in 1 .. Len(t) |-> t[j]] OBVIOUS
<1> QED BY <1>4, <1>5, <1>6

\* A call begins at the head.
LEMMA AtStart ==
  ASSUME NEW o \in Calls, NEW w, NEW s \in Seq(Items), Len(w) = Len(s), NEW num,
         o.currNode = (IF Len(w) = 0 THEN NULL ELSE w[1]), o.seen = <<>>, o.before = s
  PROVE  At(1, o, w, s, num)
<1>1. Len(s) \in Nat /\ 1 - 1 = 0 /\ 1 .. 0 = {} OBVIOUS
<1>2. Reached(1, o, w) BY <1>1 DEF Reached
<1>3. Unchanged(1, o, s) BY DEF Unchanged
<1>4. [j \in 1 .. 0 |-> s[j]] = <<>> OBVIOUS
<1>5. Shown(1, o, s) BY <1>1, <1>4 DEF Shown
<1>6. NotFound(1, o, s, num) BY <1>1 DEF NotFound
<1>7. Kept(num, o.before, o.target)[0] = <<>>
  <2>1. Len(o.before) \in Nat BY DEF Calls
  <2>2. 0 \in 0 .. Len(o.before) BY <2>1
  <2>3. IsKept(Kept(num, o.before, o.target), num, o.before, o.target) BY <2>1, KeptUnfold
  <2> QED BY <2>2, <2>3 DEF IsKept
<1>8. Deleted(1, o, s, num)
  <2>1. Len(o.before) - Len(s) = 0 BY <1>1
  <2>2. \A j \in 1 .. Len(s) : j + 0 = j OBVIOUS
  <2> QED BY <1>1, <1>4, <1>7, <2>1, <2>2 DEF Deleted
<1> QED BY <1>2, <1>3, <1>5, <1>6, <1>8 DEF At

\* A call moves on behind an item that does not match.
LEMMA AtNext ==
  ASSUME NEW o \in Calls, NEW o2 \in Calls, NEW w, NEW s \in Seq(Items), Len(w) = Len(s),
         NEW num, NEW k \in 1 .. Len(s), At(k, o, w, s, num),
         o2.name = o.name, o2.target = o.target, o2.before = o.before,
         o2.currNode = (IF k = Len(w) THEN NULL ELSE w[k + 1]),
         o.name \in {"pop_item_q", "delete_integer_targets_q"} => o2.lastNode = w[k],
         o.name = "iterate_q" => o2.seen = Append(o.seen, s[k]),
         o.name \notin {"iterate_q", "delete_q"} => num[s[k]] # o.target
  PROVE  At(k + 1, o2, w, s, num)
<1>1. /\ Len(s) \in Nat /\ k + 1 \in 1 .. Len(s) + 1 /\ k + 1 - 1 = k
      /\ (k + 1 <= Len(s) <=> k # Len(s)) /\ k \in Nat
  OBVIOUS
<1>2. Reached(k + 1, o2, w) BY <1>1 DEF Reached
<1>3. Unchanged(k + 1, o2, s) BY DEF At, Unchanged
<1>4. Shown(k + 1, o2, s)
  <2>1. Append([j \in 1 .. k - 1 |-> s[j]], s[k]) = [j \in 1 .. k |-> s[j]] BY PrefixAppend
  <2>2. o.name = "iterate_q" => o.seen = [j \in 1 .. k - 1 |-> s[j]] BY DEF At, Shown
  <2>3. o.name = "iterate_q" => o2.seen = [j \in 1 .. k |-> s[j]] BY <2>1, <2>2
  <2>4. k + 1 - 1 = k BY <1>1
  <2> QED BY ONLY <2>3, <2>4, o2.name = o.name DEF Shown
<1>5. NotFound(k + 1, o2, s, num)
  <2>1. \A j \in 1 .. k : j \in 1 .. k - 1 \/ j = k OBVIOUS
  <2> QED BY <1>1, <2>1 DEF At, NotFound, Loops3
<1>6. Deleted(k + 1, o2, s, num)
  <2> SUFFICES ASSUME o.name = "delete_integer_targets_q" PROVE Deleted(k + 1, o2, s, num)
    BY DEF Deleted
  <2>1. PICK gone : gone = Len(o.before) - Len(s) OBVIOUS
  <2>2. /\ gone \in Nat /\ \A j \in k .. Len(s) : s[j] = o.before[j + gone]
        /\ Kept(num, o.before, o.target)[k - 1 + gone] = [j \in 1 .. k - 1 |-> s[j]]
    BY <2>1 DEF At, Deleted
  <2>3. Len(o.before) \in Nat BY DEF Calls
  <2>4. k + gone \in 0 .. Len(o.before) /\ k + gone # 0 /\ k + gone - 1 = k - 1 + gone
    <3>1. PICK n, l : n = Len(o.before) /\ l = Len(s) OBVIOUS
    <3>2. n \in Nat /\ l \in Nat /\ gone = n - l /\ gone \in Nat /\ k \in 1 .. l
      BY <1>1, <2>1, <2>2, <2>3, <3>1
    <3>3. k + gone \in 0 .. n /\ k + gone # 0 /\ k + gone - 1 = k - 1 + gone BY ONLY <3>2
    <3> QED BY <3>1, <3>3
  <2>5. o.before[k + gone] = s[k] BY <2>2
  <2>6. Kept(num, o.before, o.target)[k + gone]
          = Append(Kept(num, o.before, o.target)[k - 1 + gone], s[k])
    <3>1. PICK kept : kept = Kept(num, o.before, o.target) OBVIOUS
    <3>2. PICK m \in 0 .. Len(o.before) : m = k + gone BY <2>4
    <3>3. IsKept(kept, num, o.before, o.target) BY <2>3, <3>1, KeptUnfold
    <3>4. m # 0 /\ m - 1 = k - 1 + gone BY <1>1, <2>2, <2>4, <3>2
    <3>5. kept[m] = IF num[o.before[m]] = o.target THEN kept[m - 1] ELSE Append(kept[m - 1], o.before[m])
      BY <3>3, <3>4 DEF IsKept
    <3> QED BY <2>5, <3>1, <3>2, <3>4, <3>5
  <2>7. Kept(num, o.before, o.target)[k + gone] = [j \in 1 .. k |-> s[j]]
    BY <2>2, <2>6, PrefixAppend
  <2>8. \A j \in k + 1 .. Len(s) : s[j] = o.before[j + gone] BY <1>1, <2>2
  <2> QED BY <1>1, <2>1, <2>2, <2>7, <2>8 DEF Deleted
<1> QED BY <1>2, <1>3, <1>4, <1>5, <1>6 DEF At

\* A call deletes the item at its position, and is then at the same position.
LEMMA AtDelete ==
  ASSUME NEW o \in Calls, NEW o2 \in Calls, NEW w, NEW s \in Seq(Items), Len(w) = Len(s),
         NEW num, NEW k \in 1 .. Len(s), At(k, o, w, s, num),
         o2.name = o.name, o2.target = o.target, o2.before = o.before, o2.lastNode = o.lastNode,
         o2.currNode = (IF k = Len(w) THEN NULL ELSE w[k + 1]),
         o.name = "delete_integer_targets_q", num[s[k]] = o.target
  PROVE  At(k, o2, Without(w, k), Without(s, k), num)
<1> DEFINE n == Len(s)
           w2 == Without(w, k)
           s2 == Without(s, k)
<1>1. n \in Nat /\ n # 0 /\ k \in 1 .. n /\ k \in Nat OBVIOUS
<1>2. /\ Len(w2) = n - 1 /\ Len(s2) = n - 1
      /\ \A j \in 1 .. n - 1 : /\ w2[j] = (IF j < k THEN w[j] ELSE w[j + 1])
                               /\ s2[j] = (IF j < k THEN s[j] ELSE s[j + 1])
  BY <1>1 DEF Without
<1> HIDE DEF w2, s2
<1>3. Reached(k, o2, w2)
  <2>1. k \in 1 .. Len(w2) + 1 BY <1>1, <1>2
  <2>2. o2.currNode = IF k <= Len(w2) THEN w2[k] ELSE NULL
    <3>1. k # n => k \in 1 .. n - 1 /\ ~(k < k) BY <1>1
    <3>2. k <= n - 1 <=> k # n BY <1>1
    <3> QED BY <1>2, <3>1, <3>2
  <2>3. k > 1 => o2.lastNode = w2[k - 1]
    <3>1. k > 1 => k - 1 \in 1 .. n - 1 /\ k - 1 < k BY <1>1
    <3> QED BY <1>2, <3>1 DEF At, Reached
  <2> QED BY <2>1, <2>2, <2>3 DEF Reached
<1>4. Unchanged(k, o2, s2) /\ Shown(k, o2, s2) /\ NotFound(k, o2, s2, num)
  BY DEF Unchanged, Shown, NotFound, Loops3
<1>5. Deleted(k, o2, s2, num)
  <2>1. PICK gone : gone = Len(o.before) - Len(s) OBVIOUS
  <2>2. /\ gone \in Nat /\ \A j \in k .. n : s[j] = o.before[j + gone]
        /\ Kept(num, o.before, o.target)[k - 1 + gone] = [j \in 1 .. k - 1 |-> s[j]]
    BY <2>1 DEF At, Deleted
  <2>3. Len(o.before) \in Nat BY DEF Calls
  <2>4. k + gone \in 0 .. Len(o.before) /\ k + gone # 0 /\ k + gone - 1 = k - 1 + gone
    BY <1>1, <2>1, <2>2, <2>3
  <2>5. o.before[k + gone] = s[k] BY <1>1, <2>2
  <2>6. Kept(num, o.before, o.target)[k + gone] = Kept(num, o.before, o.target)[k - 1 + gone]
    <3>1. PICK kept : kept = Kept(num, o.before, o.target) OBVIOUS
    <3>2. PICK m \in 0 .. Len(o.before) : m = k + gone BY <2>4
    <3>3. IsKept(kept, num, o.before, o.target) BY <2>3, <3>1, KeptUnfold
    <3>4. m # 0 /\ m - 1 = k - 1 + gone BY <1>1, <2>2, <2>4, <3>2
    <3>5. kept[m] = IF num[o.before[m]] = o.target THEN kept[m - 1] ELSE Append(kept[m - 1], o.before[m])
      BY <3>3, <3>4 DEF IsKept
    <3> QED BY <2>5, <3>1, <3>2, <3>4, <3>5
  <2>7. \A j \in 1 .. k - 1 : s2[j] = s[j]
    <3>1. \A j \in 1 .. k - 1 : j \in 1 .. n - 1 /\ j < k BY <1>1
    <3> QED BY <1>2, <3>1
  <2>8. [j \in 1 .. k - 1 |-> s[j]] = [j \in 1 .. k - 1 |-> s2[j]] BY <2>7
  <2>9. ASSUME NEW j \in k .. n - 1 PROVE s2[j] = o.before[j + (gone + 1)]
    <3>1. j \in 1 .. n - 1 /\ ~(j < k) /\ j + 1 \in k .. n /\ j + 1 + gone = j + (gone + 1)
      BY <1>1, <2>2
    <3> QED BY <1>2, <2>2, <3>1
  <2>10. Len(o2.before) - Len(s2) = gone + 1 BY <1>1, <1>2, <2>1, <2>3
  <2>11. gone + 1 \in Nat /\ k - 1 + (gone + 1) = k + gone BY <1>1, <2>2
  <2> QED BY <1>2, <2>2, <2>6, <2>8, <2>9, <2>10, <2>11 DEF Deleted
<1> QED BY <1>3, <1>4, <1>5 DEF At, w2, s2

-------------------------------------------------------------------------------
(* Inv is inductive. *)

\* Nothing happens to the list.
LEMMA ListStays ==
  ASSUME UNCHANGED <<queue, heap>>
  PROVE  /\ Walk' = Walk /\ ItemsOf(Walk)' = ItemsOf(Walk) /\ Queued' = Queued
         /\ ListInv /\ (queue = NULL => op' = NULL) => ListInv'
BY DEF Walk, ItemsOf, Queued, ListInv

\* The node that a loop has come to.
LEMMA CurrNode ==
  ASSUME Inv, op # NULL, op.name # "delete_q", op.currNode # NULL
  PROVE  \E k \in 1 .. Len(Walk) :
           /\ At(k, op, Walk, ItemsOf(Walk), number)
           /\ op.currNode = Walk[k] /\ op.currNode \in DOMAIN heap
           /\ currItem = ItemsOf(Walk)[k] /\ currItem \in Items
           /\ heap[op.currNode].node_behind = IF k = Len(Walk) THEN NULL ELSE Walk[k + 1]
           /\ heap[op.currNode].node_behind \in Pointers
<1>1. queue # NULL BY DEF Inv, ListInv
<1>2. /\ IsWalk(Walk, queue, heap) /\ HeapType(heap)
      /\ Walk \in [1 .. Len(Walk) -> DOMAIN heap] /\ Len(Walk) \in Nat
      /\ \A k \in 1 .. Len(Walk) : ItemsOf(Walk)[k] = heap[Walk[k]].item
      /\ \A k \in 1 .. Len(Walk) : ItemsOf(Walk)[k] \in Items
  BY <1>1, WalkItems DEF Inv
<1>3. PICK k \in 1 .. Len(Walk) + 1 : At(k, op, Walk, ItemsOf(Walk), number)
  BY DEF Inv, CallInv
<1>4. op.currNode = IF k <= Len(Walk) THEN Walk[k] ELSE NULL BY <1>3 DEF At, Reached
<1>5. k \in 1 .. Len(Walk) BY <1>2, <1>4
<1>6. op.currNode = Walk[k] BY <1>4, <1>5
<1>7. op.currNode \in DOMAIN heap BY <1>2, <1>5, <1>6
<1>8. currItem = ItemsOf(Walk)[k] BY <1>2, <1>5, <1>6 DEF currItem
<1>9. heap[Walk[k]].node_behind = IF k = Len(Walk) THEN NULL ELSE Walk[k + 1]
  <2>1. DOMAIN Walk = 1 .. Len(Walk) BY <1>2
  <2> QED BY <1>2, <1>5, <2>1 DEF IsWalk
<1>10. heap[op.currNode].node_behind \in Pointers BY <1>2, <1>7 DEF HeapType
<1>11. ItemsOf(Walk)[k] \in Items BY <1>2, <1>5
<1> QED BY <1>3, <1>5, <1>6, <1>7, <1>8, <1>9, <1>10, <1>11

\* Operations without a loop.
LEMMA OperationStep ==
  ASSUME Inv, \/ make_q \/ enq_q_fails \/ deq_q \/ peek_q \/ nothing_there
              \/ \E i \in Items : NewItem(i) \/ FreeItem(i) \/ \E n \in Nodes : enq_q(i, n)
  PROVE  Inv'
<1> USE DEF Inv
<1>0. op = NULL /\ op' = NULL
  BY DEF make_q, enq_q_fails, deq_q, peek_q, nothing_there, NewItem, FreeItem, enq_q
<1>1. CallInv' BY <1>0 DEF CallInv
<1>2. CASE make_q
  <2>1. heap = [n \in {} |-> NULL] /\ UNCHANGED <<version, heap, items, number>>
    BY <1>2 DEF make_q, ListInv
  <2>2. queue' \in Headers /\ IsWalk(Walk', queue', heap') BY <1>2, MadeQueue
  <2>3. ListInv' BY <2>2, PointersDiffer DEF ListInv
  <2>4. ItemsInv' BY <2>1 DEF ItemsInv, Queued
  <2>5. TypeOK' BY <1>0, <2>1, <2>2 DEF TypeOK
  <2> QED BY <1>1, <2>3, <2>4, <2>5
<1>3. CASE enq_q_fails \/ peek_q \/ nothing_there
  <2>1. UNCHANGED <<version, queue, heap, items, number>>
    BY <1>3 DEF enq_q_fails, peek_q, nothing_there
  <2>2. ListInv' BY <1>0, <2>1, ListStays
  <2> QED BY <1>0, <1>1, <2>1, <2>2 DEF TypeOK, ItemsInv, Queued
<1>4. ASSUME NEW i \in Items, NewItem(i) \/ FreeItem(i) PROVE Inv'
  <2>1. UNCHANGED <<version, queue, heap, number>> /\ items' \subseteq Items /\ Queued \subseteq items'
    BY <1>4 DEF NewItem, FreeItem, TypeOK, ItemsInv
  <2>2. ListInv' /\ Queued' = Queued BY <1>0, <2>1, ListStays
  <2> QED BY <1>0, <1>1, <2>1, <2>2 DEF TypeOK, ItemsInv
<1>5. CASE deq_q
  <2>1. queue # NULL /\ queue.head # NULL BY <1>5 DEF deq_q, IsEmpty
  <2>2. /\ Len(Walk) \in Nat /\ queue.head = IF Len(Walk) = 0 THEN NULL ELSE Walk[1] BY <2>1, WalkItems
  <2>3. 1 \in 1 .. Len(Walk) /\ queue.head = Walk[1] BY <2>1, <2>2
  <2>4. /\ queue' = unlinked_q(queue, heap, Walk[1], UNDEF)
        /\ heap' = unlinked_heap(queue, heap, Walk[1], UNDEF)
        /\ UNCHANGED <<version, items, number>>
    BY <1>5, <2>3 DEF deq_q, unlinked_q, unlinked_heap
  <2>5. InFront(UNDEF, Walk, 1) BY DEF InFront
  <2>6. /\ queue' \in Headers /\ HeapType(heap') /\ IsWalk(Walk', queue', heap')
        /\ Queued' = Queued \ {ItemsOf(Walk)[1]}
        /\ \A m, n \in DOMAIN heap' : heap'[m].item = heap'[n].item => m = n
    BY <2>1, <2>3, <2>4, <2>5, NodeRemoved
  <2>7. TypeOK' BY <1>0, <2>4, <2>6 DEF TypeOK, HeapType
  <2>8. ListInv' BY <2>6, PointersDiffer DEF ListInv
  <2>9. ItemsInv' BY <2>4, <2>6 DEF ItemsInv
  <2> QED BY <1>1, <2>7, <2>8, <2>9
<1>6. ASSUME NEW i \in Items, NEW n \in Nodes, enq_q(i, n) PROVE Inv'
  <2>1. /\ queue' \in Headers /\ HeapType(heap') /\ IsWalk(Walk', queue', heap')
        /\ Queued' = Queued \cup {i}
        /\ \A m, o \in DOMAIN heap' : heap'[m].item = heap'[o].item => m = o
    BY <1>6, NodeAdded
  <2>2. UNCHANGED <<version, items, number>> /\ i \in items BY <1>6 DEF enq_q
  <2>3. TypeOK' BY <1>0, <2>1, <2>2 DEF TypeOK, HeapType
  <2>4. ListInv' BY <2>1, PointersDiffer DEF ListInv
  <2>5. ItemsInv' BY <2>1, <2>2 DEF ItemsInv
  <2> QED BY <1>1, <2>3, <2>4, <2>5
<1> QED BY <1>2, <1>3, <1>4, <1>5, <1>6

\* A call with a loop begins.
LEMMA CallStep ==
  ASSUME Inv, NEW name \in Loops \cup Loops3, NEW target \in Numbers \cup BOOLEAN \cup {NULL},
         name \notin {"iterate_q", "delete_q"} => target \in Numbers, call(name, target)
  PROVE  Inv' /\ op' \in Calls
<1>1. /\ op = NULL /\ queue # NULL
      /\ op' = [name |-> name, target |-> target, currNode |-> queue.head,
                lastNode |-> UNDEF, seen |-> <<>>, before |-> ItemsOf(Walk)]
      /\ UNCHANGED <<version, queue, heap, items, number>>
  BY DEF call
<1>2. /\ queue \in Headers /\ ItemsOf(Walk) \in Seq(Items) /\ Len(ItemsOf(Walk)) = Len(Walk)
      /\ Len(Walk) \in Nat /\ queue.head = IF Len(Walk) = 0 THEN NULL ELSE Walk[1]
  BY <1>1, WalkItems DEF Inv
<1>3. op' \in Calls
  <2>1. <<>> \in Seq(Items) /\ queue.head \in Pointers BY <1>2 DEF Headers
  <2> QED BY <1>1, <1>2, <2>1 DEF Calls
<1>4. TypeOK' BY <1>1, <1>3 DEF Inv, TypeOK
<1>5. ListInv' /\ Walk' = Walk /\ ItemsOf(Walk)' = ItemsOf(Walk) /\ Queued' = Queued
  BY <1>1, ListStays DEF Inv
<1>6. ItemsInv' BY <1>1, <1>5 DEF Inv, ItemsInv
<1>7. CallInv'
  <2>1. /\ op'.currNode = (IF Len(Walk) = 0 THEN NULL ELSE Walk[1]) /\ op'.seen = <<>>
        /\ op'.before = ItemsOf(Walk) /\ op'.name = name /\ op'.target = target
    BY <1>1, <1>2
  <2>2. At(1, op', Walk, ItemsOf(Walk), number) BY <1>2, <1>3, <2>1, AtStart
  <2>3. 1 \in 1 .. Len(Walk) + 1 BY <1>2
  <2> QED BY <1>1, <1>5, <2>1, <2>2, <2>3 DEF CallInv
<1> QED BY <1>3, <1>4, <1>5, <1>6, <1>7 DEF Inv

\* itemfunc() sees an item, or an item does not match.
LEMMA NextStep ==
  ASSUME Inv, iterate_step \/ move_on
  PROVE  Inv' /\ op' \in Calls
<1>1. /\ op # NULL /\ op.name \notin {"delete_q"} /\ op.currNode # NULL
      /\ op' = [op EXCEPT !.seen = op'.seen, !.lastNode = op'.lastNode,
                          !.currNode = heap[op.currNode].node_behind]
      /\ op.name = "iterate_q" => op'.seen = Append(op.seen, currItem)
      /\ op.name # "iterate_q" => op'.seen = op.seen /\ number[currItem] # op.target
      /\ op'.lastNode = IF op.name \in {"iterate_q", "get_item_q"} THEN op.lastNode ELSE op.currNode
      /\ UNCHANGED <<version, queue, heap, items, number>>
  <2>1. op \in Calls \cup {NULL} BY DEF Inv, TypeOK
  <2>2. CASE iterate_step BY <2>1, <2>2 DEF iterate_step, In, Calls
  <2>3. CASE move_on BY <2>1, <2>3 DEF move_on, In, Calls, Matches
  <2> QED BY <2>2, <2>3
<1>2. op \in Calls /\ queue # NULL BY <1>1 DEF Inv, TypeOK, ListInv
<1>3. PICK k \in 1 .. Len(Walk) :
        /\ At(k, op, Walk, ItemsOf(Walk), number)
        /\ op.currNode = Walk[k] /\ op.currNode \in DOMAIN heap
        /\ currItem = ItemsOf(Walk)[k] /\ currItem \in Items
        /\ heap[op.currNode].node_behind = IF k = Len(Walk) THEN NULL ELSE Walk[k + 1]
        /\ heap[op.currNode].node_behind \in Pointers
  BY <1>1, CurrNode
<1>4. /\ ItemsOf(Walk) \in Seq(Items) /\ Len(ItemsOf(Walk)) = Len(Walk) /\ Len(Walk) \in Nat
  BY <1>2, WalkItems DEF Inv
<1>5. op' \in Calls
  <2>1. op'.lastNode \in Pointers \cup {UNDEF} BY <1>1, <1>2 DEF Calls
  <2>2. op'.seen \in Seq(Items)
    <3>1. op.seen \in Seq(Items) BY <1>2 DEF Calls
    <3>2. Append(op.seen, currItem) \in Seq(Items) BY <1>3, <3>1
    <3> QED BY <1>1, <3>1, <3>2
  <2> QED BY <1>1, <1>2, <1>3, <2>1, <2>2 DEF Calls
<1>6. TypeOK' BY <1>1, <1>5 DEF Inv, TypeOK
<1>7. ListInv' /\ Walk' = Walk /\ ItemsOf(Walk)' = ItemsOf(Walk) /\ Queued' = Queued
  BY <1>1, <1>2, ListStays DEF Inv
<1>8. ItemsInv' BY <1>1, <1>7 DEF Inv, ItemsInv
<1>9. /\ op'.name = op.name /\ op'.target = op.target /\ op'.before = op.before
      /\ op'.currNode = (IF k = Len(Walk) THEN NULL ELSE Walk[k + 1])
  BY <1>1, <1>2, <1>3 DEF Calls
<1>10. At(k + 1, op', Walk, ItemsOf(Walk), number)
  <2>1. op.name \in {"pop_item_q", "delete_integer_targets_q"} => op'.lastNode = Walk[k]
    BY <1>1, <1>3
  <2>2. op.name = "iterate_q" => op'.seen = Append(op.seen, ItemsOf(Walk)[k]) BY <1>1, <1>3
  <2>3. op.name \notin {"iterate_q", "delete_q"} => number[ItemsOf(Walk)[k]] # op.target
    BY <1>1, <1>3
  <2>4. k \in 1 .. Len(ItemsOf(Walk)) BY <1>4
  <2> QED BY <1>2, <1>3, <1>4, <1>5, <1>9, <2>1, <2>2, <2>3, <2>4, AtNext
<1>11. CallInv'
  <2>1. k + 1 \in 1 .. Len(Walk) + 1 BY <1>4
  <2>2. op.name # "iterate_q" => op.target \in Numbers BY <1>1 DEF Inv, CallInv
  <2> QED BY <1>1, <1>7, <1>9, <1>10, <2>1, <2>2 DEF CallInv
<1> QED BY <1>5, <1>6, <1>7, <1>8, <1>11 DEF Inv

\* A node that matches, or the head in delete_q(), is taken out of the list.
LEMMA RemovalKeepsInv ==
  ASSUME Inv, queue # NULL, NEW j \in 1 .. Len(Walk), NEW l, InFront(l, Walk, j),
         queue' = unlinked_q(queue, heap, Walk[j], l),
         heap' = unlinked_heap(queue, heap, Walk[j], l),
         UNCHANGED <<version, number>>,
         items' \in {items, items \ {ItemsOf(Walk)[j]}}, op' \in Calls \cup {NULL}
  PROVE  /\ TypeOK' /\ ListInv' /\ ItemsInv' /\ queue' \in Headers
         /\ Walk' = Without(Walk, j) /\ ItemsOf(Walk)' = Without(ItemsOf(Walk), j)
         /\ nextNode(queue, heap, Walk[j], l) = IF j = Len(Walk) THEN NULL ELSE Walk[j + 1]
<1>1. /\ queue' \in Headers /\ HeapType(heap') /\ IsWalk(Walk', queue', heap')
      /\ Walk' = Without(Walk, j)
      /\ ItemsOf(Walk)' = Without(ItemsOf(Walk), j)
      /\ Queued' = Queued \ {ItemsOf(Walk)[j]}
      /\ \A m, n \in DOMAIN heap' : heap'[m].item = heap'[n].item => m = n
      /\ nextNode(queue, heap, Walk[j], l) = IF j = Len(Walk) THEN NULL ELSE Walk[j + 1]
  BY NodeRemoved DEF Inv
<1>2. TypeOK' BY <1>1 DEF Inv, TypeOK, HeapType
<1>3. ListInv' BY <1>1, PointersDiffer DEF ListInv
<1>4. ItemsInv' BY <1>1 DEF Inv, ItemsInv
<1> QED BY <1>1, <1>2, <1>3, <1>4

\* pop_item_q() and delete_integer_targets_q() find an item that matches.
LEMMA MatchStep ==
  ASSUME Inv, pop_item_match \/ delete_match
  PROVE  /\ Inv' /\ queue' \in Headers /\ (delete_match => op' \in Calls)
         /\ \E k \in 1 .. Len(Walk) :
              /\ At(k, op, Walk, ItemsOf(Walk), number) /\ currItem = ItemsOf(Walk)[k]
              /\ ItemsOf(Walk)' = Without(ItemsOf(Walk), k)
<1>1. /\ op # NULL /\ op.name \in {"pop_item_q", "delete_integer_targets_q"} /\ op.currNode # NULL
      /\ number[currItem] = op.target
      /\ queue' = unlinked_q(queue, heap, op.currNode, op.lastNode)
      /\ heap' = unlinked_heap(queue, heap, op.currNode, op.lastNode)
      /\ items' \in {items, items \ {currItem}}
      /\ UNCHANGED <<version, number>>
      /\ \/ op' = NULL
         \/ /\ op.name = "delete_integer_targets_q"
            /\ op' = [op EXCEPT !.currNode = nextNode(queue, heap, op.currNode, op.lastNode)]
  BY DEF pop_item_match, delete_match, In, Matches, return
<1>2. op \in Calls /\ queue # NULL BY <1>1 DEF Inv, TypeOK, ListInv
<1>3. PICK k \in 1 .. Len(Walk) :
        /\ At(k, op, Walk, ItemsOf(Walk), number)
        /\ op.currNode = Walk[k] /\ op.currNode \in DOMAIN heap
        /\ currItem = ItemsOf(Walk)[k] /\ currItem \in Items
        /\ heap[op.currNode].node_behind = IF k = Len(Walk) THEN NULL ELSE Walk[k + 1]
        /\ heap[op.currNode].node_behind \in Pointers
  BY <1>1, CurrNode
<1>4. /\ ItemsOf(Walk) \in Seq(Items) /\ Len(ItemsOf(Walk)) = Len(Walk) /\ Len(Walk) \in Nat
      /\ Walk \in [1 .. Len(Walk) -> DOMAIN heap] /\ DOMAIN heap \subseteq Nodes
  BY <1>2, WalkItems DEF Inv, HeapType
<1>5. InFront(op.lastNode, Walk, k)
  <2>1. k > 1 => op.lastNode = Walk[k - 1] BY <1>1, <1>3 DEF At, Reached
  <2> QED BY <2>1 DEF InFront
<1>6. nextNode(queue, heap, Walk[k], op.lastNode) \in Pointers
  BY <1>3 DEF nextNode, Pointers
<1>7. op' \in Calls \cup {NULL} BY <1>1, <1>2, <1>3, <1>6 DEF Calls
<1>8. /\ TypeOK' /\ ListInv' /\ ItemsInv' /\ queue' \in Headers
      /\ Walk' = Without(Walk, k) /\ ItemsOf(Walk)' = Without(ItemsOf(Walk), k)
      /\ nextNode(queue, heap, Walk[k], op.lastNode) = IF k = Len(Walk) THEN NULL ELSE Walk[k + 1]
  BY <1>1, <1>2, <1>3, <1>5, <1>7, RemovalKeepsInv
<1>9. CallInv'
  <2>1. CASE op' = NULL BY <2>1 DEF CallInv
  <2>2. CASE op' # NULL
    <3>1. /\ op.name = "delete_integer_targets_q"
          /\ op' = [op EXCEPT !.currNode = nextNode(queue, heap, op.currNode, op.lastNode)]
          /\ op' \in Calls
      BY <1>1, <1>7, <2>2
    <3>2. /\ op'.name = op.name /\ op'.target = op.target /\ op'.before = op.before
          /\ op'.lastNode = op.lastNode
          /\ op'.currNode = (IF k = Len(Walk) THEN NULL ELSE Walk[k + 1])
      BY <1>2, <1>3, <1>8, <3>1 DEF Calls
    <3>3. k \in 1 .. Len(ItemsOf(Walk)) /\ number[ItemsOf(Walk)[k]] = op.target BY <1>1, <1>3, <1>4
    <3>4. At(k, op', Without(Walk, k), Without(ItemsOf(Walk), k), number)
      BY <1>2, <1>3, <1>4, <3>1, <3>2, <3>3, AtDelete
    <3>5. k \in 1 .. Len(Walk') + 1
      <4>1. Len(Without(Walk, k)) = Len(Walk) - 1 BY <1>4 DEF Without
      <4>2. Len(Walk') = Len(Without(Walk, k)) BY <1>8
      <4>3. k \in 1 .. Len(Walk) - 1 + 1 BY <1>4
      <4> QED BY <4>1, <4>2, <4>3
    <3>6. op.target \in Numbers BY <1>1, <3>1 DEF Inv, CallInv
    <3> QED BY <1>1, <1>8, <3>2, <3>4, <3>5, <3>6 DEF CallInv
  <2> QED BY <2>1, <2>2
<1>10. delete_match => op' \in Calls
  BY <1>2, <1>3, <1>6 DEF delete_match, Calls
<1> QED BY <1>3, <1>8, <1>9, <1>10 DEF Inv

\* The other steps of a call.
LEMMA ReturnStep ==
  ASSUME Inv, end_of_list \/ get_item_match \/ delete_q_step \/ delete_q_end
  PROVE  Inv'
<1>1. CASE end_of_list \/ get_item_match
  <2>1. op' = NULL /\ UNCHANGED <<version, queue, heap, items, number>>
    BY <1>1 DEF end_of_list, get_item_match, return
  <2>2. ListInv' /\ Queued' = Queued BY <2>1, ListStays DEF Inv
  <2> QED BY <2>1, <2>2 DEF Inv, TypeOK, ItemsInv, CallInv
<1>2. CASE delete_q_step
  <2>1. op # NULL /\ op.name = "delete_q" /\ queue.head # NULL /\ UNCHANGED <<version, op, number>>
    BY <1>2 DEF delete_q_step, In
  <2>2. queue # NULL BY <2>1 DEF Inv, ListInv
  <2>3. /\ Len(Walk) \in Nat /\ queue.head = (IF Len(Walk) = 0 THEN NULL ELSE Walk[1])
        /\ \A k \in 1 .. Len(Walk) : ItemsOf(Walk)[k] = heap[Walk[k]].item
    BY <2>2, WalkItems DEF Inv
  <2>4. 1 \in 1 .. Len(Walk) /\ queue.head = Walk[1] BY <2>1, <2>3
  <2>5. /\ queue' = unlinked_q(queue, heap, Walk[1], UNDEF)
        /\ heap' = unlinked_heap(queue, heap, Walk[1], UNDEF)
        /\ items' \in {items, items \ {ItemsOf(Walk)[1]}}
    BY <1>2, <2>3, <2>4 DEF delete_q_step, unlinked_q, unlinked_heap
  <2>6. InFront(UNDEF, Walk, 1) BY DEF InFront
  <2>7. op' \in Calls \cup {NULL} BY <2>1 DEF Inv, TypeOK
  <2>8. TypeOK' /\ ListInv' /\ ItemsInv' BY <2>1, <2>2, <2>4, <2>5, <2>6, <2>7, RemovalKeepsInv
  <2>9. CallInv' BY <2>1 DEF CallInv
  <2> QED BY <2>8, <2>9 DEF Inv
<1>3. CASE delete_q_end
  <2>1. /\ op # NULL /\ queue.head = NULL /\ queue' = NULL /\ op' = NULL
        /\ UNCHANGED <<version, heap, items, number>>
    BY <1>3 DEF delete_q_end, return, In
  <2>2. queue # NULL BY <2>1 DEF Inv, ListInv
  <2>3. heap = [n \in {} |-> NULL]
    <3>1. /\ IsWalk(Walk, queue, heap) /\ HeapType(heap) /\ Len(Walk) \in Nat
          /\ Walk \in [1 .. Len(Walk) -> DOMAIN heap] /\ (Len(Walk) # 0 => queue.head # NULL)
      BY <2>2, WalkItems DEF Inv
    <3>2. Len(Walk) = 0 /\ DOMAIN Walk = {} BY <2>1, <3>1
    <3>3. DOMAIN heap = {} BY <3>1, <3>2 DEF IsWalk
    <3>4. heap = [n \in DOMAIN heap |-> heap[n]] BY <3>1 DEF HeapType
    <3> QED BY <3>3, <3>4
  <2>4. ListInv' BY <2>1, <2>3 DEF ListInv
  <2> QED BY <2>1, <2>4 DEF Inv, TypeOK, ItemsInv, CallInv, Queued
<1> QED BY <1>1, <1>2, <1>3

\* The queue does not exist at first.
LEMMA InvInit == Init => Inv
<1> SUFFICES ASSUME Init PROVE Inv OBVIOUS
<1>1. DOMAIN heap = {} BY DEF Init
<1>2. TypeOK BY <1>1 DEF Init, TypeOK
<1> QED BY <1>1, <1>2 DEF Init, Inv, ListInv, ItemsInv, CallInv, Queued

\* Every step keeps Inv.
LEMMA InvStep == Inv /\ [Next]_vars => Inv'
<1> SUFFICES ASSUME Inv, [Next]_vars PROVE Inv' OBVIOUS
<1>1. CASE UNCHANGED vars
  BY <1>1 DEF vars, Inv, TypeOK, ListInv, ItemsInv, CallInv, Queued, Walk, ItemsOf
<1>2. CASE call("iterate_q", NULL) BY <1>2, CallStep DEF Loops
<1>3. ASSUME NEW itemdelete \in BOOLEAN, call("delete_q", itemdelete) PROVE Inv'
  BY <1>3, CallStep DEF Loops
<1>4. ASSUME NEW name \in Loops3 \cup {"delete_integer_targets_q"}, NEW t \in Numbers, call(name, t)
      PROVE  Inv'
  BY <1>4, CallStep DEF Loops, Loops3
<1>5. CASE LoopStep BY <1>5, NextStep, MatchStep, ReturnStep DEF LoopStep
<1> QED BY <1>1, <1>2, <1>3, <1>4, <1>5, OperationStep DEF Next

\* The reachable states of the queue module satisfy Inv.
THEOREM QueueInv == Spec => []Inv
BY InvInit, InvStep, PTL DEF Spec

\* Queue.ListWellFormed for every set of nodes: in every state, also between two
\* iterations of a loop, the nodes that are allocated are those between head and
\* tail, and what is queued is allocated.
THEOREM QueueListWellFormed == Spec => []ListWellFormed
<1>1. ASSUME Inv PROVE ListWellFormed
  <2>1. Queued \subseteq items BY <1>1 DEF Inv, ItemsInv
  <2>2. CASE queue = NULL BY <1>1, <2>1, <2>2 DEF Inv, ListInv, ListWellFormed
  <2>3. CASE queue # NULL
    <3>1. /\ IsWalk(Walk, queue, heap) /\ HeapType(heap)
          /\ Walk \in [1 .. Len(Walk) -> DOMAIN heap] /\ Len(Walk) \in Nat
      BY <1>1, <2>3, WalkItems DEF Inv
    <3>2. PICK w : w = Walk OBVIOUS
    <3>3. w \in [1 .. Len(w) -> DOMAIN heap] /\ Len(w) \in Nat BY <3>1, <3>2
    <3>4. {w[k] : k \in DOMAIN w} = DOMAIN heap
      <4>1. \A n \in DOMAIN heap : \E k \in DOMAIN w : w[k] = n BY <3>1, <3>2 DEF IsWalk
      <4>2. \A k \in DOMAIN w : w[k] \in DOMAIN heap BY <3>3
      <4> QED BY <4>1, <4>2
    <3>5. Len(w) = Cardinality(DOMAIN heap)
      <4>1. w \in Bijection(1 .. Len(w), DOMAIN heap)
        <5>1. w \in Injection(1 .. Len(w), DOMAIN heap)
          BY <3>1, <3>2, <3>3 DEF IsWalk, Injection, IsInjective
        <5>2. w \in Surjection(1 .. Len(w), DOMAIN heap)
          BY <3>1, <3>2, <3>3 DEF IsWalk, Surjection
        <5> QED BY <5>1, <5>2 DEF Bijection
      <4>2. IsFiniteSet(1 .. Len(w)) /\ Cardinality(1 .. Len(w)) = Len(w)
        <5>1. IsFiniteSet(1 .. Len(w)) /\ Cardinality(1 .. Len(w)) = IF 1 > Len(w) THEN 0 ELSE Len(w) - 1 + 1
          BY <3>3, FS_Interval
        <5> QED BY <3>3, <5>1
      <4>3. ExistsBijection(1 .. Len(w), DOMAIN heap) BY <4>1 DEF ExistsBijection
      <4> QED BY <4>2, <4>3, FS_Bijection
    <3>6. queue.tail = IF w = <<>> THEN NULL ELSE w[Len(w)] BY <3>1, <3>2 DEF IsWalk
    <3>7. queue.tail # NULL => heap[queue.tail].node_behind = NULL
      <4> SUFFICES ASSUME queue.tail # NULL PROVE heap[queue.tail].node_behind = NULL OBVIOUS
      <4>1. w # <<>> /\ queue.tail = w[Len(w)] BY <3>6
      <4>2. w \in Seq(DOMAIN heap) BY <3>1, <3>2 DEF IsWalk
      <4>3. Len(w) \in DOMAIN w BY <4>1, <4>2
      <4> QED BY <3>1, <3>2, <4>1, <4>3 DEF IsWalk
    <3> QED BY <2>1, <2>3, <3>2, <3>4, <3>5, <3>6, <3>7 DEF ListWellFormed
  <2> QED BY <2>2, <2>3
<1> QED BY <1>1, QueueInv, PTL

\* Queue.LastNodeIsInFront for every set of nodes: a loop never stands on a node that
\* was freed, and lastNode is the live node in front of it.
THEOREM QueueLastNodeIsInFront == Spec => []LastNodeIsInFront
<1>1. ASSUME Inv PROVE LastNodeIsInFront
  <2> SUFFICES ASSUME In({"pop_item_q", "delete_integer_targets_q"})
               PROVE  /\ op.currNode \in DOMAIN heap \cup {NULL}
                      /\ op.currNode \notin {NULL, queue.head} =>
                           /\ op.lastNode \in DOMAIN heap
                           /\ heap[op.lastNode].node_behind = op.currNode
    BY DEF LastNodeIsInFront
  <2>1. CASE op.currNode = NULL BY <2>1
  <2>2. CASE op.currNode # NULL
    <3>1. PICK k \in 1 .. Len(Walk) :
            /\ At(k, op, Walk, ItemsOf(Walk), number)
            /\ op.currNode = Walk[k] /\ op.currNode \in DOMAIN heap
      BY <1>1, <2>2, CurrNode DEF In
    <3>2. queue # NULL BY <1>1 DEF Inv, ListInv, In
    <3>3. /\ IsWalk(Walk, queue, heap) /\ Len(Walk) \in Nat
          /\ Walk \in [1 .. Len(Walk) -> DOMAIN heap]
          /\ queue.head = IF Len(Walk) = 0 THEN NULL ELSE Walk[1]
      BY <1>1, <3>2, WalkItems DEF Inv
    <3>4. CASE k = 1 BY <3>1, <3>3, <3>4
    <3>5. CASE k # 1
      <4>1. k > 1 /\ k - 1 \in 1 .. Len(Walk) /\ k - 1 # Len(Walk) /\ k - 1 + 1 = k BY <3>3, <3>5
      <4>2. op.lastNode = Walk[k - 1] BY <3>1, <4>1 DEF At, Reached, In
      <4>3. heap[Walk[k - 1]].node_behind = Walk[k] BY <3>3, <4>1 DEF IsWalk
      <4> QED BY <3>1, <3>3, <4>1, <4>2, <4>3
    <3> QED BY <3>4, <3>5
  <2> QED BY <2>1, <2>2
<1> QED BY <1>1, QueueInv, PTL

-------------------------------------------------------------------------------
(* Refinement. *)

Contents == IF op # NULL THEN op.before ELSE IF queue = NULL THEN NULL ELSE ItemsOf(Walk)

\* Taking an item out of a sequence.
LEMMA RemovedIs ==
  ASSUME NEW s \in Seq(Items), NEW k \in 1 .. Len(s)
  PROVE  /\ ItemsIn!RemoveAt(s, k) = Without(s, k)
         /\ k = 1 => Tail(s) = Without(s, k)
<1>1. PICK n \in Nat : n = Len(s) OBVIOUS
<1>2. k \in 1 .. n /\ k \in Int /\ n # 0 /\ s # <<>> BY <1>1
<1>a. \A j \in 1 .. n : s[j] \in Items BY <1>1
<1>3. PICK a : a = SubSeq(s, 1, k - 1) OBVIOUS
<1>4. PICK b : b = SubSeq(s, k + 1, n) OBVIOUS
<1>5. a \in Seq(Items) /\ Len(a) = k - 1 /\ \A j \in 1 .. k - 1 : a[j] = s[j]
  <2>1. k - 1 \in Int /\ \A j \in 1 .. k - 1 : s[j] \in Items BY <1>2, <1>a
  <2>2. /\ a \in Seq(Items) /\ Len(a) = IF 1 <= k - 1 THEN k - 1 - 1 + 1 ELSE 0
        /\ \A j \in 1 .. k - 1 - 1 + 1 : a[j] = s[1 + j - 1]
    BY <1>3, <2>1, SubSeqProperties
  <2>3. \A j \in 1 .. k - 1 : j \in 1 .. k - 1 - 1 + 1 /\ 1 + j - 1 = j BY <1>2
  <2> QED BY <1>2, <2>2, <2>3
<1>6. b \in Seq(Items) /\ Len(b) = n - k /\ \A j \in 1 .. n - k : b[j] = s[j + k]
  <2>1. k + 1 \in Int /\ n \in Int /\ \A j \in k + 1 .. n : s[j] \in Items BY <1>2, <1>a
  <2>2. /\ b \in Seq(Items) /\ Len(b) = IF k + 1 <= n THEN n - (k + 1) + 1 ELSE 0
        /\ \A j \in 1 .. n - (k + 1) + 1 : b[j] = s[k + 1 + j - 1]
    BY <1>4, <2>1, SubSeqProperties
  <2>3. ASSUME NEW j \in 1 .. n - k PROVE b[j] = s[j + k]
    <3>1. j \in 1 .. n - (k + 1) + 1 /\ k + 1 + j - 1 = j + k BY <1>2
    <3>2. b[j] = s[k + 1 + j - 1] BY <2>2, <3>1
    <3> QED BY <3>1, <3>2
  <2>4. Len(b) = n - k BY <1>2, <2>2
  <2> QED BY <2>2, <2>3, <2>4
<1>b. a \o b \in Seq(Items) /\ Len(a \o b) = n - 1
  <2>1. a \o b \in Seq(Items) /\ Len(a \o b) = Len(a) + Len(b) BY <1>5, <1>6, ConcatProperties
  <2> QED BY <1>2, <1>5, <1>6, <2>1
<1>7. PICK t \in Seq(Items) : t = a \o b BY <1>b
<1>8. Len(t) = n - 1 BY <1>7, <1>b
<1>9. ASSUME NEW j \in 1 .. n - 1 PROVE t[j] = IF j < k THEN s[j] ELSE s[j + 1]
  <2>1. CASE j < k
    <3>1. j \in 1 .. k - 1 BY <1>2, <2>1
    <3> QED BY <1>5, <1>7, <2>1, <3>1
  <2>2. CASE ~(j < k)
    <3>1. j - (k - 1) \in 1 .. n - k /\ j - (k - 1) + k = j + 1 /\ ~(j <= k - 1) BY <1>2, <2>2
    <3>2. t[j] = b[j - (k - 1)] BY SMTT(30), <1>5, <1>6, <1>7, <3>1
    <3> QED BY <1>6, <2>2, <3>1, <3>2
  <2> QED BY <2>1, <2>2
<1>10. t = [j \in 1 .. n - 1 |-> t[j]] BY <1>8
<1>11. t = Without(s, k) BY <1>1, <1>9, <1>10 DEF Without
<1>12. ItemsIn!RemoveAt(s, k) = t BY <1>1, <1>3, <1>4, <1>7 DEF ItemsIn!RemoveAt
<1>13. k = 1 => Tail(s) = Without(s, k)
  <2> SUFFICES ASSUME k = 1 PROVE Tail(s) = Without(s, k) OBVIOUS
  <2>1. PICK u : u = Tail(s) OBVIOUS
  <2>2. u \in Seq(Items) /\ Len(u) = n - 1 /\ \A j \in 1 .. n - 1 : u[j] = s[j + 1]
    BY <1>1, <1>2, <2>1, HeadTailProperties
  <2>3. u = [j \in 1 .. n - 1 |-> u[j]] BY <2>2
  <2>4. \A j \in 1 .. n - 1 : ~(j < 1) OBVIOUS
  <2> QED BY <1>1, <2>1, <2>2, <2>3, <2>4 DEF Without
<1> QED BY <1>11, <1>12, <1>13

\* A sequence is a function on its positions.
LEMMA WholeSequence ==
  ASSUME NEW s \in Seq(Items), NEW k, k = Len(s) + 1
  PROVE  [j \in 1 .. k - 1 |-> s[j]] = s
OBVIOUS

\* What the abstract queue calls not matching is what a loop has kept at the end.
LEMMA NotMatchingIs ==
  ASSUME NEW s, NEW n
  PROVE  ItemsIn!NotMatching(s, n) = Kept(number, s, n)[Len(s)]
BY DEF ItemsIn!NotMatching, Kept

\* There is no queue before make_q(), and there are no items.
LEMMA RefInit == Init => ItemsIn!Init
BY DEF Init, ItemsIn!Init

\* Operations without a loop are those of the abstract queue.
LEMMA OperationRefines ==
  ASSUME Inv, \/ make_q \/ enq_q_fails \/ deq_q \/ peek_q \/ nothing_there
              \/ \E i \in Items : NewItem(i) \/ FreeItem(i) \/ \E n \in Nodes : enq_q(i, n)
  PROVE  [ItemsIn!Next]_(ItemsIn!vars)
<1>0. op = NULL /\ op' = NULL /\ UNCHANGED number
  BY DEF make_q, enq_q_fails, deq_q, peek_q, nothing_there, NewItem, FreeItem, enq_q
<1>1. /\ Contents = IF queue = NULL THEN NULL ELSE ItemsOf(Walk)
      /\ Contents' = IF queue' = NULL THEN NULL ELSE ItemsOf(Walk)'
  BY <1>0 DEF Contents
<1>2. queue # NULL =>
        /\ ItemsOf(Walk) \in Seq(Items) /\ Len(ItemsOf(Walk)) = Len(Walk) /\ Len(Walk) \in Nat
        /\ \A k \in 1 .. Len(Walk) : ItemsOf(Walk)[k] = heap[Walk[k]].item
        /\ queue.head = (IF Len(Walk) = 0 THEN NULL ELSE Walk[1])
        /\ (Len(Walk) # 0 => queue.head # NULL)
        /\ ItemsOf(Walk) # NULL
  BY WalkItems, PointersDiffer DEF Inv
<1>3. CASE make_q
  <2>1. queue = NULL /\ UNCHANGED result BY <1>3 DEF make_q
  <2>2. queue' # NULL /\ ItemsOf(Walk)' = <<>> BY <1>3, MadeQueue, PointersDiffer DEF Inv
  <2>3. Contents = NULL /\ Contents' = <<>> BY <1>1, <2>1, <2>2
  <2>4. ItemsIn!Make BY <1>0, <2>1, <2>3 DEF ItemsIn!Make, ItemsIn!Becomes, Contents
  <2> QED BY <2>4 DEF ItemsIn!Next
<1>4. CASE enq_q_fails
  <2>1. UNCHANGED <<queue, heap>> /\ result' = FAILED BY <1>4 DEF enq_q_fails
  <2>2. Contents' = Contents BY <1>1, <2>1, ListStays
  <2>3. ItemsIn!EnqueueFails BY <1>0, <2>1, <2>2 DEF ItemsIn!EnqueueFails, ItemsIn!Same, Contents
  <2> QED BY <2>3 DEF ItemsIn!Next
<1>5. CASE deq_q \/ peek_q
  <2>1. queue # NULL /\ queue.head # NULL /\ result' = <<heap[queue.head].item>>
    BY <1>5 DEF deq_q, peek_q, IsEmpty
  <2>2. 1 \in 1 .. Len(Walk) /\ queue.head = Walk[1] BY <1>2, <2>1
  <2>3. PICK s \in Seq(Items) : s = ItemsOf(Walk) BY <1>2, <2>1
  <2>4. s # <<>> /\ s # NULL /\ 1 \in 1 .. Len(s) /\ Len(s) = Len(Walk) BY <1>2, <2>1, <2>2, <2>3
  <2>5. result' = <<Head(s)>>
    <3>1. Head(s) = s[1] BY <2>4
    <3>2. s[1] = heap[Walk[1]].item BY <1>2, <2>1, <2>2, <2>3
    <3> QED BY <2>1, <2>2, <3>1, <3>2
  <2>6. Contents = s /\ Contents \notin {NULL, <<>>} BY <1>1, <2>1, <2>3, <2>4
  <2>7. CASE deq_q
    <3>1. /\ queue' = unlinked_q(queue, heap, Walk[1], UNDEF)
          /\ heap' = unlinked_heap(queue, heap, Walk[1], UNDEF)
      BY <2>2, <2>7 DEF deq_q, unlinked_q, unlinked_heap
    <3>2. InFront(UNDEF, Walk, 1) BY DEF InFront
    <3>3. queue' \in Headers /\ ItemsOf(Walk)' = Without(ItemsOf(Walk), 1)
      BY <2>1, <2>2, <3>1, <3>2, NodeRemoved DEF Inv
    <3>4. Contents' = Without(s, 1) BY <1>1, <2>3, <3>3, PointersDiffer
    <3>5. Contents' = Tail(s) BY <2>4, <3>4, RemovedIs
    <3>6. ItemsIn!Dequeue BY <1>0, <2>5, <2>6, <3>5 DEF ItemsIn!Dequeue, ItemsIn!Becomes, Contents
    <3> QED BY <3>6 DEF ItemsIn!Next
  <2>8. CASE peek_q
    <3>1. UNCHANGED <<queue, heap>> BY <2>8 DEF peek_q
    <3>2. Contents' = Contents BY <1>1, <3>1, ListStays
    <3>3. ItemsIn!Peek BY <1>0, <2>5, <2>6, <3>2 DEF ItemsIn!Peek, ItemsIn!Same, Contents
    <3> QED BY <3>3 DEF ItemsIn!Next
  <2> QED BY <1>5, <2>7, <2>8
<1>6. CASE nothing_there
  <2>1. UNCHANGED <<queue, heap>> /\ result' = <<>> /\ (queue = NULL \/ queue.head = NULL)
    BY <1>6 DEF nothing_there, IsEmpty
  <2>2. Contents' = Contents BY <1>1, <2>1, ListStays
  <2>3. Contents \in {NULL, <<>>}
    <3>1. CASE queue = NULL BY <1>1, <3>1
    <3>2. CASE queue # NULL
      <4>1. Len(ItemsOf(Walk)) = 0 /\ ItemsOf(Walk) \in Seq(Items) BY <1>2, <2>1, <3>2
      <4>2. ItemsOf(Walk) = <<>> BY <4>1
      <4> QED BY <1>1, <3>2, <4>2
    <3> QED BY <3>1, <3>2
  <2>4. ItemsIn!NothingFound
    BY <1>0, <2>1, <2>2, <2>3 DEF ItemsIn!NothingFound, ItemsIn!Same, Contents
  <2> QED BY <2>4 DEF ItemsIn!Next
<1>7. ASSUME NEW i \in Items, NewItem(i) \/ FreeItem(i) PROVE [ItemsIn!Next]_(ItemsIn!vars)
  <2>1. UNCHANGED <<queue, heap, result>> BY <1>7 DEF NewItem, FreeItem
  <2>2. Contents' = Contents BY <1>1, <2>1, ListStays
  <2> QED BY <1>0, <2>1, <2>2 DEF ItemsIn!vars, Contents
<1>8. ASSUME NEW i \in Items, NEW n \in Nodes, enq_q(i, n) PROVE [ItemsIn!Next]_(ItemsIn!vars)
  <2>1. queue # NULL /\ result' = <<>> BY <1>8 DEF enq_q
  <2>2. queue' \in Headers /\ ItemsOf(Walk)' = Append(ItemsOf(Walk), i) BY <1>8, NodeAdded DEF Inv
  <2>3. Contents # NULL /\ Contents' = Append(Contents, i)
    BY <1>1, <1>2, <2>1, <2>2, PointersDiffer
  <2>4. ItemsIn!Enqueue(i) BY <1>0, <2>1, <2>3 DEF ItemsIn!Enqueue, ItemsIn!Becomes, Contents
  <2> QED BY <2>4 DEF ItemsIn!Next
<1> QED BY <1>3, <1>4, <1>5, <1>6, <1>7, <1>8

\* An iteration of a loop, and the begin of a call, change nothing that the abstract
\* queue has.
LEMMA StutterRefines ==
  ASSUME Inv,
         \/ \E name \in Loops \cup Loops3, t \in Numbers \cup BOOLEAN \cup {NULL} :
              call(name, t) /\ (name \notin {"iterate_q", "delete_q"} => t \in Numbers)
         \/ iterate_step \/ move_on \/ delete_match \/ delete_q_step
  PROVE  UNCHANGED ItemsIn!vars
<1>1. UNCHANGED <<number, result>>
  BY DEF call, iterate_step, move_on, delete_match, delete_q_step
<1>2. ASSUME NEW name \in Loops \cup Loops3, NEW t \in Numbers \cup BOOLEAN \cup {NULL},
             call(name, t), name \notin {"iterate_q", "delete_q"} => t \in Numbers
      PROVE  Contents' = Contents
  <2>1. op' \in Calls BY <1>2, CallStep
  <2>2. op = NULL /\ queue # NULL /\ op'.before = ItemsOf(Walk) BY <1>2 DEF call
  <2> QED BY <2>1, <2>2, PointersDiffer DEF Contents
<1>3. ASSUME iterate_step \/ move_on \/ delete_match \/ delete_q_step PROVE Contents' = Contents
  <2>1. op # NULL /\ op \in Calls
    BY <1>3 DEF iterate_step, move_on, delete_match, delete_q_step, In, Inv, TypeOK
  <2>2. op'.before = op.before
    BY <1>3, <2>1 DEF iterate_step, move_on, delete_match, delete_q_step, Calls
  <2>3. op' \in Calls
    <3>1. delete_q_step => op' = op BY DEF delete_q_step
    <3> QED BY <1>3, <2>1, <3>1, NextStep, MatchStep
  <2> QED BY <2>1, <2>2, <2>3, PointersDiffer DEF Contents
<1>4. Contents' = Contents BY <1>2, <1>3
<1> QED BY <1>1, <1>4 DEF ItemsIn!vars, Contents

\* A call that looks for an item, or for all, ends at the tail: what it returns, and
\* what is queued then.
LEMMA EndRefines ==
  ASSUME Inv, end_of_list
  PROVE  ItemsIn!Next
<1>1. /\ op # NULL /\ op.name \in (Loops \cup Loops3) \ {"delete_q"} /\ op.currNode = NULL
      /\ op' = NULL /\ result' = (IF op.name = "iterate_q" THEN op.seen ELSE <<>>)
      /\ UNCHANGED <<queue, heap, number>>
  BY DEF end_of_list, In, return
<1>2. op \in Calls /\ queue # NULL /\ op.before \in Seq(Items) /\ op.name # "delete_q"
  BY <1>1 DEF Inv, TypeOK, ListInv, Calls
<1>3. PICK s \in Seq(Items) : s = ItemsOf(Walk) BY <1>2, WalkItems DEF Inv
<1>4. /\ IsWalk(Walk, queue, heap) /\ HeapType(heap) /\ Len(Walk) \in Nat /\ Len(s) = Len(Walk)
      /\ Walk \in [1 .. Len(Walk) -> DOMAIN heap]
  BY <1>2, <1>3, WalkItems DEF Inv
<1>5. PICK k \in 1 .. Len(Walk) + 1 : At(k, op, Walk, s, number)
  BY <1>1, <1>2, <1>3 DEF Inv, CallInv
<1>6. k = Len(s) + 1
  <2>1. k \in 1 .. Len(Walk) => Walk[k] \in Nodes BY <1>4 DEF HeapType
  <2>2. k \in 1 .. Len(Walk) => op.currNode = Walk[k] BY <1>4, <1>5 DEF At, Reached
  <2>3. k \notin 1 .. Len(Walk) BY <1>1, <2>1, <2>2, PointersDiffer
  <2> QED BY <1>4, <2>3
<1>7. Contents = op.before /\ Contents # NULL /\ Contents' = s
  <2>1. Contents' = ItemsOf(Walk) BY <1>1, <1>2, ListStays DEF Contents
  <2> QED BY <1>1, <1>2, <1>3, <2>1, PointersDiffer DEF Contents
<1>8. [j \in 1 .. k - 1 |-> s[j]] = s BY <1>6, WholeSequence
<1>9. CASE op.name = "iterate_q"
  <2>1. op.seen = s /\ op.before = s BY <1>5, <1>8, <1>9 DEF At, Shown, Unchanged
  <2>2. ItemsIn!Iterate
    BY <1>1, <1>7, <1>9, <2>1 DEF ItemsIn!Iterate, ItemsIn!Same, Contents
  <2> QED BY <2>2 DEF ItemsIn!Next
<1>10. CASE op.name \in Loops3
  <2>1. op.before = s /\ op.target \in Numbers /\ result' = <<>>
    BY <1>1, <1>2, <1>5, <1>10 DEF At, Unchanged, Loops3, Inv, CallInv
  <2>2. \A j \in 1 .. k - 1 : number[s[j]] # op.target BY <1>5, <1>10 DEF At, NotFound
  <2>3. k - 1 = Len(s) /\ DOMAIN s = 1 .. Len(s) BY <1>6
  <2>4. ItemsIn!Matches(op.before, op.target) = {} BY <2>1, <2>2, <2>3 DEF ItemsIn!Matches
  <2>5. ItemsIn!NothingFound
    BY <1>1, <1>7, <2>1, <2>4 DEF ItemsIn!NothingFound, ItemsIn!Same, Contents
  <2> QED BY <2>5 DEF ItemsIn!Next
<1>11. CASE op.name = "delete_integer_targets_q"
  <2>1. op.target \in Numbers /\ result' = <<>> BY <1>1, <1>2, <1>11 DEF Inv, CallInv
  <2>2. PICK gone : gone = Len(op.before) - Len(s) OBVIOUS
  <2>3. Kept(number, op.before, op.target)[k - 1 + gone] = s
    BY <1>5, <1>8, <1>11, <2>2 DEF At, Deleted
  <2>4. Len(op.before) \in Nat /\ Len(s) \in Nat BY <1>2
  <2>5. k - 1 + gone = Len(op.before) BY <1>6, <2>2, <2>4
  <2>6. ItemsIn!NotMatching(op.before, op.target) = s BY <2>3, <2>5, NotMatchingIs
  <2>7. ItemsIn!DeleteTargets(op.target)
    BY <1>1, <1>7, <2>1, <2>6 DEF ItemsIn!DeleteTargets, ItemsIn!Becomes, Contents
  <2> QED BY <2>1, <2>7 DEF ItemsIn!Next
<1> QED BY <1>1, <1>9, <1>10, <1>11 DEF Loops

\* A call finds the first item that matches.
LEMMA FoundRefines ==
  ASSUME Inv, get_item_match \/ pop_item_match
  PROVE  ItemsIn!Next
<1>1. /\ op # NULL /\ op.name \in Loops3 /\ op.currNode # NULL /\ number[currItem] = op.target
      /\ op' = NULL /\ result' = <<currItem>> /\ UNCHANGED number
  BY DEF get_item_match, pop_item_match, In, return, Matches, Loops3
<1>2. /\ op \in Calls /\ queue # NULL /\ op.before \in Seq(Items)
      /\ op.name \notin {"iterate_q", "delete_q", "delete_integer_targets_q"}
  BY <1>1 DEF Inv, TypeOK, ListInv, Calls, Loops3
<1>3. op.target \in Numbers BY <1>1, <1>2 DEF Inv, CallInv
<1>4. PICK s \in Seq(Items) : s = ItemsOf(Walk) BY <1>2, WalkItems DEF Inv
<1>5. Len(s) = Len(Walk) /\ DOMAIN s = 1 .. Len(s) BY <1>2, <1>4, WalkItems DEF Inv
<1>6. ASSUME NEW k \in 1 .. Len(Walk), At(k, op, Walk, s, number), currItem = s[k]
      PROVE  /\ Contents = s /\ Contents # NULL /\ result' = <<s[k]>>
             /\ ItemsIn!IsFirst(k, s, op.target) /\ k \in DOMAIN s
  <2>1. op.before = s BY <1>2, <1>6 DEF At, Unchanged
  <2>2. \A j \in 1 .. k - 1 : number[s[j]] # op.target BY <1>1, <1>6 DEF At, NotFound
  <2>3. ItemsIn!IsFirst(k, s, op.target)
    BY <1>1, <1>5, <1>6, <2>2 DEF ItemsIn!IsFirst, ItemsIn!Matches
  <2> QED BY <1>1, <1>2, <1>5, <1>6, <2>1, <2>3, PointersDiffer DEF Contents
<1>7. CASE get_item_match
  <2>1. UNCHANGED <<queue, heap>> BY <1>7 DEF get_item_match
  <2>2. PICK k \in 1 .. Len(Walk) : At(k, op, Walk, s, number) /\ currItem = s[k]
    BY <1>1, <1>2, <1>4, CurrNode
  <2>3. Contents' = s BY <1>1, <1>2, <1>4, <2>1, ListStays DEF Contents
  <2>4. ItemsIn!GetItem(op.target)
    BY <1>1, <1>6, <2>2, <2>3 DEF ItemsIn!GetItem, ItemsIn!Same, Contents
  <2> QED BY <1>3, <2>4 DEF ItemsIn!Next
<1>8. CASE pop_item_match
  <2>1. PICK k \in 1 .. Len(Walk) :
          /\ At(k, op, Walk, s, number) /\ currItem = s[k]
          /\ ItemsOf(Walk)' = Without(s, k)
    BY <1>4, <1>8, MatchStep
  <2>2. queue' # NULL BY <1>8, MatchStep, PointersDiffer
  <2>3. Contents' = Without(s, k) BY <1>1, <2>1, <2>2 DEF Contents
  <2>4. Contents' = ItemsIn!RemoveAt(s, k) BY <1>5, <2>1, <2>3, RemovedIs
  <2>5. ItemsIn!PopItem(op.target)
    BY <1>1, <1>6, <2>1, <2>4 DEF ItemsIn!PopItem, ItemsIn!Becomes, Contents
  <2> QED BY <1>3, <2>5 DEF ItemsIn!Next
<1> QED BY <1>7, <1>8

\* delete_q() frees the queue in the end.
LEMMA DeleteRefines ==
  ASSUME Inv, delete_q_end
  PROVE  ItemsIn!Next
<1>1. op # NULL /\ op' = NULL /\ queue' = NULL /\ result' = <<>> /\ UNCHANGED number
  BY DEF delete_q_end, In, return
<1>2. Contents # NULL /\ Contents' = NULL
  BY <1>1, PointersDiffer DEF Contents, Inv, TypeOK, Calls
<1>3. ItemsIn!Delete BY <1>1, <1>2 DEF ItemsIn!Delete, ItemsIn!Becomes, Contents
<1> QED BY <1>3 DEF ItemsIn!Next

\* Every step is one of the abstract queue or changes nothing that it has.
LEMMA RefStep == Inv /\ [Next]_vars => [ItemsIn!Next]_(ItemsIn!vars)
<1> SUFFICES ASSUME Inv, [Next]_vars PROVE [ItemsIn!Next]_(ItemsIn!vars) OBVIOUS
<1>1. CASE UNCHANGED vars
  <2>1. Contents' = Contents BY <1>1 DEF vars, Contents, Walk, ItemsOf
  <2> QED BY <1>1, <2>1 DEF vars, ItemsIn!vars, Contents
<1>2. CASE call("iterate_q", NULL) BY <1>2, StutterRefines DEF Loops
<1>3. ASSUME NEW itemdelete \in BOOLEAN, call("delete_q", itemdelete)
      PROVE  [ItemsIn!Next]_(ItemsIn!vars)
  BY <1>3, StutterRefines DEF Loops
<1>4. ASSUME NEW name \in Loops3 \cup {"delete_integer_targets_q"}, NEW t \in Numbers, call(name, t)
      PROVE  [ItemsIn!Next]_(ItemsIn!vars)
  BY <1>4, StutterRefines DEF Loops, Loops3
<1>5. CASE LoopStep
  BY <1>5, StutterRefines, EndRefines, FoundRefines, DeleteRefines DEF LoopStep
<1> QED BY <1>1, <1>2, <1>3, <1>4, <1>5, OperationRefines DEF Next

\* Queue.ImplementsItemQueue for every set of nodes, items and numbers: whatever a call
\* does node by node, it does to the sequence of items what the abstract queue does.
THEOREM QueueImplementsItemQueue == Spec => ImplementsItemQueue
BY RefInit, RefStep, QueueInv, PTL DEF Spec, ImplementsItemQueue, ItemsIn!Spec

===============================================================================
