------------------------------- MODULE ItemQueue -------------------------------
(***************************************************************************)
(* Abstract specification of the Queue module of lab2 and lab3: what its   *)
(* callers (server.c, mrt_sender.c, mrt_receiver.c) rely on.  A queue is a *)
(* sequence of items, and every call is one step.                          *)
(***************************************************************************)
EXTENDS Integers, Sequences, SequencesExt

CONSTANTS Items, Numbers, NULL, FAILED

VARIABLES
  number,    \* number[i]: what a matcher compares in item i
  contents,  \* the items from head to tail, or NULL before make_q()
  result     \* the items the last call returned or showed, or FAILED

vars == <<number, contents, result>>

Init ==
  /\ number \in [Items -> Numbers]
  /\ contents = NULL
  /\ result = <<>>

Matches(s, n) == {k \in DOMAIN s : number[s[k]] = n}
IsFirst(k, s, n) == k \in Matches(s, n) /\ \A j \in 1 .. k - 1 : number[s[j]] # n

NotMatching(s, n) ==
  LET kept[k \in 0 .. Len(s)] ==  \* of the first k items
        IF k = 0 THEN <<>>
        ELSE IF number[s[k]] = n THEN kept[k - 1] ELSE Append(kept[k - 1], s[k])
  IN  kept[Len(s)]

Same == UNCHANGED <<number, contents>>
Becomes(s) == contents' = s /\ UNCHANGED number

Make == contents = NULL /\ Becomes(<<>>) /\ UNCHANGED result

Enqueue(i) ==
  /\ contents # NULL
  /\ Becomes(Append(contents, i))
  /\ result' = <<>>

\* The queue does not exist, or there is no memory.
EnqueueFails == result' = FAILED /\ Same

Dequeue ==
  /\ contents \notin {NULL, <<>>}
  /\ Becomes(Tail(contents))
  /\ result' = <<Head(contents)>>

Peek ==
  /\ contents \notin {NULL, <<>>}
  /\ Same
  /\ result' = <<Head(contents)>>

Iterate ==
  /\ contents # NULL
  /\ Same
  /\ result' = contents

\* The first item that matches, left in the queue or taken out of it.
GetItem(n) ==
  /\ contents # NULL
  /\ \E k \in DOMAIN contents : IsFirst(k, contents, n) /\ result' = <<contents[k]>>
  /\ Same

PopItem(n) ==
  /\ contents # NULL
  /\ \E k \in DOMAIN contents :
       /\ IsFirst(k, contents, n)
       /\ Becomes(RemoveAt(contents, k))
       /\ result' = <<contents[k]>>

\* A lookup that returns nothing has a reason.
NothingFound ==
  /\ \/ contents \in {NULL, <<>>}
     \/ \E n \in Numbers : Matches(contents, n) = {}
  /\ Same
  /\ result' = <<>>

\* All items with this number, and no other one, are taken out.
DeleteTargets(n) ==
  /\ contents # NULL
  /\ Becomes(NotMatching(contents, n))
  /\ result' = <<>>

Delete == contents # NULL /\ Becomes(NULL) /\ result' = <<>>

Next ==
  \/ Make \/ EnqueueFails \/ Dequeue \/ Peek \/ Iterate \/ NothingFound \/ Delete
  \/ \E i \in Items : Enqueue(i)
  \/ \E n \in Numbers : GetItem(n) \/ PopItem(n) \/ DeleteTargets(n)

Spec == Init /\ [][Next]_vars
===============================================================================
