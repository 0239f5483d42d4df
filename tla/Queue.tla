--------------------------------- MODULE Queue ---------------------------------
(***************************************************************************)
(* Queue.c of lab2 and of lab3: a linked list, node by node.  The heap is  *)
(* the set of nodes that malloc() returned and free() did not take back.   *)
(* A call with a loop is one action per iteration; `op' is the call under  *)
(* way with its local variables.  The callers hold a lock around a call,   *)
(* so there is one call at a time.                                         *)
(*                                                                         *)
(* The two files differ in this: get_item_q() and pop_item_q() exist in    *)
(* lab3 only, and delete_integer_targets_q() frees the items in lab2 only. *)
(***************************************************************************)
EXTENDS Integers, Sequences, FiniteSets

CONSTANTS
  Nodes,    \* addresses of qnode_t
  Items,    \* addresses of what is queued
  Numbers,  \* what a matcher compares
  NULL,
  UNDEF,    \* the value of an uninitialized pointer
  FAILED    \* the return value -1

Pointers == Nodes \cup {NULL}
Headers == [head : Pointers, tail : Pointers]  \* what a q_t can be

Loops == {"iterate_q", "delete_integer_targets_q", "delete_q"}
Loops3 == {"get_item_q", "pop_item_q"}
Calls ==
  [name : Loops \cup Loops3, target : Numbers \cup BOOLEAN \cup {NULL},
   currNode : Pointers, lastNode : Pointers \cup {UNDEF},
   seen : Seq(Items), before : Seq(Items)]

ASSUME PointersDiffer ==
  /\ {NULL, UNDEF, FAILED} \cap (Nodes \cup Items) = {} /\ NULL # UNDEF
  /\ NULL \notin Headers \cup Calls \cup Seq(Items)
  /\ IsFiniteSet(Nodes)

VARIABLES
  version,  \* "lab2" or "lab3"
  queue,    \* the q_t, or NULL
  heap,     \* heap[n]: the qnode_t at address n
  items,    \* the items that are allocated
  number,   \* number[i]: the int at address i
  op,       \* the call under way, or NULL
  result    \* the items the last call returned or showed, or FAILED

vars == <<version, queue, heap, items, number, op, result>>

Init ==
  /\ version \in {"lab2", "lab3"}
  /\ queue = NULL
  /\ heap = [n \in {} |-> NULL]
  /\ items = {}
  /\ number \in [Items -> Numbers]
  /\ op = NULL
  /\ result = <<>>

-------------------------------------------------------------------------------
free(h, n) == [m \in DOMAIN h \ {n} |-> h[m]]

\* The nodes from the head to the tail, along the pointers.
WalkOf(q, h) ==
  LET node[k \in 0 .. Cardinality(Nodes)] ==  \* the k-th one behind the head
        IF k = 0 THEN q.head
        ELSE IF node[k - 1] \in DOMAIN h THEN h[node[k - 1]].node_behind ELSE NULL
      live == {k \in 0 .. Cardinality(Nodes) : node[k] \in DOMAIN h}
  IN  [k \in 1 .. Cardinality(live) |-> node[k - 1]]

Walk == WalkOf(queue, heap)
ItemsOf(walk) == [k \in DOMAIN walk |-> heap[walk[k]].item]
Queued == {heap[n].item : n \in DOMAIN heap}

\* The caller allocates what it is going to queue, and frees what it got back.
NewItem(i) ==
  /\ op = NULL
  /\ i \notin items
  /\ items' = items \cup {i}
  /\ UNCHANGED <<version, queue, heap, number, op, result>>

FreeItem(i) ==
  /\ op = NULL
  /\ i \in items \ Queued
  /\ items' = items \ {i}
  /\ UNCHANGED <<version, queue, heap, number, op, result>>

-------------------------------------------------------------------------------
make_q ==
  /\ op = NULL /\ queue = NULL
  /\ queue' = [head |-> NULL, tail |-> NULL]
  /\ UNCHANGED <<version, heap, items, number, op, result>>

\* The queue is NULL, or malloc() fails.
enq_q_fails ==
  /\ op = NULL
  /\ result' = FAILED
  /\ UNCHANGED <<version, queue, heap, items, number, op>>

Linked(h, q, n, i) ==
  LET node == [item |-> i, node_behind |-> NULL]
  IN  [m \in DOMAIN h \cup {n} |->
         IF m = n THEN node
         ELSE IF q.head # NULL /\ m = q.tail THEN [h[m] EXCEPT !.node_behind = n]
         ELSE h[m]]

enq_q(i, n) ==
  /\ op = NULL /\ queue # NULL
  /\ i \in items \ Queued
  /\ n \notin DOMAIN heap
  /\ heap' = Linked(heap, queue, n, i)
  /\ queue' = [head |-> IF queue.head = NULL THEN n ELSE queue.head, tail |-> n]
  /\ result' = <<>>
  /\ UNCHANGED <<version, items, number, op>>

IsEmpty == IF queue = NULL THEN TRUE ELSE queue.head = NULL

HeadTaken(q, h) ==
  LET new_head == h[q.head].node_behind
  IN  [head |-> new_head, tail |-> IF new_head = NULL THEN NULL ELSE q.tail]

deq_q ==
  /\ op = NULL /\ ~IsEmpty
  /\ result' = <<heap[queue.head].item>>
  /\ queue' = HeadTaken(queue, heap)
  /\ heap' = free(heap, queue.head)
  /\ UNCHANGED <<version, items, number, op>>

peek_q ==
  /\ op = NULL /\ ~IsEmpty
  /\ result' = <<heap[queue.head].item>>
  /\ UNCHANGED <<version, queue, heap, items, number, op>>

\* deq_q() and peek_q() without a queue, or with an empty one.
nothing_there ==
  /\ op = NULL /\ IsEmpty
  /\ result' = <<>>
  /\ UNCHANGED <<version, queue, heap, items, number, op>>

-------------------------------------------------------------------------------
(* Calls with a loop. *)

call(name, target) ==
  /\ op = NULL /\ queue # NULL
  /\ name \in Loops3 => version = "lab3"
  /\ op' = [name |-> name, target |-> target, currNode |-> queue.head,
            lastNode |-> UNDEF, seen |-> <<>>, before |-> ItemsOf(Walk)]
  /\ UNCHANGED <<version, queue, heap, items, number, result>>

In(names) == op # NULL /\ op.name \in names

currItem == heap[op.currNode].item
Matches == number[currItem] = op.target

return(value) ==
  /\ op' = NULL
  /\ result' = value

\* itemfunc() sees the item.
iterate_step ==
  /\ In({"iterate_q"}) /\ op.currNode # NULL
  /\ op' = [op EXCEPT !.seen = Append(@, currItem),
                      !.currNode = heap[@].node_behind]
  /\ UNCHANGED <<version, queue, heap, items, number, result>>

move_on ==
  /\ In({"get_item_q", "pop_item_q", "delete_integer_targets_q"})
  /\ op.currNode # NULL /\ ~Matches
  /\ op' = [op EXCEPT !.currNode = heap[@].node_behind,
                      !.lastNode = IF op.name = "get_item_q" THEN @ ELSE op.currNode]
  /\ UNCHANGED <<version, queue, heap, items, number, result>>

end_of_list ==
  /\ In((Loops \cup Loops3) \ {"delete_q"}) /\ op.currNode = NULL
  /\ return(IF op.name = "iterate_q" THEN op.seen ELSE <<>>)
  /\ UNCHANGED <<version, queue, heap, items, number>>

get_item_match ==
  /\ In({"get_item_q"}) /\ op.currNode # NULL /\ Matches
  /\ return(<<currItem>>)
  /\ UNCHANGED <<version, queue, heap, items, number>>

\* The removal of node c, whose predecessor is l: the only node, the head, the
\* tail, or a node in the middle.
unlinked_q_TailKept(q, h, c, l) ==
  IF q.head = c THEN HeadTaken(q, h) ELSE q
unlinked_q(q, h, c, l) ==
  IF q.head = c THEN HeadTaken(q, h)
  ELSE IF q.tail = c THEN [q EXCEPT !.tail = l]
  ELSE q

unlinked_heap_NotLinked(q, h, c, l) == free(h, c)
unlinked_heap(q, h, c, l) ==
  IF q.head = c THEN free(h, c)
  ELSE free([h EXCEPT ![l].node_behind =
               IF q.tail = c THEN NULL ELSE h[c].node_behind], c)

pop_item_match ==
  /\ In({"pop_item_q"}) /\ op.currNode # NULL /\ Matches
  /\ return(<<currItem>>)
  /\ queue' = unlinked_q(queue, heap, op.currNode, op.lastNode)
  /\ heap' = unlinked_heap(queue, heap, op.currNode, op.lastNode)
  /\ UNCHANGED <<version, items, number>>

\* Where the loop goes on after a removal.
nextNode_FirstOnly(q, h, c, l) == NULL
nextNode(q, h, c, l) == IF q.tail = c THEN NULL ELSE h[c].node_behind

delete_match ==
  /\ In({"delete_integer_targets_q"}) /\ op.currNode # NULL /\ Matches
  /\ queue' = unlinked_q(queue, heap, op.currNode, op.lastNode)
  /\ heap' = unlinked_heap(queue, heap, op.currNode, op.lastNode)
  /\ items' = IF version = "lab2" THEN items \ {currItem} ELSE items
  /\ op' = [op EXCEPT !.currNode = nextNode(queue, heap, op.currNode, op.lastNode)]
  /\ UNCHANGED <<version, number, result>>

\* delete_q() dequeues; target says whether it was given a function for the items.
delete_q_step ==
  /\ In({"delete_q"}) /\ queue.head # NULL
  /\ items' = IF op.target THEN items \ {heap[queue.head].item} ELSE items
  /\ queue' = HeadTaken(queue, heap)
  /\ heap' = free(heap, queue.head)
  /\ UNCHANGED <<version, number, op, result>>

delete_q_end ==
  /\ In({"delete_q"}) /\ queue.head = NULL
  /\ queue' = NULL
  /\ return(<<>>)
  /\ UNCHANGED <<version, heap, items, number>>

-------------------------------------------------------------------------------
LoopStep ==
  \/ iterate_step \/ move_on \/ end_of_list \/ get_item_match \/ pop_item_match
  \/ delete_match \/ delete_q_step \/ delete_q_end

Next ==
  \/ make_q \/ enq_q_fails \/ deq_q \/ peek_q \/ nothing_there \/ LoopStep
  \/ \E i \in Items : NewItem(i) \/ FreeItem(i) \/ \E n \in Nodes : enq_q(i, n)
  \/ call("iterate_q", NULL)
  \/ \E itemdelete \in BOOLEAN : call("delete_q", itemdelete)
  \/ \E name \in Loops3 \cup {"delete_integer_targets_q"}, t \in Numbers : call(name, t)

Spec == Init /\ [][Next]_vars

-------------------------------------------------------------------------------
(* Properties. *)

\* The list stays a list, also between two iterations of a loop: every live
\* node is reachable from the head exactly once, so none leaks; the last one is
\* the tail (enq_q() writes through it); head and tail are NULL together.  And no
\* queued item is freed: matchers and callbacks read through the pointer.
ListWellFormed ==
  /\ Queued \subseteq items
  /\ IF queue = NULL THEN heap = [n \in {} |-> NULL]
     ELSE /\ Len(Walk) = Cardinality(DOMAIN heap)
          /\ {Walk[k] : k \in DOMAIN Walk} = DOMAIN heap
          /\ queue.tail = IF Walk = <<>> THEN NULL ELSE Walk[Len(Walk)]
          /\ queue.tail # NULL => heap[queue.tail].node_behind = NULL

\* "safe to assume that lastNode is not NULL" (Queue.c, three times): in a loop,
\* currNode was not freed, and unless it is the head, lastNode is the live node
\* in front of it - also after removals, which do not move lastNode.
LastNodeIsInFront ==
  In({"pop_item_q", "delete_integer_targets_q"}) =>
    /\ op.currNode \in DOMAIN heap \cup {NULL}
    /\ op.currNode \notin {NULL, queue.head} =>
         /\ op.lastNode \in DOMAIN heap
         /\ heap[op.lastNode].node_behind = op.currNode

\* A call under way has not happened yet.
ItemsIn == INSTANCE ItemQueue WITH
  contents <- IF op # NULL THEN op.before
              ELSE IF queue = NULL THEN NULL ELSE ItemsOf(Walk)

\* Whatever a call does node by node, it does to the sequence what the
\* abstract queue does, and returns the same.
ImplementsItemQueue == ItemsIn!Spec
===============================================================================
