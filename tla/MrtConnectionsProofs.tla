-------------------------- MODULE MrtConnectionsProofs --------------------------
(***************************************************************************)
(* Proofs about MrtConnections: the five safety properties, for any number *)
(* of connections and calls and any size of the buffer.  Inv is inductive. *)
(* It says for each connection who holds which of its two nested locks,    *)
(* which payloads are buffered, what mrt_send() knows of them, which of    *)
(* the threads run, and where the connection is in connections_q.          *)
(***************************************************************************)
EXTENDS MrtConnections, TLAPS

-------------------------------------------------------------------------------
(* The inductive invariant. *)

Early  == {"start", "enq"}
Inside == {"send_loop", "send_check", "send_copy"}
Sending == Inside \cup {"send_receiver", "send_buffer", "send_final"}
AppPlaces ==
  Early \cup Inside \cup
  {"connect", "ready", "send_receiver", "send_buffer", "send_final",
   "disc_loop", "disc_check", "disc_rcls", "done", "undefined"}
HandlerPlaces == {"none", "recv", "adat_receiver", "adat_buffer", "join", "ended"}
SenderPlaces  == {"none", "top", "first", "second", "locked", "ended"}

TypeOK ==
  /\ connections_q \in Seq(Apps) \cup {NULL}
  /\ orphans \subseteq Apps
  /\ object \in [Apps -> {"none", "allocated", "freed"}]
  /\ receiver_lock \in [Apps -> Threads \cup {NULL}]
  /\ buffer_lock \in [Apps -> Threads \cup {NULL}]
  /\ last_acknowledged_frag \in [Apps -> Nat \cup {-1}]
  /\ buffer \in [Apps -> Seq(Nat)]
  /\ last_sent_index \in [Apps -> Nat \cup {-1}]
  /\ inactive_time \in [Apps -> Nat]
  /\ should_close \in [Apps -> BOOLEAN]
  /\ app \in [Apps -> AppPlaces]
  /\ sends \in [Apps -> Nat]
  /\ copied \in [Apps -> Nat]
  /\ final_frag \in [Apps -> Nat]
  /\ handler \in [Apps -> HandlerPlaces]
  /\ frag_holder \in [Apps -> Nat]
  /\ sender \in [Apps -> SenderPlaces]
  /\ checker \in [Apps -> {"none", "tick", "ended"}]
  /\ written \in [Apps -> Nat]
  /\ wire \in [Apps -> SUBSET (Nat \X Nat)]

\* Who holds receiver_lock and buffer_lock.  An application that uses freed memory
\* never gives back what it held.
LocksHeld(a) ==
  /\ receiver_lock[a] \in {NULL, <<a, "app">>, <<a, "handler">>, <<a, "sender">>}
  /\ app[a] \in {"send_buffer", "send_final"} => receiver_lock[a] = <<a, "app">>
  /\ receiver_lock[a] = <<a, "app">> => app[a] \in {"send_buffer", "send_final", "undefined"}
  /\ receiver_lock[a] = <<a, "handler">> <=> handler[a] = "adat_buffer"
  /\ receiver_lock[a] = <<a, "sender">> <=> sender[a] \in {"second", "locked"}
  /\ app[a] = "send_final" => buffer_lock[a] = <<a, "app">>
  /\ buffer_lock[a] = <<a, "app">> => app[a] \in {"send_final", "undefined"}
  /\ sender[a] = "locked" => buffer_lock[a] = <<a, "sender">>
  /\ buffer_lock[a] = <<a, "sender">> => sender[a] = "locked"
  /\ buffer_lock[a] # NULL => buffer_lock[a] = receiver_lock[a] /\ handler[a] # "adat_buffer"

\* The payloads that are acknowledged and still at the front of the buffer.
Unfreed(a) == IF handler[a] = "adat_buffer" THEN frag_holder[a] ELSE 0

\* The fragment number before the first payload of the buffer.
Base(a) == (IF last_acknowledged_frag[a] = -1 THEN 0 ELSE last_acknowledged_frag[a]) - Unfreed(a)

\* b holds consecutive payloads.
Numbered(b, base) == \A i \in 1 .. Len(b) : b[i] = base + i

\* The buffer holds the payloads from the first that is not freed to the last one
\* written, and fragments carry the numbers of their payloads.
DataHeld(a) ==
  /\ Base(a) >= 0
  /\ Base(a) + Len(buffer[a]) = written[a]
  /\ Numbered(buffer[a], Base(a))
  /\ Unfreed(a) <= Len(buffer[a])
  /\ handler[a] = "adat_receiver" => frag_holder[a] <= written[a]
  /\ \A w \in wire[a] : w[1] = w[2]

\* mrt_send() runs after mrt_connect(), and final_frag belongs to the last payload of
\* its own call.
CallsHeld(a) ==
  /\ app[a] \notin Early \cup {"connect", "undefined"} => last_acknowledged_frag[a] # -1
  /\ app[a] \notin Inside \cup {"done", "undefined"} => copied[a] = 0
  /\ app[a] \in Sending => sends[a] < Len(SendsOf[a])
  /\ app[a] \in Inside => final_frag[a] = written[a] - copied[a] + len(a)

\* Which threads there are, from the ACON to the end of the connection.
LivesHeld(a) ==
  /\ app[a] \in Early <=> object[a] = "none"
  /\ app[a] \in Early <=> handler[a] = "none"
  /\ last_acknowledged_frag[a] = -1 <=> sender[a] = "none"
  /\ checker[a] = "none" <=> sender[a] = "none"
  /\ handler[a] = "none" => sender[a] = "none"
  /\ handler[a] \in {"adat_receiver", "adat_buffer", "ended"} => sender[a] # "none"
  /\ handler[a] = "ended" => sender[a] = "ended" /\ checker[a] = "ended"
  /\ object[a] = "freed" => handler[a] = "ended"

\* A connection is in the queue once at most, and is there from enq_q() until its
\* handler() ends, unless there was no queue.
QueueHeld ==
  /\ connections_q # NULL =>
       \A i, j \in DOMAIN connections_q : connections_q[i] = connections_q[j] => i = j
  /\ \A a \in Apps :
       /\ InQueue(a) => object[a] = "allocated"
       /\ handler[a] \notin {"none", "ended"} /\ a \notin orphans => InQueue(a)

Inv ==
  /\ TypeOK
  /\ \A a \in Apps : LocksHeld(a) /\ DataHeld(a) /\ CallsHeld(a) /\ LivesHeld(a)
  /\ QueueHeld

\* The names of the threads that hold locks are different, and NULL is none of them.
LEMMA HolderNames ==
  ASSUME NEW a \in Apps
  PROVE  /\ <<a, "app">> # <<a, "handler">> /\ <<a, "app">> # <<a, "sender">> /\ <<a, "handler">> # <<a, "sender">>
         /\ <<a, "app">> # NULL /\ <<a, "handler">> # NULL /\ <<a, "sender">> # NULL
<1>1. \A thread \in {"app", "handler", "sender"} : <<a, thread>> # NULL
  BY ConnectionsAssumption
<1> QED BY <1>1

\* Every step keeps the ownership of the locks.
LEMMA LocksStep ==
  ASSUME Inv, NEW a \in Apps, AppStep(a) \/ ThreadStep(a)
  PROVE  LocksHeld(a)'
<1>0. /\ LocksHeld(a) /\ LivesHeld(a)
      /\ DOMAIN receiver_lock = Apps /\ DOMAIN buffer_lock = Apps
      /\ app = [b \in Apps |-> app[b]] /\ handler = [b \in Apps |-> handler[b]]
      /\ sender = [b \in Apps |-> sender[b]]
      /\ receiver_lock = [b \in Apps |-> receiver_lock[b]] /\ buffer_lock = [b \in Apps |-> buffer_lock[b]]
  BY DEF Inv, TypeOK
<1> USE <1>0, HolderNames DEF AppGoes, Uses, HandlerGoes, Receives, SenderGoes, SenderUnlocks, TakeLock, SenderOrder, KeptForBuffer, queueVars, lockVars, dataVars, closeVars, appVars, handlerVars, threadVars
<1>1. CASE connect_make(a)
  BY <1>1 DEF connect_make, LocksHeld
<1>2. CASE connect_enq(a)
  BY <1>2 DEF connect_enq, LocksHeld, LivesHeld, Early
<1>3. CASE connect_return(a)
  BY <1>3 DEF connect_return, LocksHeld
<1>4. CASE send_lookup(a)
  BY <1>4 DEF send_lookup, LocksHeld
<1>5. CASE send_receiver_lock(a)
  BY <1>5 DEF send_receiver_lock, LocksHeld
<1>6. CASE send_buffer_lock(a)
  BY <1>6 DEF send_buffer_lock, LocksHeld
<1>7. CASE send_final(a)
  BY <1>7 DEF send_final, LocksHeld
<1>8. CASE send_loop(a)
  BY <1>8 DEF send_loop, LocksHeld
<1>9. CASE send_check(a)
  BY <1>9 DEF send_check, LocksHeld
<1>10. CASE send_copy(a)
  BY <1>10 DEF send_copy, LocksHeld
<1>11. CASE disconnect_lookup(a)
  BY <1>11 DEF disconnect_lookup, LocksHeld
<1>12. CASE disconnect_check(a)
  BY <1>12 DEF disconnect_check, LocksHeld
<1>13. CASE disconnect_rcls(a)
  BY <1>13 DEF disconnect_rcls, LocksHeld
<1>14. CASE undefined(a)
  BY <1>14 DEF undefined, LocksHeld
<1>15. CASE handler_acon(a)
  BY <1>15 DEF handler_acon, LocksHeld, LivesHeld, Early
<1>16. CASE handler_adat(a)
  BY <1>16 DEF handler_adat, LocksHeld
<1>17. CASE handler_ack(a)
  BY <1>17 DEF handler_ack, LocksHeld
<1>18. CASE handler_buffer(a)
  BY <1>18 DEF handler_buffer, LocksHeld
<1>19. CASE handler_acls(a)
  BY <1>19 DEF handler_acls, LocksHeld
<1>20. CASE handler_break(a)
  BY <1>20 DEF handler_break, LocksHeld
<1>21. CASE handler_cleanup(a)
  BY <1>21 DEF handler_cleanup, LocksHeld
<1>22. CASE sender_top(a)
  BY <1>22 DEF sender_top, LocksHeld
<1>23. CASE sender_lock(a)
  BY <1>23 DEF sender_lock, LocksHeld
<1>24. CASE sender_data(a)
  BY <1>24 DEF sender_data, LocksHeld
<1>25. CASE sender_empty(a)
  BY <1>25 DEF sender_empty, LocksHeld
<1>26. CASE checker_tick(a)
  BY <1>26 DEF checker_tick, LocksHeld
<1> QED BY <1>1, <1>2, <1>3, <1>4, <1>5, <1>6, <1>7, <1>8, <1>9, <1>10, <1>11, <1>12, <1>13, <1>14, <1>15, <1>16, <1>17, <1>18, <1>19, <1>20, <1>21, <1>22, <1>23, <1>24, <1>25, <1>26 DEF AppStep, ThreadStep, HandlerStep

\* One payload more keeps the buffer numbered.
LEMMA AppendNumbered ==
  ASSUME NEW b \in Seq(Nat), NEW base \in Int, Numbered(b, base)
  PROVE  /\ Numbered(Append(b, base + Len(b) + 1), base)
         /\ Len(Append(b, base + Len(b) + 1)) = Len(b) + 1
<1> DEFINE c == Append(b, base + Len(b) + 1)
<1>1. /\ Len(c) = Len(b) + 1 /\ Len(b) \in Nat
      /\ \A i \in 1 .. Len(b) : c[i] = b[i]
      /\ c[Len(b) + 1] = base + Len(b) + 1
  OBVIOUS
<1> HIDE DEF c
<1>2. ASSUME NEW i \in 1 .. Len(b) + 1 PROVE c[i] = base + i
  <2>1. CASE i = Len(b) + 1 BY <1>1, <2>1
  <2>2. CASE i \in 1 .. Len(b) BY <1>1, <2>2 DEF Numbered
  <2> QED BY <1>1, <2>1, <2>2
<1>3. Numbered(c, base) BY <1>1, <1>2 DEF Numbered
<1> QED BY <1>1, <1>3 DEF c

\* The first d payloads less keep the buffer numbered, from a later number on.
LEMMA SubSeqNumbered ==
  ASSUME NEW b \in Seq(Nat), NEW base \in Int, Numbered(b, base), NEW d \in Nat, d <= Len(b)
  PROVE  /\ Numbered(SubSeq(b, d + 1, Len(b)), base + d)
         /\ Len(SubSeq(b, d + 1, Len(b))) = Len(b) - d
<1>1. /\ Len(SubSeq(b, d + 1, Len(b))) = Len(b) - d
      /\ \A i \in 1 .. Len(b) - d : SubSeq(b, d + 1, Len(b))[i] = b[d + i]
  OBVIOUS
<1> QED BY <1>1 DEF Numbered
\* Every step keeps the relation of the buffer and the fragment numbers.
LEMMA DataStep ==
  ASSUME Inv, NEW a \in Apps, AppStep(a) \/ ThreadStep(a)
  PROVE  DataHeld(a)'
<1>0. /\ LocksHeld(a) /\ LivesHeld(a) /\ DataHeld(a)
      /\ last_acknowledged_frag[a] \in Nat \cup {-1} /\ frag_holder[a] \in Nat
      /\ written[a] \in Nat /\ buffer[a] \in Seq(Nat) /\ last_sent_index[a] \in Nat \cup {-1}
      /\ last_acknowledged_frag = [b \in Apps |-> last_acknowledged_frag[b]]
      /\ buffer = [b \in Apps |-> buffer[b]] /\ written = [b \in Apps |-> written[b]]
      /\ wire = [b \in Apps |-> wire[b]] /\ frag_holder = [b \in Apps |-> frag_holder[b]]
      /\ handler = [b \in Apps |-> handler[b]]
  BY DEF Inv, TypeOK
<1> USE <1>0, HolderNames DEF AppGoes, Uses, HandlerGoes, Receives, SenderGoes, SenderUnlocks, TakeLock, SenderOrder, KeptForBuffer, queueVars, lockVars, dataVars, closeVars, appVars, handlerVars, threadVars
<1>1. CASE connect_make(a)
  BY <1>1 DEF connect_make, DataHeld, Base, Unfreed
<1>2. CASE connect_enq(a)
  BY <1>2 DEF connect_enq, DataHeld, Base, Unfreed, LivesHeld, Early
<1>3. CASE connect_return(a)
  BY <1>3 DEF connect_return, DataHeld, Base, Unfreed
<1>4. CASE send_lookup(a)
  BY <1>4 DEF send_lookup, DataHeld, Base, Unfreed
<1>5. CASE send_receiver_lock(a)
  BY <1>5 DEF send_receiver_lock, DataHeld, Base, Unfreed
<1>6. CASE send_buffer_lock(a)
  BY <1>6 DEF send_buffer_lock, DataHeld, Base, Unfreed
<1>7. CASE send_final(a)
  BY <1>7 DEF send_final, DataHeld, Base, Unfreed
<1>8. CASE send_loop(a)
  BY <1>8 DEF send_loop, DataHeld, Base, Unfreed
<1>9. CASE send_check(a)
  BY <1>9 DEF send_check, DataHeld, Base, Unfreed
<1>10. CASE send_copy(a)
  <2>1. CASE Len(buffer[a]) < MAX_PAYLOADS_BUFFERABLE
    <3>1. /\ written'[a] = written[a] + 1 /\ buffer'[a] = Append(buffer[a], written[a] + 1)
          /\ UNCHANGED <<handler, frag_holder, last_acknowledged_frag, wire>>
      BY <1>10, <2>1 DEF send_copy
    <3>2. Base(a)' = Base(a) /\ Unfreed(a)' = Unfreed(a) BY <3>1 DEF Base, Unfreed
    <3>3. Base(a) \in Int BY DEF Base, Unfreed
    <3>4. written[a] = Base(a) + Len(buffer[a]) /\ Numbered(buffer[a], Base(a)) BY DEF DataHeld
    <3>5. Numbered(buffer'[a], Base(a)) /\ Len(buffer'[a]) = Len(buffer[a]) + 1
      BY <3>1, <3>3, <3>4, AppendNumbered
    <3>6. Len(buffer[a]) \in Nat OBVIOUS
    <3> QED BY <3>1, <3>2, <3>3, <3>4, <3>5, <3>6 DEF DataHeld, Unfreed
  <2>2. CASE ~ (Len(buffer[a]) < MAX_PAYLOADS_BUFFERABLE)
    BY <1>10, <2>2 DEF send_copy, DataHeld, Base, Unfreed
  <2> QED BY <2>1, <2>2
<1>11. CASE disconnect_lookup(a)
  BY <1>11 DEF disconnect_lookup, DataHeld, Base, Unfreed
<1>12. CASE disconnect_check(a)
  BY <1>12 DEF disconnect_check, DataHeld, Base, Unfreed
<1>13. CASE disconnect_rcls(a)
  BY <1>13 DEF disconnect_rcls, DataHeld, Base, Unfreed
<1>14. CASE undefined(a)
  BY <1>14 DEF undefined, DataHeld, Base, Unfreed
<1>15. CASE handler_acon(a)
  BY <1>15 DEF handler_acon, DataHeld, Base, Unfreed, LivesHeld
<1>16. CASE handler_adat(a)
  BY <1>16 DEF handler_adat, DataHeld, Base, Unfreed, LivesHeld, Acknowledgable
<1>17. CASE handler_ack(a)
  BY <1>17 DEF handler_ack, DataHeld, Base, Unfreed, LivesHeld, IsNews
<1>18. CASE handler_buffer(a)
  <2> DEFINE d == frag_holder[a]
             n == Len(buffer[a])
  <2>1. /\ buffer'[a] = SubSeq(buffer[a], d + 1, n)
        /\ handler[a] = "adat_buffer" /\ handler'[a] = "recv"
        /\ UNCHANGED <<last_acknowledged_frag, written, wire>>
    BY <1>18 DEF handler_buffer
  <2>2. Unfreed(a) = d /\ Unfreed(a)' = 0 BY <2>1 DEF Unfreed
  <2>3. Base(a)' = Base(a) + d BY <2>1, <2>2 DEF Base
  <2>4. d \in Nat /\ n \in Nat /\ d <= n /\ Base(a) \in Int BY <2>2 DEF DataHeld, Base
  <2>5. Numbered(buffer'[a], Base(a) + d) /\ Len(buffer'[a]) = n - d
    BY <2>1, <2>4, SubSeqNumbered DEF DataHeld
  <2>6. /\ Base(a) >= 0 /\ Base(a) + n = written[a]
        /\ \A w \in wire[a] : w[1] = w[2]
    BY DEF DataHeld
  <2> HIDE DEF d, n
  <2> QED BY <2>1, <2>2, <2>3, <2>4, <2>5, <2>6 DEF DataHeld
<1>19. CASE handler_acls(a)
  BY <1>19 DEF handler_acls, DataHeld, Base, Unfreed
<1>20. CASE handler_break(a)
  BY <1>20 DEF handler_break, DataHeld, Base, Unfreed
<1>21. CASE handler_cleanup(a)
  BY <1>21 DEF handler_cleanup, DataHeld, Base, Unfreed
<1>22. CASE sender_top(a)
  BY <1>22 DEF sender_top, DataHeld, Base, Unfreed
<1>23. CASE sender_lock(a)
  BY <1>23 DEF sender_lock, DataHeld, Base, Unfreed
<1>24. CASE sender_data(a)
  <2> DEFINE n == last_sent_index[a] + 1
  <2>1. /\ n <= Len(buffer[a]) - 1 /\ n \in Nat
        /\ wire'[a] = wire[a] \cup {<<last_acknowledged_frag[a] + n + 1, buffer[a][n + 1]>>}
        /\ sender[a] = "locked"
        /\ UNCHANGED <<handler, frag_holder, last_acknowledged_frag, buffer, written>>
    BY <1>24 DEF sender_data, sending_frag, last_payload_index
  <2>2. handler[a] # "adat_buffer" /\ last_acknowledged_frag[a] # -1
    BY <2>1 DEF LocksHeld, LivesHeld
  <2>3. Base(a) = last_acknowledged_frag[a] BY <2>2 DEF Base, Unfreed
  <2>4. Numbered(buffer[a], last_acknowledged_frag[a]) /\ n + 1 \in 1 .. Len(buffer[a])
    BY <2>1, <2>3 DEF DataHeld
  <2> HIDE DEF n
  <2>5. buffer[a][n + 1] = last_acknowledged_frag[a] + (n + 1) BY <2>4 DEF Numbered
  <2>6. n \in Nat BY <2>1
  <2> QED BY <2>1, <2>2, <2>5, <2>6 DEF DataHeld, Base, Unfreed
<1>25. CASE sender_empty(a)
  BY <1>25 DEF sender_empty, DataHeld, Base, Unfreed
<1>26. CASE checker_tick(a)
  BY <1>26 DEF checker_tick, DataHeld, Base, Unfreed
<1> QED BY <1>1, <1>2, <1>3, <1>4, <1>5, <1>6, <1>7, <1>8, <1>9, <1>10, <1>11, <1>12, <1>13, <1>14, <1>15, <1>16, <1>17, <1>18, <1>19, <1>20, <1>21, <1>22, <1>23, <1>24, <1>25, <1>26 DEF AppStep, ThreadStep, HandlerStep

\* The length of a call is a number.
LEMMA LenIsNat ==
  ASSUME TypeOK, NEW a \in Apps, sends[a] < Len(SendsOf[a])
  PROVE  len(a) \in Nat
<1>1. SendsOf[a] \in Seq(Nat) /\ sends[a] \in Nat BY ConnectionsAssumption DEF TypeOK
<1> QED BY <1>1 DEF len

\* Every step keeps what mrt_send() knows.
LEMMA CallsStep ==
  ASSUME Inv, NEW a \in Apps, AppStep(a) \/ ThreadStep(a)
  PROVE  CallsHeld(a)'
<1>0. /\ LocksHeld(a) /\ LivesHeld(a) /\ CallsHeld(a)
      /\ last_acknowledged_frag[a] \in Nat \cup {-1}
      /\ written[a] \in Nat /\ Len(buffer[a]) \in Nat /\ copied[a] \in Nat /\ frag_holder[a] \in Nat
      /\ sends[a] \in Nat
      /\ last_acknowledged_frag = [b \in Apps |-> last_acknowledged_frag[b]]
      /\ app = [b \in Apps |-> app[b]] /\ written = [b \in Apps |-> written[b]]
      /\ copied = [b \in Apps |-> copied[b]] /\ final_frag = [b \in Apps |-> final_frag[b]]
  BY DEF Inv, TypeOK
<1>01. app[a] \in Sending => len(a) \in Nat BY LenIsNat DEF Inv, CallsHeld
<1>02. UNCHANGED sends => len(a)' = len(a) BY DEF len
<1> USE <1>0, <1>01, <1>02, HolderNames DEF Early, Inside, Sending, AppGoes, Uses, HandlerGoes, Receives, SenderGoes, SenderUnlocks, TakeLock, SenderOrder, KeptForBuffer, queueVars, lockVars, dataVars, closeVars, appVars, handlerVars, threadVars
<1>1. CASE connect_make(a)
  BY <1>1 DEF connect_make, CallsHeld
<1>2. CASE connect_enq(a)
  BY <1>2 DEF connect_enq, CallsHeld
<1>3. CASE connect_return(a)
  BY <1>3 DEF connect_return, CallsHeld, LivesHeld
<1>4. CASE send_lookup(a)
  BY <1>4 DEF send_lookup, CallsHeld
<1>5. CASE send_receiver_lock(a)
  BY <1>5 DEF send_receiver_lock, CallsHeld
<1>6. CASE send_buffer_lock(a)
  BY <1>6 DEF send_buffer_lock, CallsHeld
<1>7. CASE send_final(a)
  <2>1. /\ app[a] = "send_final" /\ app'[a] = "send_loop"
        /\ final_frag'[a] = last_payload_index(a) + last_acknowledged_frag[a] + 1 + len(a)
        /\ UNCHANGED <<last_acknowledged_frag, written, copied, sends>>
    BY <1>7 DEF send_final
  <2>2. handler[a] # "adat_buffer" /\ last_acknowledged_frag[a] # -1
    BY <2>1 DEF LocksHeld, CallsHeld
  <2>3. Base(a) = last_acknowledged_frag[a] BY <2>2 DEF Base, Unfreed
  <2>4. last_acknowledged_frag[a] + Len(buffer[a]) = written[a] BY <2>3 DEF Inv, DataHeld
  <2> QED BY <2>1, <2>4 DEF CallsHeld, last_payload_index
<1>8. CASE send_loop(a)
  BY <1>8 DEF send_loop, CallsHeld
<1>9. CASE send_check(a)
  BY <1>9 DEF send_check, CallsHeld
<1>10. CASE send_copy(a)
  BY <1>10 DEF send_copy, CallsHeld
<1>11. CASE disconnect_lookup(a)
  BY <1>11 DEF disconnect_lookup, CallsHeld
<1>12. CASE disconnect_check(a)
  BY <1>12 DEF disconnect_check, CallsHeld
<1>13. CASE disconnect_rcls(a)
  BY <1>13 DEF disconnect_rcls, CallsHeld
<1>14. CASE undefined(a)
  BY <1>14 DEF undefined, CallsHeld
<1>15. CASE handler_acon(a)
  BY <1>15 DEF handler_acon, CallsHeld
<1>16. CASE handler_adat(a)
  BY <1>16 DEF handler_adat, CallsHeld
<1>17. CASE handler_ack(a)
  BY <1>17 DEF handler_ack, CallsHeld, LivesHeld
<1>18. CASE handler_buffer(a)
  BY <1>18 DEF handler_buffer, CallsHeld
<1>19. CASE handler_acls(a)
  BY <1>19 DEF handler_acls, CallsHeld
<1>20. CASE handler_break(a)
  BY <1>20 DEF handler_break, CallsHeld
<1>21. CASE handler_cleanup(a)
  BY <1>21 DEF handler_cleanup, CallsHeld
<1>22. CASE sender_top(a)
  BY <1>22 DEF sender_top, CallsHeld
<1>23. CASE sender_lock(a)
  BY <1>23 DEF sender_lock, CallsHeld
<1>24. CASE sender_data(a)
  BY <1>24 DEF sender_data, CallsHeld
<1>25. CASE sender_empty(a)
  BY <1>25 DEF sender_empty, CallsHeld
<1>26. CASE checker_tick(a)
  BY <1>26 DEF checker_tick, CallsHeld
<1> QED BY <1>1, <1>2, <1>3, <1>4, <1>5, <1>6, <1>7, <1>8, <1>9, <1>10, <1>11, <1>12, <1>13, <1>14, <1>15, <1>16, <1>17, <1>18, <1>19, <1>20, <1>21, <1>22, <1>23, <1>24, <1>25, <1>26 DEF AppStep, ThreadStep, HandlerStep

\* Every step keeps the relation between the threads of a connection.
LEMMA LivesStep ==
  ASSUME Inv, NEW a \in Apps, AppStep(a) \/ ThreadStep(a)
  PROVE  LivesHeld(a)'
<1>0. /\ LivesHeld(a)
      /\ last_acknowledged_frag[a] \in Nat \cup {-1} /\ frag_holder[a] \in Nat
      /\ last_acknowledged_frag = [b \in Apps |-> last_acknowledged_frag[b]]
      /\ app = [b \in Apps |-> app[b]] /\ object = [b \in Apps |-> object[b]]
      /\ handler = [b \in Apps |-> handler[b]] /\ sender = [b \in Apps |-> sender[b]]
      /\ checker = [b \in Apps |-> checker[b]]
  BY DEF Inv, TypeOK
<1> USE <1>0 DEF LivesHeld, Early, AppGoes, Uses, HandlerGoes, Receives, SenderGoes, SenderUnlocks, TakeLock, SenderOrder, KeptForBuffer, queueVars, lockVars, dataVars, closeVars, appVars, handlerVars, threadVars
<1>1. CASE connect_make(a)
  BY <1>1 DEF connect_make
<1>2. CASE connect_enq(a)
  BY <1>2 DEF connect_enq
<1>3. CASE connect_return(a)
  BY <1>3 DEF connect_return
<1>4. CASE send_lookup(a)
  BY <1>4 DEF send_lookup
<1>5. CASE send_receiver_lock(a)
  BY <1>5 DEF send_receiver_lock
<1>6. CASE send_buffer_lock(a)
  BY <1>6 DEF send_buffer_lock
<1>7. CASE send_final(a)
  BY <1>7 DEF send_final
<1>8. CASE send_loop(a)
  BY <1>8 DEF send_loop
<1>9. CASE send_check(a)
  BY <1>9 DEF send_check
<1>10. CASE send_copy(a)
  BY <1>10 DEF send_copy
<1>11. CASE disconnect_lookup(a)
  BY <1>11 DEF disconnect_lookup
<1>12. CASE disconnect_check(a)
  BY <1>12 DEF disconnect_check
<1>13. CASE disconnect_rcls(a)
  BY <1>13 DEF disconnect_rcls
<1>14. CASE undefined(a)
  BY <1>14 DEF undefined
<1>15. CASE handler_acon(a)
  BY <1>15 DEF handler_acon
<1>16. CASE handler_adat(a)
  BY <1>16 DEF handler_adat
<1>17. CASE handler_ack(a)
  BY <1>17 DEF handler_ack, IsNews
<1>18. CASE handler_buffer(a)
  BY <1>18 DEF handler_buffer
<1>19. CASE handler_acls(a)
  BY <1>19 DEF handler_acls
<1>20. CASE handler_break(a)
  BY <1>20 DEF handler_break
<1>21. CASE handler_cleanup(a)
  BY <1>21 DEF handler_cleanup, Joined
<1>22. CASE sender_top(a)
  BY <1>22 DEF sender_top
<1>23. CASE sender_lock(a)
  BY <1>23 DEF sender_lock
<1>24. CASE sender_data(a)
  BY <1>24 DEF sender_data
<1>25. CASE sender_empty(a)
  BY <1>25 DEF sender_empty
<1>26. CASE checker_tick(a)
  BY <1>26 DEF checker_tick
<1> QED BY <1>1, <1>2, <1>3, <1>4, <1>5, <1>6, <1>7, <1>8, <1>9, <1>10, <1>11, <1>12, <1>13, <1>14, <1>15, <1>16, <1>17, <1>18, <1>19, <1>20, <1>21, <1>22, <1>23, <1>24, <1>25, <1>26 DEF AppStep, ThreadStep, HandlerStep

\* A queue in which every connection is once at most, and who is in it.
Distinct(q) == \A i, j \in DOMAIN q : q[i] = q[j] => i = j
Has(q, a) == \E k \in DOMAIN q : q[k] = a

\* enq_q() puts one more connection in.
LEMMA EnqHas ==
  ASSUME NEW q \in Seq(Apps), Distinct(q), NEW a \in Apps, ~ Has(q, a)
  PROVE  /\ Append(q, a) \in Seq(Apps) /\ Distinct(Append(q, a))
         /\ \A b : Has(Append(q, a), b) <=> b = a \/ Has(q, b)
<1> DEFINE r == Append(q, a)
           n == Len(q)
<1>1. /\ r \in Seq(Apps) /\ n \in Nat /\ DOMAIN r = 1 .. n + 1 /\ DOMAIN q = 1 .. n
      /\ r[n + 1] = a /\ \A i \in 1 .. n : r[i] = q[i]
  OBVIOUS
<1> HIDE DEF r, n
<1>2. Distinct(r) BY <1>1 DEF Distinct, Has
<1>3. ASSUME NEW b PROVE Has(r, b) <=> b = a \/ Has(q, b)
  BY <1>1 DEF Has
<1> QED BY <1>1, <1>2, <1>3 DEF r

\* A queue without its k-th item.
LEMMA RemoveAtElements ==
  ASSUME NEW q \in Seq(Apps), NEW k \in DOMAIN q
  PROVE  /\ RemoveAt(q, k) \in Seq(Apps) /\ DOMAIN RemoveAt(q, k) = 1 .. Len(q) - 1
         /\ \A i \in 1 .. Len(q) - 1 : RemoveAt(q, k)[i] = IF i < k THEN q[i] ELSE q[i + 1]
<1>1. k \in 1 .. Len(q) OBVIOUS
<1> DEFINE front == SubSeq(q, 1, k - 1)
           back  == SubSeq(q, k + 1, Len(q))
<1>2. /\ front \in Seq(Apps) /\ Len(front) = k - 1
      /\ \A i \in 1 .. k - 1 : front[i] = q[i]
  BY <1>1
<1>3. /\ back \in Seq(Apps) /\ Len(back) = Len(q) - k
      /\ \A i \in 1 .. Len(q) - k : back[i] = q[k + i]
  BY <1>1
<1>4. RemoveAt(q, k) = front \o back BY DEF RemoveAt
<1> DEFINE r == front \o back
<1> HIDE DEF front, back
<1>5. Len(q) \in Nat OBVIOUS
<1>6. /\ r \in Seq(Apps) /\ Len(r) = Len(q) - 1
      /\ \A i \in 1 .. Len(front) : r[i] = front[i]
      /\ \A i \in 1 .. Len(back) : r[Len(front) + i] = back[i]
  BY <1>1, <1>2, <1>3, <1>5
<1>7. DOMAIN r = 1 .. Len(q) - 1 BY <1>6
<1> HIDE DEF r
<1>8. ASSUME NEW i \in 1 .. Len(q) - 1 PROVE r[i] = IF i < k THEN q[i] ELSE q[i + 1]
  <2>1. CASE i < k BY <1>1, <1>2, <1>5, <1>6, <2>1
  <2>2. CASE ~ (i < k)
    <3>1. i - (k - 1) \in 1 .. Len(q) - k BY <1>1, <1>5, <2>2
    <3>2. r[(k - 1) + (i - (k - 1))] = back[i - (k - 1)] BY <1>2, <1>3, <1>6, <3>1
    <3>3. back[i - (k - 1)] = q[k + (i - (k - 1))] BY <1>3, <3>1
    <3>4. (k - 1) + (i - (k - 1)) = i /\ k + (i - (k - 1)) = i + 1 BY <1>1
    <3> QED BY <2>2, <3>2, <3>3, <3>4
  <2> QED BY <2>1, <2>2
<1> QED BY <1>4, <1>6, <1>7, <1>8 DEF r

\* pop_item_q() takes the connection out, and nothing else.
LEMMA PopHas ==
  ASSUME NEW q \in Seq(Apps), Distinct(q), NEW a \in Apps
  PROVE  /\ RemoveFirst(q, a) \in Seq(Apps) /\ Distinct(RemoveFirst(q, a))
         /\ \A b : Has(RemoveFirst(q, a), b) <=> b # a /\ Has(q, b)
<1>1. CASE ~ Has(q, a)
  <2>1. RemoveFirst(q, a) = q BY <1>1 DEF RemoveFirst, Has
  <2> QED BY <1>1, <2>1
<1>2. CASE Has(q, a)
  <2> DEFINE n == Len(q)
  <2>1. PICK k \in 1 .. n : q[k] = a BY <1>2 DEF Has
  <2>2. {i \in 1 .. n : q[i] = a} = {k} BY <2>1 DEF Distinct
  <2>3. Min({k}) = k BY DEF Min
  <2>4. RemoveFirst(q, a) = RemoveAt(q, k)
    BY <2>1, <2>2, <2>3 DEF RemoveFirst, SelectInSeq
  <2> DEFINE r == RemoveAt(q, k)
  <2>7. n \in Nat /\ DOMAIN q = 1 .. n OBVIOUS
  <2>8. /\ r \in Seq(Apps) /\ DOMAIN r = 1 .. n - 1
        /\ \A i \in 1 .. n - 1 : r[i] = IF i < k THEN q[i] ELSE q[i + 1]
    BY <2>1, RemoveAtElements
  <2>9. DOMAIN r = 1 .. n - 1 BY <2>8
  <2>10. RemoveFirst(q, a) = r BY <2>4
  <2> HIDE DEF r, n
  <2>11. Distinct(r)
    <3> SUFFICES ASSUME NEW i \in 1 .. n - 1, NEW j \in 1 .. n - 1, r[i] = r[j] PROVE i = j
      BY <2>9 DEF Distinct
    <3> DEFINE Place(m) == IF m < k THEN m ELSE m + 1
    <3>1. /\ Place(i) \in 1 .. n /\ Place(j) \in 1 .. n
          /\ q[Place(i)] = r[i] /\ q[Place(j)] = r[j]
      BY <2>1, <2>7, <2>8
    <3>2. Place(i) = Place(j) BY <2>7, <3>1 DEF Distinct
    <3> QED BY <2>1, <2>7, <3>2
  <2>12. ASSUME NEW b, Has(r, b) PROVE b # a /\ Has(q, b)
    <3>1. PICK i \in 1 .. n - 1 : r[i] = b BY <2>9, <2>12 DEF Has
    <3> DEFINE j == IF i < k THEN i ELSE i + 1
    <3>2. j \in 1 .. n /\ q[j] = b /\ j # k BY <2>1, <2>7, <2>8, <3>1
    <3> HIDE DEF j
    <3> QED BY <2>1, <2>7, <3>2 DEF Has, Distinct
  <2>13. ASSUME NEW b, b # a, Has(q, b) PROVE Has(r, b)
    <3>1. PICK j \in 1 .. n : q[j] = b BY <2>7, <2>13 DEF Has
    <3>2. j # k BY <2>1, <2>13, <3>1
    <3>3. \E i \in 1 .. n - 1 : r[i] = b
      <4>1. CASE j < k
        <5>1. j \in 1 .. n - 1 /\ r[j] = b BY <2>1, <2>7, <2>8, <3>1, <4>1
        <5> QED BY <5>1
      <4>2. CASE j > k
        <5>1. j - 1 \in 1 .. n - 1 /\ r[j - 1] = b BY <2>1, <2>7, <2>8, <3>1, <4>2
        <5> QED BY <5>1
      <4> QED BY <2>1, <3>2, <4>1, <4>2
    <3> QED BY <2>9, <3>3 DEF Has
  <2> QED BY <2>8, <2>10, <2>11, <2>12, <2>13
<1> QED BY <1>1, <1>2

\* Every step keeps the queue: a connection is there while its handler() runs.
LEMMA QueueStep ==
  ASSUME Inv, NEW a \in Apps, AppStep(a) \/ ThreadStep(a)
  PROVE  QueueHeld'
<1>0. /\ QueueHeld
      /\ connections_q \in Seq(Apps) \cup {NULL}
      /\ NULL \notin Seq(Apps) /\ <<>> \in Seq(Apps)
      /\ \A b \in Apps : LivesHeld(b)
      /\ object = [b \in Apps |-> object[b]] /\ handler = [b \in Apps |-> handler[b]]
      /\ app = [b \in Apps |-> app[b]]
  BY ConnectionsAssumption DEF Inv, TypeOK
<1>a. \A b : InQueue(b) <=> connections_q # NULL /\ Has(connections_q, b) BY DEF InQueue, Has
<1>b. \A b : InQueue(b)' <=> connections_q' # NULL /\ Has(connections_q', b) BY DEF InQueue, Has
<1>c. connections_q # NULL => Distinct(connections_q) BY <1>0 DEF QueueHeld, Distinct
<1>d. ASSUME connections_q' # NULL => Distinct(connections_q'),
             \A b \in Apps :
               /\ InQueue(b)' => object'[b] = "allocated"
               /\ handler'[b] \notin {"none", "ended"} /\ b \notin orphans' => InQueue(b)'
      PROVE  QueueHeld'
  BY <1>d DEF QueueHeld, Distinct
<1> USE DEF AppGoes, Uses, HandlerGoes, Receives, SenderGoes, SenderUnlocks, TakeLock, SenderOrder, KeptForBuffer, queueVars, lockVars, dataVars, closeVars, appVars, handlerVars, threadVars
<1>1. CASE connect_make(a)
  <2>1. connections_q' = IF connections_q = NULL THEN <<>> ELSE connections_q
    BY <1>1 DEF connect_make
  <2>2. UNCHANGED <<object, handler, orphans>> BY <1>1 DEF connect_make
  <2>3. Distinct(<<>>) /\ \A b : ~ Has(<<>>, b) BY DEF Distinct, Has
  <2>4. \A b : InQueue(b)' <=> InQueue(b) BY <1>0, <1>a, <1>b, <2>1, <2>3
  <2> QED BY <1>0, <1>c, <1>d, <2>1, <2>2, <2>3, <2>4 DEF QueueHeld
<1>2. CASE connect_enq(a)
  <2>1. /\ object' = [object EXCEPT ![a] = "allocated"]
        /\ handler' = [handler EXCEPT ![a] = "recv"]
        /\ object[a] = "none"
    BY <1>0, <1>2 DEF connect_enq, LivesHeld, Early
  <2>2. CASE connections_q = NULL
    <3>1. connections_q' = NULL /\ orphans' = orphans \cup {a} BY <1>2, <2>2 DEF connect_enq
    <3> QED BY <1>0, <1>a, <1>b, <1>d, <2>1, <2>2, <3>1 DEF QueueHeld
  <2>3. CASE connections_q # NULL
    <3>1. connections_q' = Append(connections_q, a) /\ orphans' = orphans
      BY <1>2, <2>3 DEF connect_enq
    <3>2. ~ Has(connections_q, a) BY <1>0, <1>a, <2>1, <2>3 DEF QueueHeld
    <3>3. /\ connections_q' \in Seq(Apps) /\ Distinct(connections_q')
          /\ \A b : Has(connections_q', b) <=> b = a \/ Has(connections_q, b)
      BY <1>0, <1>c, <2>3, <3>1, <3>2, EnqHas
    <3>4. \A b : InQueue(b)' <=> b = a \/ InQueue(b) BY <1>0, <1>a, <1>b, <2>3, <3>3
    <3> QED BY <1>0, <1>d, <2>1, <3>1, <3>3, <3>4 DEF QueueHeld
  <2> QED BY <2>2, <2>3
<1>3. CASE handler_cleanup(a)
  <2> DEFINE left == LeftInQueue(a)
  <2>1. /\ handler[a] = "join" /\ handler' = [handler EXCEPT ![a] = "ended"]
        /\ connections_q' = IF left = <<>> THEN NULL ELSE left
        /\ object' = IF InQueue(a) THEN [object EXCEPT ![a] = "freed"] ELSE object
        /\ orphans' = orphans
    BY <1>3 DEF handler_cleanup
  <2>2. /\ left \in Seq(Apps) /\ Distinct(left)
        /\ \A b : Has(left, b) <=> b # a /\ InQueue(b)
    <3>1. CASE connections_q = NULL
      BY <1>0, <1>a, <3>1 DEF LeftInQueue, Distinct, Has
    <3>2. CASE connections_q # NULL
      BY <1>0, <1>a, <1>c, <3>2, PopHas DEF LeftInQueue
    <3> QED BY <3>1, <3>2
  <2>3. \A b : ~ Has(<<>>, b) BY DEF Has
  <2> HIDE DEF left
  <2>4. \A b : InQueue(b)' <=> b # a /\ InQueue(b) BY <1>0, <1>b, <2>1, <2>2, <2>3
  <2> QED BY <1>0, <1>d, <2>1, <2>2, <2>4 DEF QueueHeld
<1>4. ASSUME UNCHANGED <<connections_q, object, orphans>>,
             handler' = handler \/ \E to : handler' = [handler EXCEPT ![a] = to] /\ handler[a] \notin {"none", "ended"}
      PROVE  QueueHeld'
  <2>1. \A b : InQueue(b)' <=> InQueue(b) BY <1>4, <1>a, <1>b
  <2> QED BY <1>0, <1>c, <1>d, <1>4, <2>1 DEF QueueHeld
<1>5. CASE connect_return(a)
  BY <1>5, <1>4 DEF connect_return
<1>6. CASE send_lookup(a)
  BY <1>6, <1>4 DEF send_lookup
<1>7. CASE send_receiver_lock(a)
  BY <1>7, <1>4 DEF send_receiver_lock
<1>8. CASE send_buffer_lock(a)
  BY <1>8, <1>4 DEF send_buffer_lock
<1>9. CASE send_final(a)
  BY <1>9, <1>4 DEF send_final
<1>10. CASE send_loop(a)
  BY <1>10, <1>4 DEF send_loop
<1>11. CASE send_check(a)
  BY <1>11, <1>4 DEF send_check
<1>12. CASE send_copy(a)
  BY <1>12, <1>4 DEF send_copy
<1>13. CASE disconnect_lookup(a)
  BY <1>13, <1>4 DEF disconnect_lookup
<1>14. CASE disconnect_check(a)
  BY <1>14, <1>4 DEF disconnect_check
<1>15. CASE disconnect_rcls(a)
  BY <1>15, <1>4 DEF disconnect_rcls
<1>16. CASE undefined(a)
  BY <1>16, <1>4 DEF undefined
<1>17. CASE handler_acon(a)
  BY <1>17, <1>4 DEF handler_acon
<1>18. CASE handler_adat(a)
  BY <1>18, <1>4 DEF handler_adat
<1>19. CASE handler_ack(a)
  BY <1>19, <1>4 DEF handler_ack
<1>20. CASE handler_buffer(a)
  BY <1>20, <1>4 DEF handler_buffer
<1>21. CASE handler_acls(a)
  BY <1>21, <1>4 DEF handler_acls
<1>22. CASE handler_break(a)
  BY <1>22, <1>4 DEF handler_break
<1>23. CASE sender_top(a)
  BY <1>23, <1>4 DEF sender_top
<1>24. CASE sender_lock(a)
  BY <1>24, <1>4 DEF sender_lock
<1>25. CASE sender_data(a)
  BY <1>25, <1>4 DEF sender_data
<1>26. CASE sender_empty(a)
  BY <1>26, <1>4 DEF sender_empty
<1>27. CASE checker_tick(a)
  BY <1>27, <1>4 DEF checker_tick
<1> QED BY <1>1, <1>2, <1>3, <1>5, <1>6, <1>7, <1>8, <1>9, <1>10, <1>11, <1>12, <1>13, <1>14, <1>15, <1>16, <1>17, <1>18, <1>19, <1>20, <1>21, <1>22, <1>23, <1>24, <1>25, <1>26, <1>27 DEF AppStep, ThreadStep, HandlerStep

\* The names of the threads are names of threads.
LEMMA ThreadNames ==
  ASSUME NEW a \in Apps
  PROVE  <<a, "app">> \in Threads /\ <<a, "handler">> \in Threads /\ <<a, "sender">> \in Threads
BY DEF Threads

\* Every step leaves the variables well typed.
LEMMA TypeStep ==
  ASSUME Inv, NEW a \in Apps, AppStep(a) \/ ThreadStep(a)
  PROVE  TypeOK'
<1>0. TypeOK /\ DataHeld(a) /\ CallsHeld(a) BY DEF Inv
<1> USE <1>0 DEF TypeOK, AppPlaces, Early, Inside, HandlerPlaces, SenderPlaces, AppGoes, Uses, HandlerGoes, Receives, SenderGoes, SenderUnlocks, TakeLock, SenderOrder, KeptForBuffer, queueVars, lockVars, dataVars, closeVars, appVars, handlerVars, threadVars
<1>1. CASE connect_make(a)
  BY SMTT(30), <1>1 DEF connect_make
<1>2. CASE connect_enq(a)
  BY SMTT(30), <1>2 DEF connect_enq
<1>3. CASE connect_return(a)
  BY <1>3 DEF connect_return
<1>4. CASE send_lookup(a)
  BY <1>4 DEF send_lookup
<1>5. CASE send_receiver_lock(a)
  BY <1>5, ThreadNames DEF send_receiver_lock
<1>6. CASE send_buffer_lock(a)
  BY <1>6, ThreadNames DEF send_buffer_lock
<1>7. CASE send_final(a)
  <2>1. last_payload_index(a) + last_acknowledged_frag[a] + 1 + len(a) \in Nat
    <3>1. Len(buffer[a]) \in Nat /\ last_acknowledged_frag[a] \in Nat \cup {-1} OBVIOUS
    <3>2. last_acknowledged_frag[a] # -1 /\ sends[a] < Len(SendsOf[a])
      BY <1>7 DEF send_final, CallsHeld, Sending
    <3>3. len(a) \in Nat BY <3>2, LenIsNat
    <3> QED BY <3>1, <3>2, <3>3 DEF last_payload_index
  <2> QED BY <1>7, <2>1 DEF send_final
<1>8. CASE send_loop(a)
  BY <1>8 DEF send_loop
<1>9. CASE send_check(a)
  <2>1. CASE last_acknowledged_frag[a] >= final_frag[a]
    <3>1. sends[a] + 1 \in Nat OBVIOUS
    <3>2. /\ app' = [app EXCEPT ![a] = "ready"] /\ sends' = [sends EXCEPT ![a] = sends[a] + 1]
          /\ copied' = [copied EXCEPT ![a] = 0] /\ final_frag' = [final_frag EXCEPT ![a] = 0]
          /\ UNCHANGED <<queueVars, lockVars, dataVars, closeVars, threadVars>>
      BY <1>9, <2>1 DEF send_check
    <3> QED BY <3>1, <3>2
  <2>2. CASE ~ (last_acknowledged_frag[a] >= final_frag[a]) BY <1>9, <2>2 DEF send_check
  <2> QED BY <2>1, <2>2
<1>10. CASE send_copy(a)
  <2>1. CASE Len(buffer[a]) < MAX_PAYLOADS_BUFFERABLE
    <3>1. written[a] + 1 \in Nat OBVIOUS
    <3>2. Append(buffer[a], written[a] + 1) \in Seq(Nat) BY <3>1
    <3>4. copied[a] + 1 \in Nat OBVIOUS
    <3>5. /\ app' = [app EXCEPT ![a] = "send_loop"]
          /\ buffer' = [buffer EXCEPT ![a] = Append(buffer[a], written[a] + 1)]
          /\ written' = [written EXCEPT ![a] = written[a] + 1]
          /\ copied' = [copied EXCEPT ![a] = copied[a] + 1]
      BY <1>10, <2>1 DEF send_copy
    <3>6. UNCHANGED <<queueVars, lockVars, last_acknowledged_frag, last_sent_index, wire,
                      closeVars, sends, final_frag, threadVars>>
      BY <1>10 DEF send_copy
    <3>7. /\ app' \in [Apps -> AppPlaces] /\ written' \in [Apps -> Nat]
          /\ buffer' \in [Apps -> Seq(Nat)] /\ copied' \in [Apps -> Nat]
      BY <3>1, <3>2, <3>4, <3>5
    <3> QED BY <3>6, <3>7
  <2>2. CASE ~ (Len(buffer[a]) < MAX_PAYLOADS_BUFFERABLE) BY <1>10, <2>2 DEF send_copy
  <2> QED BY <2>1, <2>2
<1>11. CASE disconnect_lookup(a)
  BY <1>11 DEF disconnect_lookup
<1>12. CASE disconnect_check(a)
  BY <1>12 DEF disconnect_check
<1>13. CASE disconnect_rcls(a)
  BY SMTT(30), <1>13, ConnectionsAssumption DEF disconnect_rcls
<1>14. CASE undefined(a)
  BY <1>14 DEF undefined
<1>15. CASE handler_acon(a)
  BY <1>15 DEF handler_acon
<1>16. CASE handler_adat(a)
  BY SMTT(30), <1>16 DEF handler_adat, Acknowledgable
<1>17. CASE handler_ack(a)
  <2> DEFINE d == frag_holder[a] - last_acknowledged_frag[a]
  <2>0. frag_holder[a] \in Nat /\ last_acknowledged_frag[a] \in Nat \cup {-1} OBVIOUS
  <2>1. d \in Int BY <2>0
  <2>2. CASE d > 0
    <3>1. d \in Nat BY <2>1, <2>2
    <3>2. /\ handler' = [handler EXCEPT ![a] = "adat_buffer"]
          /\ receiver_lock' = [receiver_lock EXCEPT ![a] = <<a, "handler">>]
          /\ last_acknowledged_frag' = [last_acknowledged_frag EXCEPT ![a] = frag_holder[a]]
          /\ frag_holder' = [frag_holder EXCEPT ![a] = d]
      BY <1>17, <2>2 DEF handler_ack, IsNews
    <3> HIDE DEF d
    <3>3. /\ handler' \in [Apps -> HandlerPlaces] /\ frag_holder' \in [Apps -> Nat]
          /\ last_acknowledged_frag' \in [Apps -> Nat \cup {-1}]
      BY <2>0, <3>1, <3>2
    <3>4. receiver_lock' \in [Apps -> Threads \cup {NULL}] BY <3>2, ThreadNames
    <3>5. UNCHANGED <<queueVars, buffer_lock, buffer, last_sent_index, written, wire, closeVars,
                      appVars, sender, checker>>
      BY <1>17 DEF handler_ack
    <3> QED BY <3>3, <3>4, <3>5
  <2>3. CASE ~ (d > 0)
    <3>1. /\ handler' = [handler EXCEPT ![a] = "recv"] /\ frag_holder' = [frag_holder EXCEPT ![a] = 0]
          /\ UNCHANGED <<receiver_lock, last_acknowledged_frag>>
      BY <1>17, <2>3 DEF handler_ack, IsNews
    <3>2. UNCHANGED <<queueVars, buffer_lock, buffer, last_sent_index, written, wire, closeVars,
                      appVars, sender, checker>>
      BY <1>17 DEF handler_ack
    <3> HIDE DEF d
    <3> QED BY <3>1, <3>2
  <2> QED BY <2>2, <2>3
<1>18. CASE handler_buffer(a)
  <2>1. /\ buffer[a] \in Seq(Nat) /\ frag_holder[a] \in Nat
        /\ frag_holder[a] <= Len(buffer[a])
    BY <1>18 DEF handler_buffer, DataHeld, Unfreed
  <2>2. SubSeq(buffer[a], frag_holder[a] + 1, Len(buffer[a])) \in Seq(Nat) BY <2>1
  <2> QED BY <1>18, <2>2 DEF handler_buffer
<1>19. CASE handler_acls(a)
  BY SMTT(30), <1>19, ConnectionsAssumption DEF handler_acls
<1>20. CASE handler_break(a)
  BY <1>20 DEF handler_break
<1>21. CASE handler_cleanup(a)
  <2>1. LeftInQueue(a) \in Seq(Apps)
    <3>1. CASE connections_q = NULL BY <3>1 DEF LeftInQueue
    <3>2. CASE connections_q # NULL
      <4>1. connections_q \in Seq(Apps) /\ Distinct(connections_q)
        BY <3>2 DEF Inv, QueueHeld, Distinct
      <4> QED BY <3>2, <4>1, PopHas DEF LeftInQueue
    <3> QED BY <3>1, <3>2
  <2> QED BY <1>21, <2>1 DEF handler_cleanup
<1>22. CASE sender_top(a)
  BY <1>22 DEF sender_top
<1>23. CASE sender_lock(a)
  <2>1. /\ sender' \in [Apps -> SenderPlaces]
        /\ UNCHANGED <<queueVars, dataVars, closeVars, appVars, handlerVars, checker>>
    BY <1>23 DEF sender_lock
  <2>2. /\ receiver_lock' \in {receiver_lock, [receiver_lock EXCEPT ![a] = <<a, "sender">>]}
        /\ buffer_lock' \in {buffer_lock, [buffer_lock EXCEPT ![a] = <<a, "sender">>]}
    BY <1>23 DEF sender_lock
  <2>3. receiver_lock' \in [Apps -> Threads \cup {NULL}] /\ buffer_lock' \in [Apps -> Threads \cup {NULL}]
    <3>1. PICK t : t = <<a, "sender">> OBVIOUS
    <3>2. t \in Threads \cup {NULL} BY <3>1, ThreadNames
    <3>3. /\ receiver_lock' \in {receiver_lock, [receiver_lock EXCEPT ![a] = t]}
          /\ buffer_lock' \in {buffer_lock, [buffer_lock EXCEPT ![a] = t]}
      BY <2>2, <3>1
    <3>4. receiver_lock \in [Apps -> Threads \cup {NULL}] /\ buffer_lock \in [Apps -> Threads \cup {NULL}]
      BY <1>0
    <3> QED BY ONLY <3>2, <3>3, <3>4, a \in Apps
  <2> QED BY <2>1, <2>3
<1>24. CASE sender_data(a)
  <2> DEFINE n == last_sent_index[a] + 1
  <2>1. n \in Nat /\ buffer[a] \in Seq(Nat) /\ last_acknowledged_frag[a] + n + 1 \in Nat
    <3>1. last_sent_index[a] \in Nat \cup {-1} /\ last_acknowledged_frag[a] \in Nat \cup {-1} OBVIOUS
    <3> QED BY <3>1
  <2>2. n + 1 \in 1 .. Len(buffer[a]) BY <1>24, <2>1 DEF sender_data, last_payload_index
  <2>3. <<last_acknowledged_frag[a] + n + 1, buffer[a][n + 1]>> \in Nat \X Nat BY <2>1, <2>2
  <2> HIDE DEF n
  <2>4. /\ wire' = [wire EXCEPT ![a] = @ \cup {<<last_acknowledged_frag[a] + n + 1, buffer[a][n + 1]>>}]
        /\ last_sent_index' = [last_sent_index EXCEPT ![a] = n]
    BY <1>24 DEF sender_data, sending_frag, n
  <2>5. wire' \in [Apps -> SUBSET (Nat \X Nat)] BY <2>3, <2>4
  <2>6. /\ sender' = [sender EXCEPT ![a] = "top"]
        /\ receiver_lock' = [receiver_lock EXCEPT ![a] = NULL]
        /\ buffer_lock' = [buffer_lock EXCEPT ![a] = NULL]
        /\ UNCHANGED <<queueVars, last_acknowledged_frag, buffer, written, closeVars, appVars,
                       handlerVars, checker>>
    BY <1>24 DEF sender_data
  <2>7. last_sent_index' \in [Apps -> Nat \cup {-1}] BY <2>1, <2>4
  <2> QED BY <2>5, <2>6, <2>7
<1>25. CASE sender_empty(a)
  BY <1>25 DEF sender_empty
<1>26. CASE checker_tick(a)
  <2>1. inactive_time[a] + 1 \in Nat OBVIOUS
  <2>2. CASE inactive_time'[a] > CLOSE_TIMEOUT_THRESHOLD BY <1>26, <2>1, <2>2 DEF checker_tick
  <2>3. CASE ~ (inactive_time'[a] > CLOSE_TIMEOUT_THRESHOLD) BY <1>26, <2>1, <2>3 DEF checker_tick
  <2> QED BY <2>2, <2>3
<1> QED BY <1>1, <1>2, <1>3, <1>4, <1>5, <1>6, <1>7, <1>8, <1>9, <1>10, <1>11, <1>12, <1>13, <1>14, <1>15, <1>16, <1>17, <1>18, <1>19, <1>20, <1>21, <1>22, <1>23, <1>24, <1>25, <1>26 DEF AppStep, ThreadStep, HandlerStep

\* What belongs to one connection: its object, its threads and their variables.
Own(a) ==
  <<object[a], receiver_lock[a], buffer_lock[a], last_acknowledged_frag[a], buffer[a], last_sent_index[a],
    inactive_time[a], should_close[a], app[a], sends[a], copied[a], final_frag[a],
    handler[a], frag_holder[a], sender[a], checker[a], written[a], wire[a]>>

\* A step of the threads of one connection changes nothing that belongs to another.
LEMMA OthersUnchanged ==
  ASSUME TypeOK, NEW a \in Apps, AppStep(a) \/ ThreadStep(a), NEW b \in Apps \ {a}
  PROVE  UNCHANGED Own(b)
<1> USE DEF TypeOK, Own, AppGoes, Uses, HandlerGoes, Receives, SenderGoes, SenderUnlocks, TakeLock, SenderOrder, KeptForBuffer, queueVars, lockVars, dataVars, closeVars, appVars, handlerVars, threadVars
<1>1. CASE connect_make(a)
  BY <1>1 DEF connect_make
<1>2. CASE connect_enq(a)
  BY <1>2 DEF connect_enq
<1>3. CASE connect_return(a)
  BY <1>3 DEF connect_return
<1>4. CASE send_lookup(a)
  BY <1>4 DEF send_lookup
<1>5. CASE send_receiver_lock(a)
  BY <1>5 DEF send_receiver_lock
<1>6. CASE send_buffer_lock(a)
  BY <1>6 DEF send_buffer_lock
<1>7. CASE send_final(a)
  BY <1>7 DEF send_final
<1>8. CASE send_loop(a)
  BY <1>8 DEF send_loop
<1>9. CASE send_check(a)
  BY <1>9 DEF send_check
<1>10. CASE send_copy(a)
  BY <1>10 DEF send_copy
<1>11. CASE disconnect_lookup(a)
  BY <1>11 DEF disconnect_lookup
<1>12. CASE disconnect_check(a)
  BY <1>12 DEF disconnect_check
<1>13. CASE disconnect_rcls(a)
  BY <1>13 DEF disconnect_rcls
<1>14. CASE undefined(a)
  BY <1>14 DEF undefined
<1>15. CASE handler_acon(a)
  BY <1>15 DEF handler_acon
<1>16. CASE handler_adat(a)
  BY <1>16 DEF handler_adat
<1>17. CASE handler_ack(a)
  BY <1>17 DEF handler_ack
<1>18. CASE handler_buffer(a)
  BY <1>18 DEF handler_buffer
<1>19. CASE handler_acls(a)
  BY <1>19 DEF handler_acls
<1>20. CASE handler_break(a)
  BY <1>20 DEF handler_break
<1>21. CASE handler_cleanup(a)
  BY <1>21 DEF handler_cleanup
<1>22. CASE sender_top(a)
  BY <1>22 DEF sender_top
<1>23. CASE sender_lock(a)
  BY <1>23 DEF sender_lock
<1>24. CASE sender_data(a)
  BY <1>24 DEF sender_data
<1>25. CASE sender_empty(a)
  BY <1>25 DEF sender_empty
<1>26. CASE checker_tick(a)
  BY <1>26 DEF checker_tick
<1> QED BY <1>1, <1>2, <1>3, <1>4, <1>5, <1>6, <1>7, <1>8, <1>9, <1>10, <1>11, <1>12, <1>13, <1>14, <1>15, <1>16, <1>17, <1>18, <1>19, <1>20, <1>21, <1>22, <1>23, <1>24, <1>25, <1>26 DEF AppStep, ThreadStep, HandlerStep

\* Inv is inductive.
LEMMA InvInit == Init => Inv
<1> SUFFICES ASSUME Init PROVE Inv OBVIOUS
<1>1. TypeOK BY DEF Init, TypeOK, AppPlaces, Early, HandlerPlaces, SenderPlaces
<1>2. ASSUME NEW a \in Apps PROVE LocksHeld(a) /\ DataHeld(a) /\ CallsHeld(a) /\ LivesHeld(a)
  <2>1. LocksHeld(a) BY HolderNames DEF Init, LocksHeld
  <2>2. Unfreed(a) = 0 /\ Base(a) = 0 /\ buffer[a] = <<>> BY DEF Init, Unfreed, Base
  <2>3. DataHeld(a) BY <2>2 DEF Init, DataHeld, Numbered
  <2>4. CallsHeld(a) /\ LivesHeld(a) BY DEF Init, CallsHeld, LivesHeld, Early, Inside, Sending
  <2> QED BY <2>1, <2>3, <2>4
<1>3. QueueHeld BY DEF Init, QueueHeld, InQueue
<1> QED BY <1>1, <1>2, <1>3 DEF Inv

\* A step of an application or of one of its threads keeps every part of Inv, for
\* this application and for the others.
LEMMA InvStep == Inv /\ [Next]_vars => Inv'
<1> SUFFICES ASSUME Inv, [Next]_vars PROVE Inv' OBVIOUS
<1>1. ASSUME NEW a \in Apps, AppStep(a) \/ ThreadStep(a) PROVE Inv'
  <2>1. ASSUME NEW b \in Apps
        PROVE  (LocksHeld(b) /\ DataHeld(b) /\ CallsHeld(b) /\ LivesHeld(b))'
    <3>1. CASE b = a BY <1>1, <3>1, LocksStep, DataStep, CallsStep, LivesStep
    <3>2. CASE b # a
      <4>1. UNCHANGED Own(b) BY <1>1, <3>2, OthersUnchanged DEF Inv
      <4>2. LocksHeld(b) /\ DataHeld(b) /\ CallsHeld(b) /\ LivesHeld(b) BY DEF Inv
      <4>3. LocksHeld(b)' BY <4>1, <4>2 DEF Own, LocksHeld
      <4>4. DataHeld(b)' BY <4>1, <4>2 DEF Own, DataHeld, Base, Unfreed, Numbered
      <4>5. CallsHeld(b)' BY <4>1, <4>2 DEF Own, CallsHeld, len
      <4>6. LivesHeld(b)' BY <4>1, <4>2 DEF Own, LivesHeld
      <4> QED BY <4>3, <4>4, <4>5, <4>6
    <3> QED BY <3>1, <3>2
  <2>2. TypeOK' /\ QueueHeld' BY <1>1, TypeStep, QueueStep
  <2> QED BY <2>1, <2>2 DEF Inv
<1>2. CASE UNCHANGED vars
  <2> USE <1>2 DEF vars, queueVars, lockVars, dataVars, closeVars, appVars, handlerVars, threadVars
  <2>1. TypeOK' /\ QueueHeld' BY DEF Inv, TypeOK, QueueHeld, InQueue
  <2>2. ASSUME NEW b \in Apps
        PROVE  (LocksHeld(b) /\ DataHeld(b) /\ CallsHeld(b) /\ LivesHeld(b))'
    <3>1. LocksHeld(b) /\ DataHeld(b) /\ CallsHeld(b) /\ LivesHeld(b) BY DEF Inv
    <3>2. LocksHeld(b)' /\ LivesHeld(b)' BY <3>1 DEF LocksHeld, LivesHeld
    <3>3. DataHeld(b)' BY <3>1 DEF DataHeld, Base, Unfreed, Numbered
    <3>4. CallsHeld(b)' BY <3>1 DEF CallsHeld, len
    <3> QED BY <3>2, <3>3, <3>4
  <2> QED BY <2>1, <2>2 DEF Inv
<1> QED BY <1>1, <1>2 DEF Next

\* The reachable states of the threads and connections satisfy Inv.
THEOREM ConnectionsInv == Spec => []Inv
<1> QED BY InvInit, InvStep, PTL DEF Spec

-------------------------------------------------------------------------------
(* The properties of MrtConnections. *)

\* A thread that waits for a mutex of connection_t never keeps the others out for
\* good: one of the threads that hold receiver_lock or buffer_lock can go on.
THEOREM ConnectionsNoDeadlock == Spec => []NoDeadlock
<1>1. Inv => NoDeadlock
  <2> SUFFICES ASSUME Inv, NEW a \in Apps, {receiver_lock[a], buffer_lock[a]} \ {NULL} # {}
               PROVE  \E t \in {receiver_lock[a], buffer_lock[a]} \ {NULL} : ~ Waits(t)
    BY DEF NoDeadlock
  <2>1. LocksHeld(a) BY DEF Inv
  <2> DEFINE t == receiver_lock[a]
  <2>2. t # NULL BY <2>1 DEF LocksHeld
  <2>3. t \in {<<a, "app">>, <<a, "handler">>, <<a, "sender">>} BY <2>1, <2>2 DEF LocksHeld
  <2>4. ~ Waits(t)
    <3>1. CASE t = <<a, "app">>
      <4>1. t[1] = a /\ t[2] = "app" BY <3>1
      <4>2. app[a] \in {"send_buffer", "send_final", "undefined"} BY <2>1, <3>1 DEF LocksHeld
      <4>3. app[a] = "send_buffer" => buffer_lock[a] = NULL
        BY <2>1, <3>1 DEF LocksHeld
      <4> HIDE DEF t
      <4> QED BY <4>1, <4>2, <4>3 DEF Waits
    <3>2. CASE t = <<a, "handler">>
      <4>1. t[1] = a /\ t[2] = "handler" BY <3>2
      <4>2. handler[a] = "adat_buffer" /\ buffer_lock[a] = NULL BY <2>1, <3>2 DEF LocksHeld
      <4> HIDE DEF t
      <4> QED BY <4>1, <4>2 DEF Waits
    <3>3. CASE t = <<a, "sender">>
      <4>1. t[1] = a /\ t[2] = "sender" BY <3>3
      <4>2. sender[a] \in {"second", "locked"} BY <2>1, <3>3 DEF LocksHeld
      <4>3. sender[a] = "second" => buffer_lock[a] = NULL
        BY <2>1, <3>3, HolderNames DEF LocksHeld
      <4> HIDE DEF t
      <4> QED BY <4>1, <4>2, <4>3 DEF Waits, SenderOrder
    <3> QED BY <2>3, <3>1, <3>2, <3>3
  <2> QED BY <2>2, <2>4
<1> QED BY <1>1, ConnectionsInv, PTL

\* Every DATA that sender() puts on the wire carries the payload of its fragment
\* number, whatever handler() frees and mrt_send() appends between its sections.
THEOREM ConnectionsFragIsPayload == Spec => []FragIsPayload
<1>1. Inv => FragIsPayload BY DEF Inv, DataHeld, FragIsPayload
<1> QED BY <1>1, ConnectionsInv, PTL

\* mrt_send() returns when its own last payload is acknowledged: final_frag is the
\* fragment number that this payload gets, for calls of any length.
THEOREM ConnectionsWaitsForItsOwn == Spec => []WaitsForItsOwn
<1>1. Inv => WaitsForItsOwn BY DEF Inv, CallsHeld, Inside, WaitsForItsOwn
<1> QED BY <1>1, ConnectionsInv, PTL

\* handler() frees a connection_t after sender() and checker() have ended, and what
\* connections_q holds is never freed memory.
THEOREM ConnectionsFreedByTheLast == Spec => []FreedByTheLast
<1>1. Inv => FreedByTheLast BY DEF Inv, LivesHeld, QueueHeld, FreedByTheLast
<1> QED BY <1>1, ConnectionsInv, PTL

\* A connection whose handler() runs is found in connections_q, unless enq_q()
\* found no queue to put it in.
THEOREM ConnectionsFoundUnlessOrphan == Spec => []FoundUnlessOrphan
<1>1. Inv => FoundUnlessOrphan BY DEF Inv, QueueHeld, Found, FoundUnlessOrphan
<1> QED BY <1>1, ConnectionsInv, PTL

===============================================================================
