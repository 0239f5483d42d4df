---------------------------- MODULE MrtReceiverProofs ----------------------------
(***************************************************************************)
(* What the receiver guarantees whatever the senders send, for every value *)
(* of the constants: the proofs of the invariants of MrtReceiverEnv.       *)
(*                                                                         *)
(* The inductive invariant is ReceiverInv.  Beside the queues (QueueInv)   *)
(* it says where the bytes of each connection are (StreamInv) and what the *)
(* answers in flight promise (AnswerInv).                                  *)
(***************************************************************************)
EXTENDS MrtReceiverEnv, MrtQueueProofs

\* Every sender_t has one owner: Distinct(pending_senders_q) and the two queues
\* having no object in common are part of QueueInv.
OwnerInv ==
  /\ Distinct(connected_senders_q)
  /\ main_thread # "done" =>
       allocated = InQueue(pending_senders_q) \cup InQueue(connected_senders_q)
                     \cup ({accepting} \ {NULL})

\* The bytes read from a, then the bytes buffered for it, are the stream up to
\* the last fragment accepted.
StreamInv(a) ==
  IF home[a] = NULL THEN delivered[a] = <<>>
  ELSE /\ next_frag[home[a]] >= 1
       /\ Len(delivered[a]) + Len(buffer[home[a]])
            = (next_frag[home[a]] - 1) * MAX_MRT_PAYLOAD_LENGTH
       /\ \A i \in 1 .. Len(delivered[a]) : delivered[a][i] = i
       /\ \A i \in 1 .. Len(buffer[home[a]]) :
            buffer[home[a]][i] = Len(delivered[a]) + i

\* An ADAT is only sent to an address that was connected.
AnswerInv ==
  \A m \in toSender :
    m.type = "ADAT" =>
      /\ home[m.dst] # NULL
      /\ m.frag < next_frag[home[m.dst]]
      /\ m.frag = next_frag[home[m.dst]] - 1 =>
           m.win <= curr_window_size(home[m.dst])

SentInv == toReceiver \subseteq EnvMsgs

ReceiverInv ==
  /\ TypeOK /\ QueueInv /\ OwnerInv /\ CheckersOutliveOnlyClose
  /\ OnlyHomeIsServed /\ AnswerInv /\ SentInv
  /\ \A a \in Addrs : StreamInv(a)

\* Steps that neither move an object nor a byte, nor start a checker(), nor
\* send an ADAT.
Quiet ==
  /\ UNCHANGED <<objectVars, queueVars, accepting, home, delivered>>
  /\ main_thread' = "done" <=> main_thread = "done"
  /\ \A s \in SenderIds :
       timeout_thread'[s] \in {"run", "cancelled"} => timeout_thread'[s] = timeout_thread[s]
  /\ \A m \in toSender' : m \in toSender \/ m.type # "ADAT"

-------------------------------------------------------------------------------
(* Queues as sets. *)

\* enq_q() adds one object to what is queued.
LEMMA InAppend ==
  ASSUME NEW q \in Seq(SenderIds), NEW s \in SenderIds
  PROVE  InQueue(Append(q, s)) = InQueue(q) \cup {s}
<1>1. /\ DOMAIN Append(q, s) = 1 .. Len(q) + 1 /\ DOMAIN q = 1 .. Len(q)
      /\ \A i \in 1 .. Len(q) : Append(q, s)[i] = q[i]
      /\ Append(q, s)[Len(q) + 1] = s /\ Len(q) \in Nat
  OBVIOUS
<1>2. 1 .. Len(q) + 1 = 1 .. Len(q) \cup {Len(q) + 1} BY <1>1
<1> QED BY <1>1, <1>2 DEF InQueue

\* A queue holds its head and what deq_q() leaves.
LEMMA InTail ==
  ASSUME NEW q \in Seq(SenderIds), q # <<>>
  PROVE  InQueue(q) = InQueue(Tail(q)) \cup {Head(q)}
<1>1. /\ DOMAIN q = 1 .. Len(q) /\ DOMAIN Tail(q) = 1 .. Len(q) - 1
      /\ \A i \in 1 .. Len(q) - 1 : Tail(q)[i] = q[i + 1]
      /\ Head(q) = q[1] /\ Len(q) \in Nat /\ Len(q) >= 1
  OBVIOUS
<1>2. \A i \in 1 .. Len(q) : i = 1 \/ (i - 1 \in 1 .. Len(q) - 1 /\ i - 1 + 1 = i)
  BY <1>1
<1>3. ASSUME NEW i \in 1 .. Len(q)
      PROVE  q[i] \in InQueue(Tail(q)) \cup {Head(q)}
  <2>1. CASE i = 1 BY <1>1, <2>1
  <2>2. CASE i - 1 \in 1 .. Len(q) - 1
    <3>1. i - 1 \in DOMAIN Tail(q) /\ Tail(q)[i - 1] = q[i] BY <1>1, <1>2, <2>2
    <3> QED BY <3>1 DEF InQueue
  <2> QED BY <1>2, <2>1, <2>2
<1>4. \A i \in 1 .. Len(q) - 1 : i + 1 \in 1 .. Len(q) BY <1>1
<1>5. InQueue(Tail(q)) \cup {Head(q)} \subseteq InQueue(q)
  BY <1>1, <1>4 DEF InQueue
<1> QED BY <1>1, <1>3, <1>5 DEF InQueue

\* pop_item_q() takes out one object, when none is queued twice.
LEMMA InPop ==
  ASSUME NEW q \in Seq(SenderIds), NEW i \in DOMAIN q, Distinct(q)
  PROVE  InQueue(pop_item_q(q, i)) = InQueue(q) \ {q[i]}
<1> DEFINE r == pop_item_q(q, i)
<1>1. /\ r \in Seq(SenderIds) /\ Len(r) = Len(q) - 1
      /\ \A j \in 1 .. Len(q) - 1 : r[j] = IF j < i THEN q[j] ELSE q[j + 1]
  BY PopType
<1> HIDE DEF r
<1>2. /\ DOMAIN q = 1 .. Len(q) /\ DOMAIN r = 1 .. Len(q) - 1
      /\ i \in 1 .. Len(q) /\ Len(q) \in Nat
  BY <1>1
<1>3. ASSUME NEW j \in DOMAIN r PROVE r[j] \in InQueue(q) \ {q[i]}
  <2>0. r[j] = (IF j < i THEN q[j] ELSE q[j + 1]) BY <1>1, <1>2
  <2>1. PICK k \in DOMAIN q : r[j] = q[k] /\ k # i
    <3>1. CASE j < i BY <1>2, <2>0, <3>1
    <3>2. CASE ~(j < i) BY <1>2, <2>0, <3>2
    <3> QED BY <3>1, <3>2
  <2> QED BY <2>1 DEF InQueue, Distinct
<1>4. ASSUME NEW k \in DOMAIN q, q[k] # q[i] PROVE q[k] \in InQueue(r)
  <2>1. k < i \/ k > i BY <1>2, <1>4
  <2>2. CASE k < i
    <3>1. k \in DOMAIN r /\ r[k] = q[k] BY <1>1, <1>2, <2>2
    <3> QED BY <3>1 DEF InQueue
  <2>3. CASE k > i
    <3>1. k - 1 \in DOMAIN r /\ r[k - 1] = q[k] BY <1>1, <1>2, <2>3
    <3> QED BY <3>1 DEF InQueue
  <2> QED BY <2>1, <2>2, <2>3
<1> QED BY <1>3, <1>4 DEF InQueue, r

-------------------------------------------------------------------------------
(* The steps, and the datagrams the senders can have sent. *)

\* The steps by what they do to the objects: the others are Quiet.
LEMMA StepKinds ==
  ASSUME ReceiverTypeOK, Next \/ UNCHANGED vars
  PROVE  \/ accept1_deq \/ accept1_enq \/ MainCleanup \/ Quiet
         \/ \E m \in toReceiver, s \in SenderIds :
              RconNew(m, s) \/ DataAccept(m, s) \/ DataReject(m, s)
         \/ \E m \in toReceiver, i \in DOMAIN pending_senders_q : RclsPending(m, i)
         \/ \E a \in Addrs, s \in SenderIds, len \in ReceiveLens :
              receive1_data(a, s, len)
<1> USE DEF objectVars, timeoutVars, queueVars, callVars
<1>1. ASSUME UNCHANGED <<toSender, receiverVars>> PROVE Quiet
  BY <1>1 DEF receiverVars, Quiet
<1>2. ASSUME UNCHANGED vars PROVE Quiet
  BY <1>1, <1>2 DEF vars, netVars
<1>3. CASE EnvSends BY <1>1, <1>3 DEF EnvSends
<1>4. CASE AnswersTaken
  BY <1>4 DEF AnswersTaken, NetLoseToSender, receiverVars, Quiet
<1>5. CASE ReceiverAppStep
  <2>1. mrt_open \/ mrt_close => Quiet BY DEF mrt_open, mrt_close, Quiet, netVars
  <2>2. ASSUME NEW a \in Addrs, receive1_spurious(a) \/ mrt_receive1(a) \/ receive1_dropped(a)
        PROVE  Quiet
    BY <2>2 DEF receive1_spurious, mrt_receive1, receive1_dropped, Quiet, netVars
  <2>3. ASSUME NEW a \in Addrs, NEW s \in SenderIds, receive1_timed_out(a, s)
        PROVE  Quiet
    BY <2>3 DEF receive1_timed_out, Quiet, netVars
  <2> QED BY <1>5, <2>1, <2>2, <2>3 DEF ReceiverAppStep
<1>6. CASE MainHandlerStep
  <2>1. ASSUME NEW m, MainBreak(m) PROVE Quiet
    BY <2>1 DEF MainBreak, Quiet
  <2>2. ASSUME NEW m, RconPending(m) \/ DataUnknown(m) \/ RclsUnknown(m)
        PROVE  Quiet
    BY <1>1, <2>2 DEF RconPending, DataUnknown, RclsUnknown
  <2>3. ASSUME NEW m, RconConnected(m) PROVE Quiet
    <3>1. build_acon(m.src, m.frag).type # "ADAT" BY DEF build_acon
    <3> QED BY <2>3, <3>1, SendtoAdds
            DEF RconConnected, duplicate_acon, receiverVars, Quiet
  <2>4. ASSUME NEW m, NEW s, RclsConnected(m, s) PROVE Quiet
    <3>1. build_acls(m.src).type # "ADAT" BY DEF build_acls
    <3> QED BY <2>4, <3>1, SendtoAdds DEF RclsConnected, Quiet
  <2> QED BY <1>6, <2>1, <2>2, <2>3, <2>4 DEF MainHandlerStep
<1>7. CASE TimeoutStep
  <2>1. ASSUME NEW s \in SenderIds, TimeoutTick(s) \/ CancelledTick(s) PROVE Quiet
    <3>1. /\ UNCHANGED <<netVars, objectVars, queueVars, main_thread, accepting,
                         home, delivered>>
          /\ \A t \in SenderIds :
               timeout_thread'[t] \in {"run", "cancelled"} => timeout_thread'[t] = timeout_thread[t]
      BY <2>1 DEF TimeoutTick, CancelledTick, ReceiverTypeOK
    <3> QED BY <3>1 DEF Quiet, netVars
  <2> QED BY <1>7, <2>1 DEF TimeoutStep
<1> QED BY <1>2, <1>3, <1>4, <1>5, <1>6, <1>7 DEF Next, ReceiverStep

\* The DATA of a sender is a whole fragment of its stream, or the empty one.
LEMMA Sent ==
  ASSUME NEW m \in EnvMsgs
  PROVE  /\ m \in ToReceiverMsg
         /\ m.type = "RCON" => m.frag = 0
         /\ m.type = "DATA" /\ m.frag >= 0 =>
              /\ m.frag \in Nat
              /\ m.lo = (m.frag - 1) * MAX_MRT_PAYLOAD_LENGTH
              /\ m.len = MAX_MRT_PAYLOAD_LENGTH
<1>1. CASE \E a \in Addrs : \/ m = build_rcon(a) \/ m = build_data_empty(a)
                            \/ m = build_rcls(a)
  BY <1>1
  DEF build_rcon, build_data_empty, build_rcls, initial_frag, ToReceiverMsg,
      MRT_WINDOWSIZE_LENGTH
<1>2. ASSUME NEW a \in Addrs, NEW f \in 1 .. MaxFrag,
             m = build_data(a, f, FragPayload(f))
      PROVE  /\ m \in ToReceiverMsg /\ m.type = "DATA" /\ m.frag \in Nat
             /\ m.lo = (m.frag - 1) * MAX_MRT_PAYLOAD_LENGTH
             /\ m.len = MAX_MRT_PAYLOAD_LENGTH
  <2>1. f - 1 \in Nat /\ f \in Nat BY EnvAssumption
  <2>2. (f - 1) * MAX_MRT_PAYLOAD_LENGTH \in Nat BY <2>1, NetworkAssumption
  <2> QED BY <1>2, <2>1, <2>2, NetworkAssumption
          DEF build_data, FragPayload, ToReceiverMsg
<1> DEFINE plain == UNION {{build_rcon(a), build_data_empty(a), build_rcls(a)} :
                             a \in Addrs}
           data  == {build_data(a, f, FragPayload(f)) :
                       a \in Addrs, f \in 1 .. MaxFrag}
<1>3. CASE m \in plain
  <2>1. PICK a \in Addrs : m \in {build_rcon(a), build_data_empty(a), build_rcls(a)}
    BY ZenonT(30), <1>3
  <2> QED BY <1>1, <2>1
<1>4. CASE m \in data
  <2>1. PICK a \in Addrs, f \in 1 .. MaxFrag : m = build_data(a, f, FragPayload(f))
    BY <1>4
  <2> QED BY <1>2, <2>1
<1>5. EnvMsgs = plain \cup data BY DEF EnvMsgs
<1> HIDE DEF plain, data
<1> QED BY <1>3, <1>4, <1>5

\* Whatever senders send, and send again, is a datagram they can have sent.
LEMMA SentStep ==
  ASSUME SentInv, Next \/ UNCHANGED vars
  PROVE  SentInv'
<1>1. CASE EnvSends BY <1>1, SendtoAdds DEF EnvSends, SentInv
<1>2. ASSUME toReceiver' \subseteq toReceiver PROVE SentInv'
  BY <1>2 DEF SentInv, EnvMsgs
<1>3. CASE ReceiverStep
  <2>1. toReceiver' \subseteq toReceiver
    BY <1>3, RecvfromTakes
    DEF ReceiverStep, ReceiverAppStep, MainHandlerStep, TimeoutStep, mrt_open,
        accept1_deq, accept1_enq, mrt_close, receive1_spurious, mrt_receive1,
        receive1_data, receive1_timed_out, receive1_dropped, MainReceives, MainBreak, RconConnected,
        RconPending, DataUnknown, RclsUnknown, RconNew, DataAccept, DataReject,
        RclsConnected, RclsPending, MainCleanup, TimeoutTick, CancelledTick, netVars
  <2> QED BY <1>2, <2>1
<1>4. CASE AnswersTaken \/ UNCHANGED vars
  BY <1>2, <1>4 DEF AnswersTaken, NetLoseToSender, vars, netVars
<1> QED BY <1>1, <1>3, <1>4 DEF Next

\* Types, and the queues.
LEMMA EnvTypeStep ==
  ASSUME TypeOK, QueueInv, SentInv, Next \/ UNCHANGED vars
  PROVE  TypeOK'
<1>1. NetTypeOK /\ ReceiverTypeOK /\ AcceptingInv BY DEF TypeOK, QueueInv
<1>2. CASE EnvSends
  <2>1. PICK m \in EnvMsgs : toReceiver' = sendto(toReceiver, m) BY <1>2 DEF EnvSends
  <2>2. NetTypeOK' BY <1>1, <1>2, <2>1, Sent, SendtoAdds DEF EnvSends, NetTypeOK
  <2>3. ReceiverTypeOK'
    BY <1>1, <1>2 DEF EnvSends, receiverVars, ReceiverTypeOK
  <2> QED BY <2>2, <2>3 DEF TypeOK
<1>3. CASE AnswersTaken \/ UNCHANGED vars
  <2>1. NetTypeOK'
    BY <1>1, <1>3 DEF AnswersTaken, NetLoseToSender, vars, netVars, NetTypeOK
  <2>2. ReceiverTypeOK'
    BY <1>1, <1>3 DEF AnswersTaken, vars, receiverVars, ReceiverTypeOK
  <2> QED BY <2>1, <2>2 DEF TypeOK
<1>4. CASE ReceiverStep
  <2>1. NetTypeOK' BY <1>1, <1>4, ReceiverNetType
  <2>2. ReceiverTypeOK'
    BY <1>1, <1>4, AppReceiverType, MainReceiverType, TimeoutReceiverType
    DEF ReceiverStep
  <2> QED BY <2>1, <2>2 DEF TypeOK
<1> QED BY <1>2, <1>3, <1>4 DEF Next

\* ReceiverQueueStep applies: a datagram in flight is as it was sent.
LEMMA EnvQueueStep ==
  ASSUME TypeOK, QueueInv, SentInv', Next \/ UNCHANGED vars
  PROVE  QueueInv'
<1>1. RconInv' BY Sent DEF RconInv, SentInv, EnvMsgs
<1>2. ReceiverStep \/ UNCHANGED receiverVars
  BY DEF Next, EnvSends, AnswersTaken, vars
<1> QED BY <1>1, <1>2, ReceiverQueueStep DEF TypeOK

-------------------------------------------------------------------------------
(* One owner, and a checker() for what is connected. *)

\* An object goes from pending_senders_q over mrt_accept1() to
\* connected_senders_q, and to free(), without being in two of them or in none.
LEMMA OwnerStep ==
  ASSUME ReceiverTypeOK, QueueInv, OwnerInv, Next \/ UNCHANGED vars
  PROVE  OwnerInv'
<1> DEFINE p == pending_senders_q
           c == connected_senders_q
<1> USE DEF queueVars
<1>0. /\ p \in Seq(SenderIds) /\ c \in Seq(SenderIds)
      /\ accepting \in SenderIds \cup {NULL} /\ NULL \notin SenderIds
      /\ Distinct(p)
      /\ InQueue(p) \cap InQueue(c) = {}
      /\ accepting \notin InQueue(p) \cup InQueue(c)
  <2>1. InQueue(p) \subseteq SenderIds /\ InQueue(c) \subseteq SenderIds
    BY DEF InQueue, ReceiverTypeOK
  <2>2. accepting # NULL => accepting \notin InQueue(p) \cup InQueue(c)
    BY DEF QueueInv, AcceptingInv, InQueue
  <2>3. InQueue(p) \cap InQueue(c) = {}
    BY DEF QueueInv, PendingInv, InQueue
  <2> QED BY <2>1, <2>2, <2>3, ReceiverAssumption
          DEF ReceiverTypeOK, QueueInv, PendingInv, Distinct
<1>1. CASE accept1_deq
  <2>1. /\ p # <<>> /\ accepting = NULL /\ accepting' = Head(p) /\ p' = Tail(p)
        /\ UNCHANGED <<c, allocated, main_thread>>
    BY <1>1 DEF accept1_deq
  <2>2. InQueue(p) = InQueue(p') \cup {Head(p)} BY <1>0, <2>1, InTail
  <2>3. Head(p) # NULL BY <1>0, <2>1
  <2>4. InQueue(c') = InQueue(c) /\ Distinct(c') BY <2>1 DEF OwnerInv
  <2> HIDE DEF p, c
  <2>5. allocated' = InQueue(p') \cup InQueue(c') \cup ({accepting'} \ {NULL})
          \/ main_thread' = "done"
    BY <2>1, <2>2, <2>3, <2>4 DEF OwnerInv, p, c
  <2> QED BY <2>4, <2>5 DEF OwnerInv, InQueue, p, c
<1>2. CASE accept1_enq
  <2>1. /\ accepting \in SenderIds /\ accepting' = NULL
        /\ c' = Append(c, accepting)
        /\ UNCHANGED <<p, allocated, main_thread>>
    BY <1>0, <1>2 DEF accept1_enq, enq_q
  <2>2. InQueue(c') = InQueue(c) \cup {accepting} BY <1>0, <2>1, InAppend
  <2>3. /\ DOMAIN c' = 1 .. Len(c) + 1 /\ DOMAIN c = 1 .. Len(c) /\ Len(c) \in Nat
        /\ \A i \in 1 .. Len(c) : c'[i] = c[i]
        /\ c'[Len(c) + 1] = accepting
    BY <1>0, <2>1
  <2>4. \A i \in DOMAIN c : c[i] # accepting BY <1>0 DEF InQueue
  <2>5. Distinct(c') BY <2>3, <2>4 DEF OwnerInv, Distinct, c
  <2> HIDE DEF p, c
  <2>6. allocated' = InQueue(p') \cup InQueue(c') \cup ({accepting'} \ {NULL})
          \/ main_thread' = "done"
    BY <1>0, <2>1, <2>2 DEF OwnerInv, p, c
  <2> QED BY <2>5, <2>6 DEF OwnerInv, InQueue, p, c
<1>3. ASSUME NEW m, NEW s \in SenderIds, RconNew(m, s) PROVE OwnerInv'
  <2>1. /\ p' = Append(p, s) /\ allocated' = allocated \cup {s}
        /\ UNCHANGED <<c, accepting, main_thread>>
    BY <1>3 DEF RconNew, enq_q
  <2>2. InQueue(p') = InQueue(p) \cup {s} BY <1>0, <2>1, InAppend
  <2>3. InQueue(c') = InQueue(c) /\ Distinct(c') BY <2>1 DEF OwnerInv
  <2> HIDE DEF p, c
  <2>4. allocated' = InQueue(p') \cup InQueue(c') \cup ({accepting'} \ {NULL})
          \/ main_thread' = "done"
    BY <2>1, <2>2, <2>3 DEF OwnerInv, p, c
  <2> QED BY <2>3, <2>4 DEF OwnerInv, InQueue, p, c
<1>4. ASSUME NEW m, NEW i \in DOMAIN p, RclsPending(m, i) PROVE OwnerInv'
  <2>1. /\ p' = pop_item_q(p, i) /\ allocated' = allocated \ {p[i]}
        /\ UNCHANGED <<c, accepting, main_thread>>
    BY <1>4 DEF RclsPending
  <2>2. InQueue(p') = InQueue(p) \ {p[i]} BY <1>0, <2>1, InPop
  <2>3. p[i] \in InQueue(p) BY DEF InQueue
  <2>4. InQueue(c') = InQueue(c) /\ Distinct(c') BY <2>1 DEF OwnerInv
  <2> HIDE DEF p, c
  <2>5. allocated' = InQueue(p') \cup InQueue(c') \cup ({accepting'} \ {NULL})
          \/ main_thread' = "done"
    BY <1>0, <2>1, <2>2, <2>3, <2>4 DEF OwnerInv, p, c
  <2> QED BY <2>4, <2>5 DEF OwnerInv, InQueue, p, c
<1>5. CASE MainCleanup
  BY <1>5 DEF MainCleanup, OwnerInv, Distinct
<1>6. ASSUME UNCHANGED <<queueVars, accepting>>,
             main_thread = "done" => main_thread' = "done"
      PROVE  OwnerInv'
  BY <1>6 DEF OwnerInv, InQueue, Distinct
<1>7. CASE Quiet BY <1>6, <1>7 DEF Quiet
<1>8. ASSUME NEW m, NEW s \in SenderIds, DataAccept(m, s) \/ DataReject(m, s)
      PROVE  OwnerInv'
  BY <1>6, <1>8 DEF DataAccept, DataReject
<1>9. ASSUME NEW a, NEW s, NEW len, receive1_data(a, s, len) PROVE OwnerInv'
  BY <1>6, <1>9 DEF receive1_data
<1> QED
  BY StepKinds, <1>1, <1>2, <1>3, <1>4, <1>5, <1>7, <1>8, <1>9

\* checker() is created when its object is queued, and none is left uncancelled
\* when all objects are taken out.
LEMMA CheckerStep ==
  ASSUME ReceiverTypeOK, QueueInv, CheckersOutliveOnlyClose,
         Next \/ UNCHANGED vars
  PROVE  CheckersOutliveOnlyClose'
<1> USE DEF queueVars, timeoutVars
<1>1. ASSUME UNCHANGED connected_senders_q, main_thread' = "done" <=> main_thread = "done",
             \A s \in SenderIds :
               timeout_thread'[s] \in {"run", "cancelled"} => timeout_thread'[s] = timeout_thread[s]
      PROVE  CheckersOutliveOnlyClose'
  BY <1>1 DEF CheckersOutliveOnlyClose, InQueue
<1>2. CASE accept1_deq BY <1>1, <1>2 DEF accept1_deq
<1>3. CASE accept1_enq
  <2>1. /\ accepting \in SenderIds
        /\ connected_senders_q' = Append(connected_senders_q, accepting)
        /\ timeout_thread' = [timeout_thread EXCEPT ![accepting] = "run"]
        /\ main_thread # "done" /\ main_thread' = main_thread
    BY <1>3 DEF accept1_enq, enq_q, QueuesExist, ReceiverTypeOK
  <2>2. InQueue(connected_senders_q') = InQueue(connected_senders_q) \cup {accepting}
    BY <2>1, InAppend DEF ReceiverTypeOK
  <2> QED BY <2>1, <2>2 DEF CheckersOutliveOnlyClose, InQueue, ReceiverTypeOK
<1>4. ASSUME NEW m, NEW s \in SenderIds, RconNew(m, s)
      PROVE  CheckersOutliveOnlyClose'
  BY <1>1, <1>4 DEF RconNew, ReceiverTypeOK
<1>5. ASSUME NEW m, NEW i, RclsPending(m, i) PROVE CheckersOutliveOnlyClose'
  BY <1>1, <1>5 DEF RclsPending
<1>6. CASE MainCleanup
  <2>0. PICK waiting : timeout_thread' = [s \in SenderIds |->
           IF s \in waiting THEN "cancelled"
           ELSE IF s \in InQueue(connected_senders_q) THEN "done"
           ELSE timeout_thread[s]]
    BY <1>6 DEF MainCleanup
  <2>1. ASSUME NEW s \in SenderIds
        PROVE  \/ timeout_thread'[s] \in {"cancelled", "done"}
               \/ /\ s \notin InQueue(connected_senders_q)
                  /\ timeout_thread'[s] = timeout_thread[s]
    BY <2>0
  <2>2. main_thread # "done" /\ main_thread' = "done" BY <1>6 DEF MainCleanup
  <2> QED BY <2>1, <2>2 DEF CheckersOutliveOnlyClose
<1>7. CASE Quiet BY <1>1, <1>7 DEF Quiet
<1>8. ASSUME NEW m, NEW s \in SenderIds, DataAccept(m, s) \/ DataReject(m, s)
      PROVE  CheckersOutliveOnlyClose'
  BY <1>1, <1>8 DEF DataAccept, DataReject
<1>9. ASSUME NEW a, NEW s, NEW len, receive1_data(a, s, len)
      PROVE  CheckersOutliveOnlyClose'
  BY <1>1, <1>9 DEF receive1_data
<1> QED
  BY StepKinds, <1>2, <1>3, <1>4, <1>5, <1>6, <1>7, <1>8, <1>9

\* Bytes are buffered at home only.
LEMMA HomeServedStep ==
  ASSUME NetTypeOK, ReceiverTypeOK, QueueInv, OnlyHomeIsServed,
         Next \/ UNCHANGED vars
  PROVE  OnlyHomeIsServed'
<1> DEFINE c == connected_senders_q
<1> USE DEF queueVars, objectVars
<1>0. c \in Seq(SenderIds) /\ \A s \in InQueue(c) : s \in allocated /\ addr[s] \in Addrs
  BY DEF ReceiverTypeOK, QueueInv, ConnectedInv, InQueue
<1>1. ASSUME UNCHANGED <<c, home>>,
             \A s \in InQueue(c) :
               /\ addr'[s] = addr[s]
               /\ buffer'[s] = buffer[s] \/ s = home[addr[s]]
      PROVE  OnlyHomeIsServed'
  BY <1>1 DEF OnlyHomeIsServed, InQueue
<1>2. CASE accept1_deq BY <1>1, <1>2 DEF accept1_deq
<1>3. CASE accept1_enq
  <2> DEFINE s == accepting
  <2>1. /\ s \in SenderIds /\ c' = Append(c, s)
        /\ UNCHANGED <<addr, buffer>>
        /\ buffer[s] = <<>>
    BY <1>3 DEF accept1_enq, enq_q, ReceiverTypeOK, QueueInv, AcceptingInv, Fresh
  <2>2. InQueue(c') = InQueue(c) \cup {s} BY <1>0, <2>1, InAppend
  <2>3. ASSUME NEW t \in InQueue(c), t # home'[addr[t]] PROVE buffer[t] = <<>>
    <3>1. CASE home' = home BY <2>3, <3>1 DEF OnlyHomeIsServed
    <3>2. CASE Absent(c, addr[s]) /\ home' = [home EXCEPT ![addr[s]] = s]
      <4>1. addr[t] # addr[s] BY <3>2 DEF Absent, InQueue
      <4>2. home'[addr[t]] = home[addr[t]]
        BY <1>0, <3>2, <4>1 DEF ReceiverTypeOK
      <4> QED BY <2>3, <4>2 DEF OnlyHomeIsServed
    <3> QED BY <1>3, <3>1, <3>2 DEF accept1_enq
  <2> HIDE DEF c, s
  <2> QED BY <2>1, <2>2, <2>3 DEF OnlyHomeIsServed, InQueue, c
<1>4. ASSUME NEW m, NEW s \in SenderIds, RconNew(m, s) PROVE OnlyHomeIsServed'
  <2>1. s \notin InQueue(c) BY <1>0, <1>4 DEF RconNew
  <2>2. \A t \in InQueue(c) : addr'[t] = addr[t] /\ buffer'[t] = buffer[t]
    BY <1>0, <1>4, <2>1 DEF RconNew, ReceiverTypeOK, InQueue
  <2> QED BY <1>1, <1>4, <2>2 DEF RconNew
<1>5. ASSUME NEW m, NEW i, RclsPending(m, i) PROVE OnlyHomeIsServed'
  BY <1>1, <1>5 DEF RclsPending
<1>6. CASE MainCleanup BY <1>6 DEF MainCleanup, OnlyHomeIsServed, InQueue
<1>7. CASE Quiet BY <1>1, <1>7 DEF Quiet
<1>8. ASSUME NEW a \in Addrs, NEW s \in SenderIds, Found(c, a, s),
             main_thread # "done", UNCHANGED <<c, home, addr>>,
             \A t \in SenderIds \ {s} : buffer'[t] = buffer[t]
      PROVE  OnlyHomeIsServed'
  <2>1. s = home[a] /\ addr[s] = a BY <1>8, FoundAtHome
  <2>2. InQueue(c) \subseteq SenderIds BY <1>0 DEF InQueue
  <2> QED BY <1>1, <1>8, <2>1, <2>2
<1>9. ASSUME NEW m \in toReceiver, NEW s \in SenderIds, DataAccept(m, s)
      PROVE  OnlyHomeIsServed'
  <2>1. m.src \in Addrs BY DEF NetTypeOK, ToReceiverMsg
  <2>2. /\ Found(c, m.src, s) /\ main_thread # "done" /\ UNCHANGED <<c, home, addr>>
        /\ \A t \in SenderIds \ {s} : buffer'[t] = buffer[t]
    BY <1>9 DEF DataAccept, MainReceives, ReceiverTypeOK
  <2> QED BY <1>8, <2>1, <2>2
<1>10. ASSUME NEW m, NEW s, DataReject(m, s) PROVE OnlyHomeIsServed'
  BY <1>1, <1>10 DEF DataReject
<1>11. ASSUME NEW a \in Addrs, NEW s \in SenderIds, NEW len, receive1_data(a, s, len)
       PROVE  OnlyHomeIsServed'
  <2>1. /\ Found(c, a, s) /\ main_thread # "done" /\ UNCHANGED <<c, home, addr>>
        /\ \A t \in SenderIds \ {s} : buffer'[t] = buffer[t]
    BY <1>11 DEF receive1_data, QueuesExist, ReceiverTypeOK
  <2> QED BY <1>8, <2>1
<1> QED
  BY StepKinds, <1>2, <1>3, <1>4, <1>5, <1>6, <1>7, <1>9, <1>10, <1>11

-------------------------------------------------------------------------------
(* The bytes of each connection, and what the answers promise. *)

\* DATA that is accepted is the next fragment of the stream.
LEMMA AcceptedIsNext ==
  ASSUME TypeOK, QueueInv, SentInv, NEW m \in toReceiver, NEW s \in SenderIds,
         DataAccept(m, s), StreamInv(m.src)
  PROVE  /\ m.src \in Addrs /\ s = home[m.src] /\ home[m.src] # NULL
         /\ m.frag = next_frag[s] /\ m.len = MAX_MRT_PAYLOAD_LENGTH
         /\ m.lo = Len(delivered[m.src]) + Len(buffer[s])
         /\ next_frag'[s] = next_frag[s] + 1
         /\ buffer'[s] = buffer[s] \o payload_bytes(m)
         /\ \A t \in SenderIds \ {s} :
              buffer'[t] = buffer[t] /\ next_frag'[t] = next_frag[t]
         /\ payload_bytes(m) \in Seq(Nat)
         /\ Len(payload_bytes(m)) = MAX_MRT_PAYLOAD_LENGTH
         /\ \A i \in 1 .. MAX_MRT_PAYLOAD_LENGTH : payload_bytes(m)[i] = m.lo + i
<1>1. m.src \in Addrs /\ m \in ToReceiverMsg BY DEF TypeOK, NetTypeOK, ToReceiverMsg
<1>2. /\ Found(connected_senders_q, m.src, s) /\ main_thread # "done"
      /\ m.type = "DATA" /\ next_frag[s] = m.frag
      /\ buffer' = [buffer EXCEPT ![s] = @ \o payload_bytes(m)]
      /\ next_frag' = [next_frag EXCEPT ![s] = @ + 1]
  BY DEF DataAccept, MainReceives, Accepts
<1>3. s = home[m.src] /\ home[m.src] # NULL
  BY <1>1, <1>2, FoundAtHome DEF TypeOK
<1>4. /\ next_frag[s] >= 1 /\ next_frag[s] \in Int
      /\ Len(delivered[m.src]) + Len(buffer[s])
           = (next_frag[s] - 1) * MAX_MRT_PAYLOAD_LENGTH
  BY <1>3 DEF StreamInv, TypeOK, ReceiverTypeOK
<1>5. /\ m.lo = (m.frag - 1) * MAX_MRT_PAYLOAD_LENGTH
      /\ m.len = MAX_MRT_PAYLOAD_LENGTH
  BY <1>2, <1>4, Sent DEF SentInv
<1>6. /\ payload_bytes(m) \in Seq(Nat)
      /\ Len(payload_bytes(m)) = MAX_MRT_PAYLOAD_LENGTH
      /\ \A i \in 1 .. MAX_MRT_PAYLOAD_LENGTH : payload_bytes(m)[i] = m.lo + i
  BY <1>1, <1>5, PayloadBytesType, NetworkAssumption
<1>7. /\ next_frag'[s] = next_frag[s] + 1
      /\ buffer'[s] = buffer[s] \o payload_bytes(m)
      /\ \A t \in SenderIds \ {s} :
           buffer'[t] = buffer[t] /\ next_frag'[t] = next_frag[t]
  BY <1>2 DEF TypeOK, ReceiverTypeOK
<1> QED BY <1>1, <1>2, <1>3, <1>4, <1>5, <1>6, <1>7

\* What is left of a buffer once its first n bytes are read.
LEMMA BackBytes ==
  ASSUME NEW q \in Seq(Nat), NEW n \in Nat, n <= Len(q)
  PROVE  /\ Len(SubSeq(q, n + 1, Len(q))) = Len(q) - n
         /\ \A i \in 1 .. Len(q) - n : SubSeq(q, n + 1, Len(q))[i] = q[n + i]
  BY SMTT(60)

\* mrt_receive1() moves bytes from the front of the buffer of home[a].
LEMMA ReadMoves ==
  ASSUME TypeOK, QueueInv, NEW a \in Addrs, NEW s \in SenderIds,
         NEW len \in ReceiveLens, receive1_data(a, s, len)
  PROVE  /\ s = home[a] /\ home[a] # NULL
         /\ UNCHANGED <<toSender, next_frag, home>>
         /\ \A t \in SenderIds \ {s} : buffer'[t] = buffer[t]
         /\ \A b \in Addrs \ {a} : delivered'[b] = delivered[b]
         /\ \E n \in Nat :
              /\ n <= Len(buffer[s])
              /\ Len(delivered'[a]) = Len(delivered[a]) + n
              /\ Len(buffer'[s]) = Len(buffer[s]) - n
              /\ \A i \in 1 .. Len(delivered[a]) : delivered'[a][i] = delivered[a][i]
              /\ \A i \in 1 .. n : delivered'[a][Len(delivered[a]) + i] = buffer[s][i]
              /\ \A i \in 1 .. Len(buffer[s]) - n : buffer'[s][i] = buffer[s][n + i]
<1>1. Found(connected_senders_q, a, s) /\ main_thread # "done"
  BY DEF receive1_data, QueuesExist
<1>2. s = home[a] /\ home[a] # NULL BY <1>1, FoundAtHome DEF TypeOK
<1>3. UNCHANGED <<toSender, next_frag, home>> BY DEF receive1_data, netVars
<1> DEFINE n == bytes_read(s, len)
<1>4. /\ n \in Nat /\ n <= Len(buffer[s]) /\ buffer[s] \in Seq(Nat)
      /\ delivered[a] \in Seq(Nat)
  BY ReceiverAssumption DEF bytes_read, TypeOK, ReceiverTypeOK
<1>5. /\ delivered'[a] = delivered[a] \o SubSeq(buffer[s], 1, n)
      /\ buffer'[s] = SubSeq(buffer[s], n + 1, Len(buffer[s]))
      /\ \A t \in SenderIds \ {s} : buffer'[t] = buffer[t]
      /\ \A b \in Addrs \ {a} : delivered'[b] = delivered[b]
  BY DEF receive1_data, bytes_remaining, TypeOK, ReceiverTypeOK
<1> HIDE DEF n
<1> DEFINE front == SubSeq(buffer[s], 1, n)
           back  == SubSeq(buffer[s], n + 1, Len(buffer[s]))
<1>6. /\ front \in Seq(Nat) /\ Len(front) = n
      /\ \A i \in 1 .. n : front[i] = buffer[s][i]
  BY <1>4
<1>7. /\ Len(buffer'[s]) = Len(buffer[s]) - n
      /\ \A i \in 1 .. Len(buffer[s]) - n : buffer'[s][i] = buffer[s][n + i]
  <2>1. /\ Len(back) = Len(buffer[s]) - n
        /\ \A i \in 1 .. Len(buffer[s]) - n : back[i] = buffer[s][n + i]
    BY <1>4, BackBytes
  <2>2. buffer'[s] = back BY <1>5
  <2> HIDE DEF back
  <2> QED BY <2>1, <2>2
<1> HIDE DEF front
<1>8. /\ Len(delivered'[a]) = Len(delivered[a]) + n
      /\ \A i \in 1 .. Len(delivered[a]) : delivered'[a][i] = delivered[a][i]
      /\ \A i \in 1 .. n : delivered'[a][Len(delivered[a]) + i] = buffer[s][i]
  <2>1. delivered'[a] = delivered[a] \o front BY <1>5 DEF front
  <2> DEFINE d == delivered[a]
             r == delivered'[a]
  <2>2. d \in Seq(Nat) /\ r = d \o front BY <1>4, <2>1
  <2> HIDE DEF d, r
  <2>3. /\ Len(r) = Len(d) + Len(front)
        /\ \A i \in 1 .. Len(d) : r[i] = d[i]
        /\ \A i \in 1 .. Len(front) : r[Len(d) + i] = front[i]
    BY <1>6, <2>2, ConcatBytes
  <2>4. /\ Len(r) = Len(d) + n
        /\ \A i \in 1 .. Len(d) : r[i] = d[i]
        /\ \A i \in 1 .. n : r[Len(d) + i] = buffer[s][i]
    BY <1>6, <2>3
  <2> QED BY <2>4 DEF d, r
<1> QED BY <1>2, <1>3, <1>4, <1>5, <1>7, <1>8

\* home[a] only ever becomes an object nobody has received for.
LEMMA ConnectHome ==
  ASSUME TypeOK, QueueInv, accept1_enq, NEW a \in Addrs
  PROVE  \/ home'[a] = home[a]
         \/ /\ home[a] = NULL /\ home'[a] = accepting /\ accepting # NULL
            /\ buffer[accepting] = <<>> /\ next_frag[accepting] = 1
<1>1. /\ accepting # NULL /\ main_thread # "done"
      /\ home' = IF Absent(connected_senders_q, addr[accepting])
                 THEN [home EXCEPT ![addr[accepting]] = accepting] ELSE home
  BY DEF accept1_enq, QueuesExist
<1>2. buffer[accepting] = <<>> /\ next_frag[accepting] = 1
  BY <1>1 DEF QueueInv, AcceptingInv, Fresh
<1>3. CASE Absent(connected_senders_q, addr[accepting]) /\ addr[accepting] = a
  <2>1. home'[a] = accepting BY <1>1, <1>3 DEF TypeOK, ReceiverTypeOK
  <2>2. home[a] = NULL BY <1>1, <1>3 DEF QueueInv, HomeInv, Found, MatchAt, Absent
  <2> QED BY <1>1, <1>2, <2>1, <2>2
<1>4. CASE ~(Absent(connected_senders_q, addr[accepting]) /\ addr[accepting] = a)
  BY <1>1, <1>4 DEF TypeOK, ReceiverTypeOK
<1> QED BY <1>3, <1>4

\* A datagram, a read and a timeout keep what is buffered for b a part of its stream.
LEMMA StreamInvStep ==
  ASSUME TypeOK, QueueInv, SentInv, NEW b \in Addrs, \A a \in Addrs : StreamInv(a),
         Next \/ UNCHANGED vars
  PROVE  StreamInv(b)'
<1> DEFINE h == home[b]
           P == MAX_MRT_PAYLOAD_LENGTH
<1> USE DEF objectVars
<1>0. /\ StreamInv(b) /\ P \in Nat \ {0} /\ delivered[b] \in Seq(Nat)
      /\ h # NULL => /\ h \in SenderIds /\ next_frag[h] \in Int
                     /\ buffer[h] \in Seq(Nat)
  BY NetworkAssumption DEF TypeOK, ReceiverTypeOK
<1>1. ASSUME home'[b] = h, delivered'[b] = delivered[b],
             h # NULL => buffer'[h] = buffer[h] /\ next_frag'[h] = next_frag[h]
      PROVE  StreamInv(b)'
  <2>1. CASE home[b] = NULL BY <1>0, <1>1, <2>1 DEF StreamInv
  <2>2. CASE home[b] # NULL
    <3>1. /\ home'[b] = home[b] /\ delivered'[b] = delivered[b]
          /\ buffer'[home[b]] = buffer[home[b]] /\ next_frag'[home[b]] = next_frag[home[b]]
      BY <1>1, <2>2
    <3>2. StreamInv(b) BY <1>0
    <3> QED BY ONLY <2>2, <3>1, <3>2 DEF StreamInv
  <2> QED BY <2>1, <2>2
<1>2. CASE accept1_deq \/ MainCleanup \/ Quiet
  BY <1>1, <1>2 DEF accept1_deq, MainCleanup, Quiet, callVars
<1>3. CASE accept1_enq
  <2>1. UNCHANGED <<buffer, next_frag, delivered>> BY <1>3 DEF accept1_enq, callVars
  <2>2. CASE home'[b] = h BY <1>1, <2>1, <2>2
  <2>3. CASE /\ h = NULL /\ home'[b] = accepting /\ accepting # NULL
             /\ buffer[accepting] = <<>> /\ next_frag[accepting] = 1
    <3>1. delivered[b] = <<>> BY <1>0, <2>3 DEF StreamInv
    <3>2. (1 - 1) * P = 0 BY <1>0
    <3> QED BY <2>1, <2>3, <3>1, <3>2 DEF StreamInv
  <2> QED BY <1>3, <2>2, <2>3, ConnectHome
<1>4. ASSUME NEW m, NEW s \in SenderIds, RconNew(m, s) PROVE StreamInv(b)'
  <2>1. h # s BY <1>4, NewIsNotHome
  <2>2. /\ home' = home /\ delivered' = delivered
        /\ \A t \in SenderIds \ {s} :
             buffer'[t] = buffer[t] /\ next_frag'[t] = next_frag[t]
    BY <1>4 DEF RconNew, callVars, TypeOK, ReceiverTypeOK
  <2> QED BY <1>0, <1>1, <2>1, <2>2
<1>5. ASSUME NEW m, NEW i, RclsPending(m, i) PROVE StreamInv(b)'
  BY <1>1, <1>5 DEF RclsPending, callVars
<1>6. ASSUME NEW m, NEW s, DataReject(m, s) PROVE StreamInv(b)'
  BY <1>1, <1>6 DEF DataReject, callVars
<1>7. ASSUME NEW m \in toReceiver, NEW s \in SenderIds, DataAccept(m, s)
      PROVE  StreamInv(b)'
  <2>0. m.src \in Addrs BY DEF TypeOK, NetTypeOK, ToReceiverMsg
  <2> DEFINE e == payload_bytes(m)
  <2>1. /\ s = home[m.src] /\ home[m.src] # NULL
        /\ m.lo = Len(delivered[m.src]) + Len(buffer[s])
        /\ next_frag'[s] = next_frag[s] + 1
        /\ buffer'[s] = buffer[s] \o e
        /\ \A t \in SenderIds \ {s} :
             buffer'[t] = buffer[t] /\ next_frag'[t] = next_frag[t]
        /\ e \in Seq(Nat) /\ Len(e) = P
        /\ \A i \in 1 .. P : e[i] = m.lo + i
    BY <1>7, <2>0, AcceptedIsNext
  <2>2. home' = home /\ delivered' = delivered BY <1>7 DEF DataAccept, callVars
  <2>3. CASE b # m.src
    BY <1>0, <1>1, <2>0, <2>1, <2>2, <2>3, HomeOneToOne
  <2>4. CASE b = m.src
    <3> DEFINE d == Len(delivered[b])
               l == Len(buffer[h])
               n == next_frag[h]
    <3>1. h = s /\ h # NULL BY <2>1, <2>4
    <3>2. d \in Nat /\ l \in Nat /\ n \in Int BY <1>0, <3>1
    <3>3. /\ n >= 1 /\ d + l = (n - 1) * P
          /\ \A i \in 1 .. d : delivered[b][i] = i
          /\ \A i \in 1 .. l : buffer[h][i] = d + i
      BY <1>0, <3>1 DEF StreamInv
    <3>4. m.lo = d + l BY <2>1, <2>4, <3>1
    <3>5. buffer'[h] = buffer[h] \o e BY <2>1, <3>1
    <3>6. /\ Len(buffer[h] \o e) = l + Len(e)
          /\ \A i \in 1 .. l : (buffer[h] \o e)[i] = buffer[h][i]
          /\ \A i \in 1 .. Len(e) : (buffer[h] \o e)[l + i] = e[i]
      <4>1. buffer[h] \in Seq(Nat) /\ e \in Seq(Nat) BY <1>0, <2>1, <3>1
      <4> HIDE DEF e
      <4> QED BY <4>1, ConcatBytes
    <3>7. Len(e) = P /\ \A i \in 1 .. P : e[i] = d + l + i BY <2>1, <3>4
    <3>8. /\ home'[b] = h /\ delivered'[b] = delivered[b]
          /\ next_frag'[h] = n + 1
      BY <2>1, <2>2, <3>1
    <3> DEFINE r == buffer'[h]
    <3>9. /\ Len(r) = l + P
          /\ \A i \in 1 .. l : r[i] = d + i
          /\ \A i \in 1 .. P : r[l + i] = d + l + i
      BY <3>3, <3>5, <3>6, <3>7
    <3>10. P \in Nat BY <1>0
    <3> HIDE DEF e, P, d, l, n, r
    <3>11. d + (l + P) = ((n + 1) - 1) * P /\ n + 1 >= 1
      <4>1. (n + 1) - 1 = (n - 1) + 1 /\ n - 1 \in Int BY <3>2
      <4>2. ((n - 1) + 1) * P = (n - 1) * P + P BY <3>10, <4>1
      <4>3. (n - 1) * P \in Int BY <3>10, <4>1
      <4> QED BY <3>2, <3>3, <3>10, <4>1, <4>2, <4>3
    <3>12. ASSUME NEW i \in 1 .. l + P PROVE r[i] = d + i
      <4>1. CASE i <= l BY <3>2, <3>9, <4>1
      <4>2. CASE i > l
        <5>1. i - l \in 1 .. P /\ l + (i - l) = i BY <3>2, <3>10, <4>2
        <5>2. r[l + (i - l)] = d + l + (i - l) BY <3>9, <5>1
        <5> QED BY <3>2, <5>1, <5>2
      <4> QED BY <3>2, <3>10, <4>1, <4>2
    <3>13. \A i \in 1 .. Len(r) : r[i] = d + i BY <3>9, <3>12
    <3>14. d + Len(r) = ((n + 1) - 1) * P BY <3>9, <3>11
    <3>15. /\ home'[b] # NULL /\ buffer'[home'[b]] = r
           /\ next_frag'[home'[b]] = n + 1 /\ Len(delivered'[b]) = d
      BY <3>1, <3>8 DEF d, r
    <3>16. \A i \in 1 .. d : delivered'[b][i] = i BY <3>3, <3>8
    <3>17. \A i \in 1 .. Len(delivered'[b]) : delivered'[b][i] = i BY <3>15, <3>16
    <3>18. \A i \in 1 .. Len(buffer'[home'[b]]) :
             buffer'[home'[b]][i] = Len(delivered'[b]) + i
      BY <3>13, <3>15
    <3>19. next_frag'[home'[b]] >= 1 BY <3>11, <3>15
    <3>20. Len(delivered'[b]) + Len(buffer'[home'[b]])
             = (next_frag'[home'[b]] - 1) * P
      BY <3>14, <3>15
    <3> QED BY <3>15, <3>17, <3>18, <3>19, <3>20 DEF StreamInv, P
  <2> QED BY <2>3, <2>4
<1>8. ASSUME NEW a \in Addrs, NEW s \in SenderIds, NEW len \in ReceiveLens,
             receive1_data(a, s, len)
      PROVE  StreamInv(b)'
  <2>1. /\ s = home[a] /\ home[a] # NULL
        /\ UNCHANGED <<next_frag, home>>
        /\ \A t \in SenderIds \ {s} : buffer'[t] = buffer[t]
        /\ \A x \in Addrs \ {a} : delivered'[x] = delivered[x]
    BY <1>8, ReadMoves
  <2>2. CASE b # a BY <1>0, <1>1, <2>1, <2>2, HomeOneToOne
  <2>3. CASE b = a
    <3> DEFINE d == Len(delivered[b])
               l == Len(buffer[h])
    <3>1. PICK n \in Nat :
            /\ n <= l /\ Len(delivered'[b]) = d + n /\ Len(buffer'[h]) = l - n
            /\ \A i \in 1 .. d : delivered'[b][i] = delivered[b][i]
            /\ \A i \in 1 .. n : delivered'[b][d + i] = buffer[h][i]
            /\ \A i \in 1 .. l - n : buffer'[h][i] = buffer[h][n + i]
      <4>1. h = s BY <2>1, <2>3
      <4>2. PICK n \in Nat :
              /\ n <= Len(buffer[s])
              /\ Len(delivered'[a]) = Len(delivered[a]) + n
              /\ Len(buffer'[s]) = Len(buffer[s]) - n
              /\ \A i \in 1 .. Len(delivered[a]) : delivered'[a][i] = delivered[a][i]
              /\ \A i \in 1 .. n : delivered'[a][Len(delivered[a]) + i] = buffer[s][i]
              /\ \A i \in 1 .. Len(buffer[s]) - n : buffer'[s][i] = buffer[s][n + i]
        BY <1>8, ReadMoves
      <4> QED BY ONLY <2>3, <4>1, <4>2
    <3>2. d \in Nat /\ l \in Nat /\ h # NULL /\ h = s BY <1>0, <2>1, <2>3
    <3>3. /\ \A i \in 1 .. l : buffer[h][i] = d + i
          /\ \A i \in 1 .. d : delivered[b][i] = i
          /\ next_frag[h] >= 1 /\ d + l = (next_frag[h] - 1) * P
      BY <1>0, <3>2 DEF StreamInv
    <3> HIDE DEF d, l
    <3>4. ASSUME NEW i \in 1 .. d + n PROVE delivered'[b][i] = i
      <4>1. CASE i <= d
        <5>1. i \in 1 .. d BY <3>2, <4>1
        <5> QED BY <3>1, <3>3, <5>1
      <4>2. CASE i > d
        <5>1. i - d \in 1 .. n /\ d + (i - d) = i /\ i - d \in 1 .. l
          BY <3>1, <3>2, <4>2
        <5>2. delivered'[b][d + (i - d)] = buffer[h][i - d] BY <3>1, <5>1
        <5> QED BY <3>3, <5>1, <5>2
      <4> QED BY <3>2, <4>1, <4>2
    <3>5. ASSUME NEW i \in 1 .. l - n PROVE buffer'[h][i] = d + n + i
      <4>1. n + i \in 1 .. l BY <3>1, <3>2
      <4>2. buffer'[h][i] = buffer[h][n + i] BY <3>1
      <4>3. buffer[h][n + i] = d + (n + i) BY <3>3, <4>1
      <4> QED BY <3>2, <4>2, <4>3
    <3>6. d + n + (l - n) = d + l BY <3>2
    <3> QED BY <2>1, <3>1, <3>2, <3>3, <3>4, <3>5, <3>6 DEF StreamInv
  <2> QED BY <2>2, <2>3
<1> QED
  BY StepKinds, <1>2, <1>3, <1>4, <1>5, <1>6, <1>7, <1>8 DEF TypeOK

\* The newest ADAT is true when it is sent; only mrt_receive1() changes the buffer later.
LEMMA AnswerStep ==
  ASSUME TypeOK, QueueInv, SentInv, AnswerInv, \A a \in Addrs : StreamInv(a),
         Next \/ UNCHANGED vars
  PROVE  AnswerInv'
<1> USE DEF objectVars
<1>0. /\ \A m \in toSender : m.dst \in Addrs /\ m.frag \in Int /\ m.win \in Int
      /\ RECEIVER_MAX_WINDOW_SIZE \in Nat
      /\ home \in [Addrs -> SenderIds \cup {NULL}]
      /\ \A s \in SenderIds : next_frag[s] \in Int /\ Len(buffer[s]) \in Nat
  BY WindowType DEF TypeOK, NetTypeOK, ReceiverTypeOK, ToSenderMsg
<1>1. ASSUME \A m \in toSender' : m \in toSender \/ m.type # "ADAT",
             \A b \in Addrs : home[b] # NULL =>
               /\ home'[b] = home[b]
               /\ next_frag'[home[b]] = next_frag[home[b]]
               /\ Len(buffer'[home[b]]) <= Len(buffer[home[b]])
               /\ Len(buffer'[home[b]]) \in Nat
      PROVE  AnswerInv'
  <2> SUFFICES ASSUME NEW m \in toSender', m.type = "ADAT"
               PROVE  /\ home'[m.dst] # NULL
                      /\ m.frag < next_frag'[home'[m.dst]]
                      /\ m.frag = next_frag'[home'[m.dst]] - 1 =>
                           m.win <= RECEIVER_MAX_WINDOW_SIZE
                                      - Len(buffer'[home'[m.dst]])
    BY DEF AnswerInv, curr_window_size
  <2>1. m \in toSender BY <1>1
  <2> DEFINE h == home[m.dst]
  <2>2. /\ h # NULL /\ h \in SenderIds /\ m.frag < next_frag[h]
        /\ m.frag = next_frag[h] - 1 =>
             m.win <= RECEIVER_MAX_WINDOW_SIZE - Len(buffer[h])
    BY <1>0, <2>1 DEF AnswerInv, curr_window_size
  <2>3. /\ home'[m.dst] = h /\ next_frag'[h] = next_frag[h]
        /\ Len(buffer'[h]) <= Len(buffer[h]) /\ Len(buffer'[h]) \in Nat
    BY <1>0, <1>1, <2>1, <2>2
  <2> HIDE DEF h
  <2> QED BY <1>0, <2>1, <2>2, <2>3
<1>2. CASE accept1_deq \/ MainCleanup \/ Quiet
  BY <1>0, <1>1, <1>2 DEF accept1_deq, MainCleanup, Quiet, netVars
<1>3. CASE accept1_enq
  <2>1. build_acon(addr[accepting], next_frag[accepting] - 1).type # "ADAT"
    BY DEF build_acon
  <2>2. \A m \in toSender' : m \in toSender \/ m.type # "ADAT"
    BY <1>3, <2>1, SendtoAdds DEF accept1_enq
  <2>3. UNCHANGED <<buffer, next_frag>> BY <1>3 DEF accept1_enq
  <2>4. \A b \in Addrs : home[b] # NULL => home'[b] = home[b]
    BY <1>3, ConnectHome
  <2> QED BY <1>0, <1>1, <2>2, <2>3, <2>4
<1>4. ASSUME NEW m, NEW s \in SenderIds, RconNew(m, s) PROVE AnswerInv'
  <2>1. \A b \in Addrs : home[b] # s BY <1>4, NewIsNotHome
  <2>2. /\ home' = home /\ toSender' = toSender
        /\ \A t \in SenderIds \ {s} :
             buffer'[t] = buffer[t] /\ next_frag'[t] = next_frag[t]
    BY <1>4 DEF RconNew, TypeOK, ReceiverTypeOK
  <2> QED BY <1>0, <1>1, <2>1, <2>2
<1>5. ASSUME NEW m, NEW i, RclsPending(m, i) PROVE AnswerInv'
  BY <1>0, <1>1, <1>5 DEF RclsPending
<1>6. ASSUME NEW a \in Addrs, NEW s \in SenderIds, NEW len \in ReceiveLens,
             receive1_data(a, s, len)
      PROVE  AnswerInv'
  <2>1. /\ s = home[a] /\ home[a] # NULL /\ UNCHANGED <<toSender, next_frag, home>>
        /\ \A t \in SenderIds \ {s} : buffer'[t] = buffer[t]
    BY <1>6, ReadMoves
  <2>2. PICK n \in Nat : n <= Len(buffer[s]) /\ Len(buffer'[s]) = Len(buffer[s]) - n
    BY <1>6, ReadMoves
  <2>3. ASSUME NEW b \in Addrs, home[b] # NULL
        PROVE  /\ Len(buffer'[home[b]]) <= Len(buffer[home[b]])
               /\ Len(buffer'[home[b]]) \in Nat
    <3>1. CASE home[b] = s BY <1>0, <2>2, <3>1
    <3>2. CASE home[b] # s BY <1>0, <2>1, <2>3, <3>2
    <3> QED BY <3>1, <3>2
  <2> QED BY <1>1, <2>1, <2>3
<1>7. ASSUME NEW m \in toReceiver, NEW s \in SenderIds, DataReject(m, s)
      PROVE  AnswerInv'
  <2>1. m.src \in Addrs BY DEF TypeOK, NetTypeOK, ToReceiverMsg
  <2>2. Found(connected_senders_q, m.src, s) /\ main_thread # "done"
    BY <1>7 DEF DataReject, MainReceives
  <2>3. s = home[m.src] /\ home[m.src] # NULL BY <2>1, <2>2, FoundAtHome DEF TypeOK
  <2> DEFINE new == build_adat(m.src, adat_frag(s, m), curr_window_size(s))
  <2>4. new.dst = m.src /\ new.frag = next_frag[s] - 1 /\ new.win = curr_window_size(s)
    BY DEF build_adat, adat_frag
  <2>5. UNCHANGED <<home, buffer, next_frag>> /\ toSender' \subseteq toSender \cup {new}
    BY <1>7, SendtoAdds DEF DataReject
  <2>6. curr_window_size(s) \in Int BY <1>0 DEF curr_window_size
  <2> HIDE DEF new
  <2>7. ASSUME NEW x \in toSender', x.type = "ADAT"
        PROVE  /\ home[x.dst] # NULL
               /\ x.frag < next_frag[home[x.dst]]
               /\ x.frag = next_frag[home[x.dst]] - 1 =>
                    x.win <= curr_window_size(home[x.dst])
    <3>1. CASE x \in toSender BY <2>7, <3>1 DEF AnswerInv
    <3>2. CASE x = new BY <1>0, <2>3, <2>4, <2>6, <3>2
    <3> QED BY <2>5, <3>1, <3>2
  <2> QED BY <2>5, <2>7 DEF AnswerInv, curr_window_size
<1>8. ASSUME NEW m \in toReceiver, NEW s \in SenderIds, DataAccept(m, s)
      PROVE  AnswerInv'
  <2>0. m.src \in Addrs BY DEF TypeOK, NetTypeOK, ToReceiverMsg
  <2> DEFINE e == payload_bytes(m)
             P == MAX_MRT_PAYLOAD_LENGTH
             W == RECEIVER_MAX_WINDOW_SIZE
             new == build_adat(m.src, next_frag[s], curr_window_size(s) - m.len)
  <2>1. /\ s = home[m.src] /\ home[m.src] # NULL
        /\ next_frag'[s] = next_frag[s] + 1 /\ m.len = P
        /\ buffer'[s] = buffer[s] \o e
        /\ \A t \in SenderIds \ {s} :
             buffer'[t] = buffer[t] /\ next_frag'[t] = next_frag[t]
        /\ e \in Seq(Nat) /\ Len(e) = P
    BY <1>8, <2>0, AcceptedIsNext
  <2>2. Len(buffer'[s]) = Len(buffer[s]) + P
    <3>1. buffer[s] \in Seq(Nat) BY DEF TypeOK, ReceiverTypeOK
    <3>2. e \in Seq(Nat) /\ Len(e) = P /\ buffer'[s] = buffer[s] \o e BY <2>1
    <3> HIDE DEF e, P
    <3>3. Len(buffer[s] \o e) = Len(buffer[s]) + Len(e) BY <3>1, <3>2, ConcatBytes
    <3> QED BY <3>2, <3>3
  <2>3. home' = home /\ toSender' \subseteq toSender \cup {new}
    BY <1>8, SendtoAdds DEF DataAccept
  <2>4. /\ new.dst = m.src /\ new.frag = next_frag[s]
        /\ new.win = W - Len(buffer[s]) - P
    BY <2>1 DEF build_adat, curr_window_size
  <2>5. P \in Nat BY NetworkAssumption
  <2> HIDE DEF new, e, P, W
  <2>6. ASSUME NEW x \in toSender', x.type = "ADAT"
        PROVE  /\ home[x.dst] # NULL
               /\ x.frag < next_frag'[home[x.dst]]
               /\ x.frag = next_frag'[home[x.dst]] - 1 =>
                    x.win <= W - Len(buffer'[home[x.dst]])
    <3>1. CASE x \in toSender /\ x.dst = m.src
      <4>1. x.frag < next_frag[s] BY <2>1, <2>6, <3>1 DEF AnswerInv
      <4> QED BY <1>0, <2>1, <3>1, <4>1
    <3>2. CASE x \in toSender /\ x.dst # m.src
      <4>1. /\ home[x.dst] # NULL
            /\ x.frag < next_frag[home[x.dst]]
            /\ x.frag = next_frag[home[x.dst]] - 1 =>
                 x.win <= W - Len(buffer[home[x.dst]])
        BY <2>6, <3>2 DEF AnswerInv, curr_window_size, W
      <4>2. home[x.dst] # s /\ home[x.dst] \in SenderIds
        BY <1>0, <2>0, <2>1, <3>2, <4>1, HomeOneToOne
      <4> QED BY <2>1, <4>1, <4>2
    <3>3. CASE x = new
      <4>1. /\ home[x.dst] = s /\ home[x.dst] # NULL /\ x.frag = next_frag[s]
            /\ x.win = W - Len(buffer[s]) - P
        BY <2>1, <2>4, <3>3
      <4>2. W \in Nat BY <1>0 DEF W
      <4> QED BY SMTT(30), <1>0, <2>1, <2>2, <2>5, <4>1, <4>2
    <3> QED BY <2>3, <3>1, <3>2, <3>3
  <2> QED BY <2>3, <2>6 DEF AnswerInv, curr_window_size, W
<1> QED
  BY StepKinds, <1>2, <1>3, <1>4, <1>5, <1>6, <1>7, <1>8 DEF TypeOK

-------------------------------------------------------------------------------
(* The theorems. *)

\* Nothing was sent and nothing is queued: ReceiverInv holds initially.
LEMMA EnvInit == Init => ReceiverInv
<1> SUFFICES ASSUME Init PROVE ReceiverInv OBVIOUS
<1> USE DEF Init, NetInit, ReceiverInit
<1>1. ReceiverTypeOK BY ReceiverTypeInit
<1>2. NetTypeOK BY DEF NetTypeOK
<1>3. QueueInv BY ReceiverQueueInit
<1>4. OwnerInv BY DEF OwnerInv, Distinct, InQueue
<1>5. CheckersOutliveOnlyClose BY DEF CheckersOutliveOnlyClose
<1>6. OnlyHomeIsServed BY DEF OnlyHomeIsServed, InQueue
<1>7. AnswerInv /\ SentInv BY DEF AnswerInv, SentInv
<1>8. \A a \in Addrs : StreamInv(a) BY DEF StreamInv
<1> QED BY <1>1, <1>2, <1>3, <1>4, <1>5, <1>6, <1>7, <1>8 DEF ReceiverInv, TypeOK

\* ReceiverInv is inductive.
LEMMA ReceiverInvHolds == Spec => []ReceiverInv
<1>1. ReceiverInv /\ [Next]_vars => SentInv'
  BY SentStep DEF ReceiverInv
<1>2. ReceiverInv /\ [Next]_vars /\ SentInv' => ReceiverInv'
  <2> SUFFICES ASSUME ReceiverInv, [Next]_vars, SentInv' PROVE ReceiverInv'
    OBVIOUS
  <2>1. TypeOK' BY EnvTypeStep DEF ReceiverInv
  <2>2. QueueInv' BY EnvQueueStep DEF ReceiverInv
  <2>3. OwnerInv' /\ CheckersOutliveOnlyClose' /\ OnlyHomeIsServed'
    BY OwnerStep, CheckerStep, HomeServedStep DEF ReceiverInv, TypeOK
  <2>4. AnswerInv' BY AnswerStep DEF ReceiverInv
  <2>5. \A a \in Addrs : StreamInv(a)' BY StreamInvStep DEF ReceiverInv
  <2> QED BY <2>1, <2>2, <2>3, <2>4, <2>5 DEF ReceiverInv
<1> QED BY EnvInit, <1>1, <1>2, PTL DEF Spec

\* The variables of the receiver and the datagrams stay in their sets.
THEOREM TypeHolds == Spec => []TypeOK
<1>1. ReceiverInv => TypeOK BY DEF ReceiverInv
<1> QED BY <1>1, ReceiverInvHolds, PTL

\* Whatever arrives in whatever order, every sender_t that mrt_receiver.c has
\* allocated is pending once, held by mrt_accept1(), or connected once.
THEOREM OneOwnerHolds == Spec => []OneOwner
<1>1. ReceiverInv => OneOwner
  <2> SUFFICES ASSUME ReceiverInv PROVE OneOwner OBVIOUS
  <2>1. ReceiverTypeOK /\ QueueInv /\ OwnerInv BY DEF ReceiverInv, TypeOK
  <2>2. Distinct(pending_senders_q) BY <2>1 DEF QueueInv, PendingInv, Distinct
  <2>3. InQueue(pending_senders_q) \cap InQueue(connected_senders_q) = {}
    BY <2>1 DEF QueueInv, PendingInv, InQueue
  <2>4. InQueue(pending_senders_q) \cup InQueue(connected_senders_q)
          \subseteq SenderIds
    BY <2>1 DEF InQueue, ReceiverTypeOK
  <2>5. accepting \notin
          InQueue(pending_senders_q) \cup InQueue(connected_senders_q)
    <3>1. CASE accepting = NULL BY <2>4, <3>1, ReceiverAssumption
    <3>2. CASE accepting # NULL BY <2>1, <3>2 DEF QueueInv, AcceptingInv, InQueue
    <3> QED BY <3>1, <3>2
  <2> QED BY <2>1, <2>2, <2>3, <2>5 DEF OneOwner, OwnerInv
<1> QED BY <1>1, ReceiverInvHolds, PTL

\* Until main_handler() frees the queues, every checker() works on an object that
\* is connected; afterwards only those are left that waited for q_lock when they
\* were cancelled.
THEOREM CheckersOutliveOnlyCloseHolds == Spec => []CheckersOutliveOnlyClose
<1>1. ReceiverInv => CheckersOutliveOnlyClose BY DEF ReceiverInv
<1> QED BY <1>1, ReceiverInvHolds, PTL

\* What mrt_receive1() has handed over and what it will find in the buffer is
\* the stream of that address from its first byte, without a gap.
THEOREM BufferIsStreamHolds == Spec => []BufferIsStream
<1>1. ReceiverInv => BufferIsStream
  <2> SUFFICES ASSUME ReceiverInv, NEW s \in SenderIds
               PROVE  /\ s \in InQueue(pending_senders_q) \cup {accepting} =>
                           buffer[s] = <<>> /\ next_frag[s] = initial_frag + 1
                      /\ s \in InQueue(connected_senders_q) /\ s = home[addr[s]] =>
                           delivered[addr[s]] \o buffer[s]
                             = [i \in 1 .. (next_frag[s] - 1) * MAX_MRT_PAYLOAD_LENGTH
                                  |-> i]
    BY DEF BufferIsStream
  <2>1. ReceiverTypeOK /\ QueueInv BY DEF ReceiverInv, TypeOK
  <2>2. ASSUME s \in InQueue(pending_senders_q) \cup {accepting} PROVE Fresh(s)
    <3>1. CASE s \in InQueue(pending_senders_q)
      BY <2>1, <3>1 DEF QueueInv, PendingInv, InQueue
    <3>2. CASE s = accepting
      BY <2>1, <3>2, ReceiverAssumption DEF QueueInv, AcceptingInv
    <3> QED BY <2>2, <3>1, <3>2
  <2>3. ASSUME s \in InQueue(connected_senders_q), s = home[addr[s]]
        PROVE  delivered[addr[s]] \o buffer[s]
                 = [i \in 1 .. (next_frag[s] - 1) * MAX_MRT_PAYLOAD_LENGTH |-> i]
    <3>1. addr[s] \in Addrs BY <2>1, <2>3 DEF QueueInv, ConnectedInv, InQueue
    <3>2. StreamInv(addr[s]) BY <3>1 DEF ReceiverInv
    <3> DEFINE d == delivered[addr[s]]
               e == buffer[s]
               K == (next_frag[s] - 1) * MAX_MRT_PAYLOAD_LENGTH
    <3>3. /\ Len(d) + Len(e) = K
          /\ \A i \in 1 .. Len(d) : d[i] = i
          /\ \A i \in 1 .. Len(e) : e[i] = Len(d) + i
      BY <2>3, <3>2, ReceiverAssumption DEF StreamInv
    <3>4. d \in Seq(Nat) /\ e \in Seq(Nat) BY <2>1, <3>1 DEF ReceiverTypeOK
    <3> HIDE DEF d, e, K
    <3>5. /\ Len(d \o e) = Len(d) + Len(e) /\ d \o e \in Seq(Nat)
          /\ \A i \in 1 .. Len(d) : (d \o e)[i] = d[i]
          /\ \A i \in 1 .. Len(e) : (d \o e)[Len(d) + i] = e[i]
      BY <3>4, ConcatBytes
    <3>6. ASSUME NEW i \in 1 .. Len(d) + Len(e) PROVE (d \o e)[i] = i
      <4>0. Len(d) \in Nat /\ Len(e) \in Nat BY <3>4
      <4>1. CASE i <= Len(d)
        <5>1. i \in 1 .. Len(d) BY <4>0, <4>1
        <5> QED BY <3>3, <3>5, <5>1
      <4>2. CASE i > Len(d)
        <5>1. i - Len(d) \in 1 .. Len(e) /\ Len(d) + (i - Len(d)) = i
          BY <4>0, <4>2
        <5>2. (d \o e)[Len(d) + (i - Len(d))] = Len(d) + (i - Len(d))
          BY <3>3, <3>5, <5>1
        <5> QED BY <5>1, <5>2
      <4> QED BY <4>0, <4>1, <4>2
    <3> DEFINE r == d \o e
    <3>7. r \in Seq(Nat) /\ Len(r) = K /\ \A i \in 1 .. K : r[i] = i
      BY <3>3, <3>5, <3>6
    <3> HIDE DEF r
    <3>8. r = [i \in 1 .. Len(r) |-> r[i]] BY <3>7
    <3>9. r = [i \in 1 .. K |-> i] BY <3>7, <3>8
    <3> QED BY <3>9 DEF d, e, r, K
  <2>4. Fresh(s) => buffer[s] = <<>> /\ next_frag[s] = initial_frag + 1
    BY DEF Fresh, initial_frag
  <2> QED BY <2>2, <2>3, <2>4
<1> QED BY <1>1, ReceiverInvHolds, PTL

\* No byte is buffered in an object that mrt_receive1() cannot find.
THEOREM OnlyHomeIsServedHolds == Spec => []OnlyHomeIsServed
<1>1. ReceiverInv => OnlyHomeIsServed BY DEF ReceiverInv
<1> QED BY <1>1, ReceiverInvHolds, PTL

\* The newest ADAT never promises more room than the buffer has left.
THEOREM AnswersAreTrueHolds == Spec => []AnswersAreTrue
<1>1. ReceiverInv => AnswersAreTrue BY DEF ReceiverInv, AnswerInv, AnswersAreTrue
<1> QED BY <1>1, ReceiverInvHolds, PTL
===============================================================================
