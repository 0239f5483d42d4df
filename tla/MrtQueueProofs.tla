------------------------------ MODULE MrtQueueProofs ------------------------------
(***************************************************************************)
(* The receiver on its own, for every value of the constants: its steps    *)
(* keep its variables well typed and preserve QueueInv.                    *)
(***************************************************************************)
EXTENDS MrtReceiverInv, TLAPS

\* sendto() adds at most the datagram it is given.
LEMMA SendtoAdds ==
  ASSUME NEW net, NEW m
  PROVE  /\ sendto(net, m) \subseteq net \cup {m}
         /\ net \subseteq sendto(net, m)
  BY DEF sendto

\* recvfrom() adds no datagram.
LEMMA RecvfromTakes ==
  ASSUME NEW net, NEW m, NEW rest \in recvfrom(net, m)
  PROVE  rest \subseteq net
  BY DEF recvfrom

\* The network stays well typed when both directions only gain well-typed
\* datagrams.
LEMMA NetTypeStep ==
  ASSUME NetTypeOK,
         toReceiver' \subseteq toReceiver \cup ToReceiverMsg,
         toSender' \subseteq toSender \cup ToSenderMsg
  PROVE  NetTypeOK'
  BY DEF NetTypeOK

\* The receive window is a positive number of bytes.
LEMMA WindowType == RECEIVER_MAX_WINDOW_SIZE \in Nat
  BY NetworkAssumption DEF RECEIVER_MAX_WINDOW_SIZE

\* A sequence of positions.
LEMMA PayloadBytesType ==
  ASSUME NEW m \in ToReceiverMsg
  PROVE  /\ payload_bytes(m) \in Seq(Nat)
         /\ Len(payload_bytes(m)) = IF m.len >= 0 THEN m.len ELSE 0
         /\ \A i \in 1 .. m.len : payload_bytes(m)[i] = m.lo + i
<1> DEFINE n == IF m.len >= 0 THEN m.len ELSE 0
<1>1. n \in Nat /\ m.len \in Int /\ m.lo \in Nat BY DEF ToReceiverMsg
<1>2. 1 .. m.len = 1 .. n BY <1>1
<1>3. payload_bytes(m) = [i \in 1 .. n |-> m.lo + i]
  BY <1>2 DEF payload_bytes
<1>4. payload_bytes(m) \in [1 .. n -> Nat] BY <1>1, <1>3
<1> HIDE DEF n
<1>5. payload_bytes(m) \in Seq(Nat) /\ Len(payload_bytes(m)) = n
  BY <1>1, <1>4
<1> QED BY <1>2, <1>3, <1>5 DEF n

\* pop_item_q() leaves a queue of the same type.
LEMMA PopType ==
  ASSUME NEW q \in Seq(SenderIds), NEW i \in DOMAIN q
  PROVE  /\ pop_item_q(q, i) \in Seq(SenderIds)
         /\ Len(pop_item_q(q, i)) = Len(q) - 1
         /\ \A j \in 1 .. Len(q) - 1 :
              pop_item_q(q, i)[j] = IF j < i THEN q[j] ELSE q[j + 1]
<1>1. i \in 1 .. Len(q) OBVIOUS
<1> DEFINE front == SubSeq(q, 1, i - 1)
           back  == SubSeq(q, i + 1, Len(q))
<1>2. /\ front \in Seq(SenderIds) /\ Len(front) = i - 1
      /\ \A j \in 1 .. i - 1 : front[j] = q[j]
  BY <1>1
<1>3. /\ back \in Seq(SenderIds) /\ Len(back) = Len(q) - i
      /\ \A j \in 1 .. Len(q) - i : back[j] = q[i + j]
  BY <1>1
<1>4. pop_item_q(q, i) = front \o back BY DEF pop_item_q
<1> HIDE DEF front, back
<1> QED BY SMTT(60), <1>1, <1>2, <1>3, <1>4

\* The initial values of the receiver are well typed.
LEMMA ReceiverTypeInit == ReceiverInit => ReceiverTypeOK
<1> SUFFICES ASSUME ReceiverInit PROVE ReceiverTypeOK OBVIOUS
<1> USE DEF ReceiverInit
<1>1. <<>> \in Seq(Nat) /\ <<>> \in Seq(SenderIds) OBVIOUS
<1>2. /\ buffer \in [SenderIds -> Seq(Nat)]
      /\ delivered \in [Addrs -> Seq(Nat)]
  BY <1>1
<1>3. /\ addr \in [SenderIds -> Addrs \cup {NULL}]
      /\ home \in [Addrs -> SenderIds \cup {NULL}]
      /\ accepting \in SenderIds \cup {NULL}
      /\ timeout_thread \in [SenderIds -> {"none", "run", "cancelled", "done"}]
  OBVIOUS
<1>4. receive_ret \in [Addrs -> Int] BY DEF NOT_RETURNED
<1>5. /\ next_frag \in [SenderIds -> Int] /\ idle_time \in [SenderIds -> Nat]
  OBVIOUS
<1>7. /\ allocated \subseteq SenderIds /\ receiving \subseteq Addrs
      /\ rece_should_close \in BOOLEAN
      /\ main_thread \in {"none", "recv", "cleanup", "done"}
  OBVIOUS
<1>6. /\ pending_senders_q \in Seq(SenderIds)
      /\ connected_senders_q \in Seq(SenderIds)
  <2>1. pending_senders_q = <<>> /\ connected_senders_q = <<>> OBVIOUS
  <2> HIDE DEF ReceiverInit
  <2> QED BY <1>1, <2>1
<1> HIDE DEF ReceiverInit
<1> QED BY <1>2, <1>3, <1>4, <1>5, <1>6, <1>7 DEF ReceiverTypeOK

\* A step of the application of the receiver keeps its variables well typed.
LEMMA AppReceiverType ==
  ASSUME ReceiverTypeOK, ReceiverAppStep
  PROVE  ReceiverTypeOK'
<1> USE DEF ReceiverTypeOK, objectVars, timeoutVars, queueVars, callVars
<1>1. CASE mrt_open BY <1>1 DEF mrt_open
<1>2. CASE accept1_deq BY <1>2 DEF accept1_deq
<1>3. CASE accept1_enq
  <2>1. connected_senders_q' \in Seq(SenderIds) BY <1>3 DEF accept1_enq, enq_q
  <2>2. home' \in {home, [home EXCEPT ![addr[accepting]] = accepting]}
    BY <1>3 DEF accept1_enq
  <2>3. timeout_thread' \in [SenderIds -> {"none", "run", "cancelled", "done"}]
    BY <1>3 DEF accept1_enq
  <2> QED BY <1>3, <2>1, <2>2, <2>3 DEF accept1_enq
<1>4. CASE mrt_close BY <1>4 DEF mrt_close
<1>5. ASSUME NEW a \in Addrs, receive1_spurious(a) \/ mrt_receive1(a) \/ receive1_dropped(a)
      PROVE  ReceiverTypeOK'
  BY <1>5 DEF receive1_spurious, mrt_receive1, receive1_dropped, NOT_RETURNED
<1>6. ASSUME NEW a \in Addrs, NEW s \in SenderIds, NEW len \in ReceiveLens,
             receive1_data(a, s, len)
      PROVE  ReceiverTypeOK'
  <2> DEFINE n == bytes_read(s, len)
  <2>1. n \in Nat /\ n <= Len(buffer[s])
    BY ReceiverAssumption DEF bytes_read
  <2>2. SubSeq(buffer[s], 1, n) \in Seq(Nat) BY SMTT(60), <2>1
  <2>3. bytes_remaining(s, n) \in Seq(Nat) BY SMTT(60), <2>1 DEF bytes_remaining
  <2>4. delivered' = [delivered EXCEPT ![a] = @ \o SubSeq(buffer[s], 1, n)]
    BY <1>6 DEF receive1_data
  <2>5. buffer' = [buffer EXCEPT ![s] = bytes_remaining(s, n)]
    BY <1>6 DEF receive1_data
  <2>6. receive_ret' = [receive_ret EXCEPT ![a] = n] BY <1>6 DEF receive1_data
  <2> HIDE DEF n
  <2>7. delivered' \in [Addrs -> Seq(Nat)] BY <2>2, <2>4
  <2>8. buffer' \in [SenderIds -> Seq(Nat)] BY <2>3, <2>5
  <2>9. receive_ret' \in [Addrs -> Int] BY <2>1, <2>6
  <2> QED BY <1>6, <2>7, <2>8, <2>9 DEF receive1_data
<1>7. ASSUME NEW a \in Addrs, NEW s \in SenderIds, receive1_timed_out(a, s)
      PROVE  ReceiverTypeOK'
  BY <1>7 DEF receive1_timed_out
<1> QED BY <1>1, <1>2, <1>3, <1>4, <1>5, <1>6, <1>7 DEF ReceiverAppStep

\* A step of main_handler() keeps the variables of the receiver well typed.
LEMMA MainReceiverType ==
  ASSUME ReceiverTypeOK, NetTypeOK, MainHandlerStep
  PROVE  ReceiverTypeOK'
<1> USE DEF ReceiverTypeOK, objectVars, timeoutVars, queueVars, callVars
<1>0. ASSUME UNCHANGED receiverVars PROVE ReceiverTypeOK'
  BY <1>0 DEF receiverVars
<1>1. ASSUME NEW m, MainBreak(m) PROVE ReceiverTypeOK'
  BY <1>1 DEF MainBreak
<1>2. ASSUME NEW m, \/ RconConnected(m) \/ RconPending(m)
                    \/ DataUnknown(m) \/ RclsUnknown(m)
      PROVE  ReceiverTypeOK'
  BY <1>0, <1>2 DEF RconConnected, RconPending, DataUnknown, RclsUnknown
<1>3. ASSUME NEW m \in toReceiver, NEW s \in SenderIds, RconNew(m, s)
      PROVE  ReceiverTypeOK'
  <2>1. m.src \in Addrs /\ m.frag \in Int BY DEF NetTypeOK, ToReceiverMsg
  <2>2. addr' \in [SenderIds -> Addrs \cup {NULL}] BY <1>3, <2>1 DEF RconNew
  <2>3. pending_senders_q' \in Seq(SenderIds) BY <1>3 DEF RconNew, enq_q
  <2>4. buffer' \in [SenderIds -> Seq(Nat)] BY <1>3 DEF RconNew
  <2>5. /\ next_frag' \in [SenderIds -> Int]
        /\ idle_time' \in [SenderIds -> Nat]
        /\ allocated' \subseteq SenderIds
        /\ timeout_thread' \in [SenderIds -> {"none", "run", "cancelled", "done"}]
    BY <1>3, <2>1 DEF RconNew
  <2> QED BY <1>3, <2>2, <2>3, <2>4, <2>5 DEF RconNew
<1>4. ASSUME NEW m \in toReceiver, NEW s \in SenderIds, DataAccept(m, s)
      PROVE  ReceiverTypeOK'
  <2>1. m \in ToReceiverMsg BY DEF NetTypeOK
  <2>2. payload_bytes(m) \in Seq(Nat) BY <2>1, PayloadBytesType
  <2>3. buffer' \in [SenderIds -> Seq(Nat)] BY <1>4, <2>2 DEF DataAccept
  <2>4. next_frag' \in [SenderIds -> Int] /\ idle_time' \in [SenderIds -> Nat]
    BY <1>4 DEF DataAccept
  <2> QED BY <1>4, <2>3, <2>4 DEF DataAccept
<1>5. ASSUME NEW m, NEW s \in SenderIds, DataReject(m, s) \/ RclsConnected(m, s)
      PROVE  ReceiverTypeOK'
  <2>1. idle_time' = [idle_time EXCEPT ![s] = 0]
          \/ idle_time' = [idle_time EXCEPT ![s] = TIMEOUT_THRESHOLD]
    BY <1>5 DEF DataReject, RclsConnected
  <2>2. /\ [idle_time EXCEPT ![s] = 0] \in [SenderIds -> Nat]
        /\ [idle_time EXCEPT ![s] = TIMEOUT_THRESHOLD] \in [SenderIds -> Nat]
    BY ReceiverAssumption
  <2>3. idle_time' \in [SenderIds -> Nat] BY <2>1, <2>2
  <2> QED BY <1>5, <2>3 DEF DataReject, RclsConnected
<1>6. ASSUME NEW m, NEW i \in DOMAIN pending_senders_q, RclsPending(m, i)
      PROVE  ReceiverTypeOK'
  BY <1>6, PopType DEF RclsPending
<1>7. CASE MainCleanup
  BY <1>7 DEF MainCleanup
<1> QED
  BY <1>1, <1>2, <1>3, <1>4, <1>5, <1>6, <1>7 DEF MainHandlerStep

\* A step of checker() keeps the variables of the receiver well typed.
LEMMA TimeoutReceiverType ==
  ASSUME ReceiverTypeOK, TimeoutStep
  PROVE  ReceiverTypeOK'
<1> USE DEF ReceiverTypeOK, objectVars, queueVars, callVars
<1>1. ASSUME NEW s \in SenderIds, TimeoutTick(s) PROVE ReceiverTypeOK'
  BY <1>1 DEF TimeoutTick
<1>2. ASSUME NEW s \in SenderIds, CancelledTick(s) PROVE ReceiverTypeOK'
  BY <1>2 DEF CancelledTick
<1> QED BY <1>1, <1>2 DEF TimeoutStep

\* What a step of the receiver puts on the network is well typed.
LEMMA ReceiverNetType ==
  ASSUME NetTypeOK, ReceiverTypeOK, AcceptingInv, ReceiverStep
  PROVE  NetTypeOK'
<1>1. ASSUME NEW m \in ToSenderMsg, toSender' = sendto(toSender, m),
             toReceiver' \subseteq toReceiver
      PROVE  NetTypeOK'
  BY <1>1, SendtoAdds, NetTypeStep
<1>2. ASSUME UNCHANGED toSender, toReceiver' \subseteq toReceiver
      PROVE  NetTypeOK'
  BY <1>2, NetTypeStep
<1>3. ASSUME NEW m, NEW type, MainReceives(m, type) \/ MainBreak(m)
      PROVE  toReceiver' \subseteq toReceiver
  BY <1>3, RecvfromTakes DEF MainReceives, MainBreak
<1>4. ASSUME NEW b \in Addrs, NEW f \in Int, NEW w \in Int
      PROVE  /\ build_acon(b, f) \in ToSenderMsg
             /\ build_adat(b, f, w) \in ToSenderMsg
             /\ build_acls(b) \in ToSenderMsg
  BY WindowType DEF build_acon, build_adat, build_acls, ToSenderMsg
<1>5. CASE ReceiverAppStep
  <2>1. CASE accept1_enq
    <3>1. addr[accepting] \in Addrs /\ next_frag[accepting] - 1 \in Int
      BY <2>1 DEF accept1_enq, AcceptingInv, Fresh, ReceiverTypeOK
    <3> QED BY <1>1, <1>4, <2>1, <3>1 DEF accept1_enq
  <2>2. CASE UNCHANGED netVars BY <1>2, <2>2 DEF netVars
  <2> QED
    BY <1>5, <2>1, <2>2
    DEF ReceiverAppStep, mrt_open, accept1_deq, mrt_close, receive1_spurious,
        mrt_receive1, receive1_data, receive1_timed_out, receive1_dropped
<1>6. CASE MainHandlerStep
  <2>1. ASSUME NEW m \in toReceiver
        PROVE  m.src \in Addrs /\ m.frag \in Int /\ m.len \in Int
    BY DEF NetTypeOK, ToReceiverMsg
  <2>2. ASSUME NEW s \in SenderIds
        PROVE  curr_window_size(s) \in Int /\ next_frag[s] \in Int
    BY WindowType DEF curr_window_size, ReceiverTypeOK
  <2>3. ASSUME NEW m, \/ MainBreak(m) \/ RconPending(m) \/ DataUnknown(m)
                      \/ RclsUnknown(m) \/ \E s \in SenderIds : RconNew(m, s)
                      \/ \E i \in DOMAIN pending_senders_q : RclsPending(m, i)
        PROVE  NetTypeOK'
    BY <1>2, <1>3, <2>3
    DEF MainBreak, RconPending, DataUnknown, RclsUnknown, RconNew, RclsPending
  <2>4. ASSUME NEW m \in toReceiver, RconConnected(m) PROVE NetTypeOK'
    BY <1>1, <1>3, <1>4, <2>1, <2>4 DEF RconConnected, duplicate_acon
  <2>5. ASSUME NEW m \in toReceiver, NEW s \in SenderIds, DataAccept(m, s)
        PROVE  NetTypeOK'
    <3>1. build_adat(m.src, next_frag[s], curr_window_size(s) - m.len) \in ToSenderMsg
      BY <1>4, <2>1, <2>2
    <3> QED BY <1>1, <1>3, <2>5, <3>1 DEF DataAccept
  <2>6. ASSUME NEW m \in toReceiver, NEW s \in SenderIds, DataReject(m, s)
        PROVE  NetTypeOK'
    <3>1. build_adat(m.src, adat_frag(s, m), curr_window_size(s)) \in ToSenderMsg
      BY <1>4, <2>1, <2>2 DEF adat_frag
    <3> QED BY <1>1, <1>3, <2>6, <3>1 DEF DataReject
  <2>7. ASSUME NEW m \in toReceiver, NEW s, RclsConnected(m, s)
        PROVE  NetTypeOK'
    BY <1>1, <1>3, <1>4, <2>1, <2>7 DEF RclsConnected
  <2>8. CASE MainCleanup BY <1>2, <2>8 DEF MainCleanup, netVars
  <2> QED
    BY <1>6, <2>3, <2>4, <2>5, <2>6, <2>7, <2>8 DEF MainHandlerStep
<1>7. CASE TimeoutStep
  BY <1>2, <1>7 DEF TimeoutStep, TimeoutTick, CancelledTick, netVars
<1> QED BY <1>5, <1>6, <1>7 DEF ReceiverStep

-------------------------------------------------------------------------------
(* The queues. *)

\* A lookup has one result.
LEMMA FoundUnique ==
  ASSUME NEW q \in Seq(SenderIds), NEW a, NEW s, NEW t,
         Found(q, a, s), Found(q, a, t)
  PROVE  s = t
<1>1. PICK i \in 1 .. Len(q) : MatchAt(q, a, i) /\ q[i] = s BY DEF Found
<1>2. PICK j \in 1 .. Len(q) : MatchAt(q, a, j) /\ q[j] = t BY DEF Found
<1>3. ~(i < j) /\ ~(j < i) BY <1>1, <1>2 DEF MatchAt
<1> QED BY <1>1, <1>2, <1>3

\* What a lookup finds is in the queue and has the address looked for.
LEMMA FoundIsThere ==
  ASSUME NEW q \in Seq(SenderIds), NEW a, NEW s, Found(q, a, s)
  PROVE  /\ s \in SenderIds /\ addr[s] = a
         /\ \E i \in DOMAIN q : q[i] = s
         /\ ~Absent(q, a)
  BY DEF Found, MatchAt, Absent

\* A lookup finds the same object when the queue grows at its end.
LEMMA FoundAfterAppend ==
  ASSUME NEW q \in Seq(SenderIds), NEW a, NEW s, NEW t \in SenderIds,
         Found(q, a, s)
  PROVE  Found(Append(q, t), a, s)
<1>1. PICK i \in 1 .. Len(q) : MatchAt(q, a, i) /\ q[i] = s BY DEF Found
<1>2. /\ i \in 1 .. Len(Append(q, t))
      /\ \A j \in 1 .. i : Append(q, t)[j] = q[j]
  OBVIOUS
<1>3. MatchAt(Append(q, t), a, i) BY <1>1, <1>2 DEF MatchAt
<1> QED BY <1>1, <1>2, <1>3 DEF Found

\* A lookup in the connected queue ends at home.
LEMMA FoundAtHome ==
  ASSUME NetTypeOK, ReceiverTypeOK, QueueInv, NEW a \in Addrs, NEW s,
         Found(connected_senders_q, a, s), main_thread # "done"
  PROVE  /\ s = home[a] /\ home[a] # NULL /\ s \in SenderIds /\ addr[s] = a
         /\ s # accepting
         /\ \A i \in DOMAIN pending_senders_q : pending_senders_q[i] # s
<1>1. connected_senders_q \in Seq(SenderIds) BY DEF ReceiverTypeOK
<1>2. ~Absent(connected_senders_q, a) BY <1>1, FoundIsThere
<1>3. HomeInv(a) BY DEF QueueInv
<1>4. home[a] # NULL BY <1>2, <1>3 DEF HomeInv
<1>5. Found(connected_senders_q, a, home[a]) BY <1>3, <1>4 DEF HomeInv
<1>6. s = home[a] BY <1>1, <1>5, FoundUnique
<1> QED BY <1>1, <1>3, <1>4, <1>6, FoundIsThere DEF HomeInv

\* Steps that leave the queues alone, and the objects nobody connected yet.
LEMMA QueueFrame ==
  ASSUME NetTypeOK, ReceiverTypeOK, QueueInv,
         UNCHANGED <<addr, queueVars, accepting, home>>,
         main_thread' \in {"none", "done"} => main_thread' = main_thread,
         main_thread = "done" => main_thread' = "done",
         \A s \in SenderIds :
           (s = accepting \/ \E i \in DOMAIN pending_senders_q :
                               pending_senders_q[i] = s)
             => buffer'[s] = buffer[s] /\ next_frag'[s] = next_frag[s],
         RconInv'
  PROVE  QueueInv'
<1> USE DEF queueVars
<1>1. PendingInv'
  BY DEF PendingInv, Fresh, QueueInv, ReceiverTypeOK
<1>2. AcceptingInv'
  BY DEF AcceptingInv, Fresh, QueueInv, ReceiverTypeOK
<1>3. ConnectedInv' /\ ThreadInv'
  BY DEF ConnectedInv, ThreadInv, QueueInv
<1>4. ASSUME NEW a \in Addrs PROVE HomeInv(a)'
  BY DEF HomeInv, QueueInv, Absent, Found, MatchAt
<1> QED BY <1>1, <1>2, <1>3, <1>4 DEF QueueInv

-------------------------------------------------------------------------------

\* accept1_deq() takes an object out of the pending queue, the others stay.
LEMMA Accept1DeqQueues ==
  ASSUME NetTypeOK, ReceiverTypeOK, QueueInv, RconInv', accept1_deq
  PROVE  QueueInv'
<1> DEFINE p == pending_senders_q
<1>1. /\ p \in Seq(SenderIds) /\ p # <<>> /\ Len(p) \in Nat
      /\ accepting' = p[1] /\ p[1] \in SenderIds
      /\ p' \in Seq(SenderIds) /\ Len(p') = Len(p) - 1
      /\ \A i \in 1 .. Len(p) - 1 : p'[i] = p[i + 1]
  BY DEF accept1_deq, ReceiverTypeOK
<1>2. UNCHANGED <<objectVars, allocated, connected_senders_q, main_thread, home>>
  BY DEF accept1_deq
<1>3. DOMAIN p = 1 .. Len(p) /\ DOMAIN p' = 1 .. Len(p) - 1 BY <1>1
<1>4. PendingInv BY DEF QueueInv
<1> HIDE DEF p
<1> USE DEF objectVars
<1>5. PendingInv'
  <2>1. ASSUME NEW i \in DOMAIN p' PROVE Fresh(p[i])'
    <3>1. i + 1 \in DOMAIN p /\ p'[i] = p[i + 1] BY <1>1, <1>3
    <3>2. Fresh(p[i + 1]) BY <1>4, <3>1 DEF PendingInv, p
    <3> QED BY <1>2, <3>1, <3>2 DEF Fresh, p
  <2>2. ASSUME NEW i \in DOMAIN p', NEW j \in DOMAIN p', p'[i] = p'[j]
        PROVE  i = j
    <3>1. i + 1 \in DOMAIN p /\ j + 1 \in DOMAIN p /\ p[i + 1] = p[j + 1]
      BY <1>1, <1>3, <2>2
    <3> QED BY <1>4, <3>1, <1>3 DEF PendingInv, p
  <2>3. ASSUME NEW i \in DOMAIN p', NEW j \in DOMAIN connected_senders_q
        PROVE  p'[i] # connected_senders_q[j]
    BY <1>1, <1>3, <1>4 DEF PendingInv, p
  <2> QED BY <1>2, <2>1, <2>2, <2>3 DEF PendingInv, p
<1>6. AcceptingInv'
  <2>1. 1 \in DOMAIN p BY <1>1, <1>3
  <2>2. Fresh(accepting)' BY <1>1, <1>2, <1>4, <2>1 DEF PendingInv, Fresh, p
  <2>3. ASSUME NEW i \in DOMAIN p' PROVE p'[i] # p[1]
    <3>1. i + 1 \in DOMAIN p /\ p'[i] = p[i + 1] /\ i + 1 # 1 BY <1>1, <1>3
    <3> QED BY <1>4, <2>1, <3>1 DEF PendingInv, p
  <2> QED BY <1>1, <1>2, <1>4, <2>1, <2>2, <2>3 DEF AcceptingInv, PendingInv, p
<1>7. ConnectedInv' /\ ThreadInv'
  BY <1>2 DEF ConnectedInv, ThreadInv, QueueInv
<1>8. ASSUME NEW a \in Addrs PROVE HomeInv(a)'
  <2>1. HomeInv(a) BY DEF QueueInv
  <2>2. home[a] # NULL =>
          p[1] # home[a] /\ \A i \in DOMAIN p' : p'[i] # home[a]
    BY SMTT(60), <1>1, <1>3, <2>1 DEF HomeInv, p
  <2> QED BY <1>1, <1>2, <2>1, <2>2 DEF HomeInv, Absent, Found, MatchAt, p
<1> QED BY <1>5, <1>6, <1>7, <1>8 DEF QueueInv

\* accept1_enq() appends the object accepted; it becomes the home of its address
\* when no connected object has that address.
LEMMA Accept1EnqQueues ==
  ASSUME NetTypeOK, ReceiverTypeOK, QueueInv, RconInv', accept1_enq
  PROVE  QueueInv'
<1> DEFINE c == connected_senders_q
           s == accepting
<1>1. /\ s \in SenderIds /\ s # NULL /\ accepting' = NULL
      /\ c \in Seq(SenderIds) /\ c' = Append(c, s)
      /\ main_thread \notin {"none", "done"}
  BY DEF accept1_enq, enq_q, QueuesExist, ReceiverTypeOK
<1>2. UNCHANGED <<objectVars, allocated, pending_senders_q, main_thread>>
  BY DEF accept1_enq
<1>3. /\ DOMAIN c' = 1 .. Len(c) + 1 /\ DOMAIN c = 1 .. Len(c)
      /\ \A i \in 1 .. Len(c) : c'[i] = c[i]
      /\ c'[Len(c) + 1] = s
      /\ Len(c) \in Nat
  BY <1>1
<1>4. /\ Fresh(s)
      /\ \A i \in DOMAIN pending_senders_q : pending_senders_q[i] # s
      /\ \A j \in DOMAIN c : c[j] # s
  BY <1>1 DEF QueueInv, AcceptingInv
<1>5. \/ Absent(c, addr[s]) /\ home' = [home EXCEPT ![addr[s]] = s]
      \/ ~Absent(c, addr[s]) /\ home' = home
  BY DEF accept1_enq
<1> HIDE DEF c, s
<1> USE DEF objectVars
<1>6. PendingInv'
  BY <1>2, <1>3, <1>4 DEF PendingInv, Fresh, QueueInv, c
<1>7. AcceptingInv' BY <1>1 DEF AcceptingInv
<1>8. ConnectedInv' /\ ThreadInv'
  BY <1>1, <1>2, <1>3, <1>4 DEF ConnectedInv, Fresh, ThreadInv, QueueInv, c
<1>9. ASSUME NEW a \in Addrs PROVE HomeInv(a)'
  <2>0. HomeInv(a) /\ home \in [Addrs -> SenderIds \cup {NULL}]
    BY DEF QueueInv, ReceiverTypeOK
  <2>1. ASSUME NEW t, Found(c, a, t) PROVE Found(connected_senders_q, a, t)'
    <3>1. Found(Append(c, s), a, t) BY <1>1, <2>1, FoundAfterAppend
    <3> QED BY <1>1, <1>2, <3>1 DEF Found, MatchAt, c
  <2>2. CASE addr[s] # a
    <3>1. home'[a] = home[a] BY <1>5, <2>0, <2>2
    <3>2. CASE home[a] = NULL
      <4>1. Absent(connected_senders_q, a)'
        BY <1>2, <1>3, <2>0, <2>2, <3>2 DEF HomeInv, Absent, c
      <4> QED BY <3>1, <3>2, <4>1 DEF HomeInv
    <3>3. CASE home[a] # NULL
      BY <1>1, <1>2, <2>0, <2>1, <3>1, <3>3 DEF HomeInv, c
    <3> QED BY <3>2, <3>3
  <2>3. CASE addr[s] = a /\ Absent(c, a)
    <3>1. home'[a] = s BY <1>5, <2>0, <2>3
    <3> PICK n : n = Len(c) + 1 OBVIOUS
    <3>2. MatchAt(connected_senders_q, a, n)'
      BY <1>2, <1>3, <2>3 DEF MatchAt, Absent, c
    <3>3. Found(connected_senders_q, a, home[a])'
      BY <1>3, <3>1, <3>2 DEF Found, c
    <3> QED BY <1>1, <1>2, <1>4, <2>3, <3>1, <3>3 DEF HomeInv, s
  <2>4. CASE addr[s] = a /\ ~Absent(c, a)
    <3>1. home' = home /\ home[a] # NULL BY <1>5, <2>0, <2>4 DEF HomeInv, c
    <3> QED BY <1>1, <1>2, <2>0, <2>1, <3>1 DEF HomeInv, c
  <2> QED BY <2>2, <2>3, <2>4
<1> QED BY <1>6, <1>7, <1>8, <1>9 DEF QueueInv

\* RconNew() appends a fresh object, one that no queue held.
LEMMA RconNewQueues ==
  ASSUME NetTypeOK, ReceiverTypeOK, QueueInv, RconInv', NEW m \in toReceiver, NEW s \in SenderIds,
         RconNew(m, s)
  PROVE  QueueInv'
<1> DEFINE p == pending_senders_q
           c == connected_senders_q
<1>1. /\ main_thread = "recv" /\ s \notin allocated
      /\ allocated' = allocated \cup {s}
      /\ p \in Seq(SenderIds) /\ p' = Append(p, s)
      /\ UNCHANGED <<c, main_thread, accepting, home>>
  BY DEF RconNew, MainReceives, enq_q, ReceiverTypeOK
<1>2. /\ addr'[s] = m.src /\ buffer'[s] = <<>> /\ next_frag'[s] = m.frag + 1
      /\ \A t \in SenderIds \ {s} :
           /\ addr'[t] = addr[t] /\ buffer'[t] = buffer[t]
           /\ next_frag'[t] = next_frag[t]
  BY DEF RconNew, ReceiverTypeOK
<1>3. m.src \in Addrs /\ m.frag = 0
  BY DEF RconNew, MainReceives, QueueInv, RconInv, NetTypeOK, ToReceiverMsg
<1>4. /\ DOMAIN p' = 1 .. Len(p) + 1 /\ DOMAIN p = 1 .. Len(p)
      /\ \A i \in 1 .. Len(p) : p'[i] = p[i]
      /\ p'[Len(p) + 1] = s
      /\ Len(p) \in Nat
  BY <1>1
<1>5. /\ accepting # s
      /\ \A i \in DOMAIN p : p[i] # s /\ p[i] \in SenderIds
      /\ \A j \in DOMAIN c : c[j] # s /\ c[j] \in SenderIds
  BY <1>1, ReceiverAssumption
  DEF QueueInv, PendingInv, AcceptingInv, ConnectedInv, Fresh, ReceiverTypeOK
<1> HIDE DEF p, c
<1>6. PendingInv'
  <2>1. ASSUME NEW i \in DOMAIN p' PROVE Fresh(p[i])'
    <3>1. CASE i = Len(p) + 1
      BY <1>1, <1>2, <1>3, <1>4, <3>1 DEF Fresh
    <3>2. CASE i \in DOMAIN p
      BY <1>1, <1>2, <1>4, <1>5, <3>2 DEF Fresh, QueueInv, PendingInv, p
    <3> QED BY <1>4, <3>1, <3>2
  <2>2. ASSUME NEW i \in DOMAIN p', NEW j \in DOMAIN p', p'[i] = p'[j]
        PROVE  i = j
    BY <1>4, <1>5, <2>2 DEF QueueInv, PendingInv, p
  <2>3. ASSUME NEW i \in DOMAIN p', NEW j \in DOMAIN c PROVE p'[i] # c[j]
    BY <1>4, <1>5 DEF QueueInv, PendingInv, p, c
  <2> QED BY <1>1, <2>1, <2>2, <2>3 DEF PendingInv, p, c
<1>7. AcceptingInv'
  <2> SUFFICES ASSUME accepting # NULL PROVE AcceptingInv'
    BY <1>1 DEF AcceptingInv
  <2>0. AcceptingInv /\ accepting \in SenderIds
    BY DEF QueueInv, ReceiverTypeOK
  <2>1. Fresh(accepting)' BY <1>1, <1>2, <1>5, <2>0 DEF AcceptingInv, Fresh
  <2>2. \A i \in DOMAIN p' : p'[i] # accepting
    BY <1>4, <1>5, <2>0 DEF AcceptingInv, p
  <2> QED BY <1>1, <2>0, <2>1, <2>2 DEF AcceptingInv, p, c
<1>8. ConnectedInv' /\ ThreadInv'
  BY <1>1, <1>2, <1>5 DEF ConnectedInv, ThreadInv, QueueInv, c
<1>9. ASSUME NEW a \in Addrs PROVE HomeInv(a)'
  <2>0. HomeInv(a) BY DEF QueueInv
  <2>1. CASE home[a] = NULL
    BY <1>1, <1>2, <1>5, <2>0, <2>1 DEF HomeInv, Absent, c
  <2>2. CASE home[a] # NULL
    <3>1. Found(c, a, home[a]) BY <1>1, <2>0, <2>2 DEF HomeInv, c
    <3>2. PICK i \in DOMAIN c : c[i] = home[a] BY <3>1 DEF Found
    <3>3. home[a] # s /\ home[a] \in SenderIds BY <1>5, <3>2
    <3>4. addr'[home[a]] = a BY <1>2, <2>0, <2>2, <3>3 DEF HomeInv
    <3>5. \A j \in DOMAIN c : addr'[c[j]] = addr[c[j]] BY <1>2, <1>5
    <3>6. c \in Seq(SenderIds) BY DEF c, ReceiverTypeOK
    <3>7. Found(c, a, home[a])'
      <4>1. PICK k \in DOMAIN c : MatchAt(c, a, k) /\ c[k] = home[a]
        BY <3>1 DEF Found
      <4>2. \A j \in 1 .. k - 1 : j \in DOMAIN c BY <3>6
      <4>3. MatchAt(c, a, k)' BY <1>1, <3>5, <4>1, <4>2 DEF MatchAt
      <4> QED BY <1>1, <4>1, <4>3 DEF Found
    <3>8. \A j \in DOMAIN p' : p'[j] # home[a]
      BY <1>4, <2>0, <2>2, <3>3 DEF HomeInv, p
    <3> QED BY <1>1, <2>0, <2>2, <3>4, <3>7, <3>8 DEF HomeInv, p, c
  <2> QED BY <2>1, <2>2
<1> QED BY <1>6, <1>7, <1>8, <1>9 DEF QueueInv

\* RclsPending() unlinks and frees one pending object, the others stay.
LEMMA RclsPendingQueues ==
  ASSUME NetTypeOK, ReceiverTypeOK, QueueInv, RconInv', NEW m, NEW i \in DOMAIN pending_senders_q,
         RclsPending(m, i)
  PROVE  QueueInv'
<1> DEFINE p == pending_senders_q
<1>1. /\ p \in Seq(SenderIds) /\ p' = pop_item_q(p, i)
      /\ allocated' = allocated \ {p[i]}
      /\ UNCHANGED <<objectVars, connected_senders_q, main_thread, accepting, home>>
  BY DEF RclsPending, ReceiverTypeOK
<1>2. /\ Len(p') = Len(p) - 1 /\ p' \in Seq(SenderIds)
      /\ \A j \in 1 .. Len(p) - 1 : p'[j] = IF j < i THEN p[j] ELSE p[j + 1]
  BY <1>1, PopType
<1>3. i \in 1 .. Len(p) /\ DOMAIN p' = 1 .. Len(p) - 1 /\ DOMAIN p = 1 .. Len(p)
  BY <1>1, <1>2
<1>4. PendingInv BY DEF QueueInv
<1> HIDE DEF p
<1> USE DEF objectVars
<1>5. ASSUME NEW j \in DOMAIN p'
      PROVE  \E k \in DOMAIN p :
               p'[j] = p[k] /\ k # i /\ k = (IF j < i THEN j ELSE j + 1)
  BY <1>2, <1>3
<1>6. PendingInv'
  <2>1. ASSUME NEW j \in DOMAIN p' PROVE Fresh(p[j])'
    <3>1. PICK k \in DOMAIN p : p'[j] = p[k] /\ k # i BY <1>5
    <3>2. Fresh(p[k]) /\ p[k] # p[i] BY <1>3, <1>4, <3>1 DEF PendingInv, p
    <3> QED BY <1>1, <3>1, <3>2 DEF Fresh
  <2>2. ASSUME NEW j \in DOMAIN p', NEW k \in DOMAIN p', p'[j] = p'[k]
        PROVE  j = k
    <3>1. PICK jj \in DOMAIN p : p'[j] = p[jj] /\ jj = (IF j < i THEN j ELSE j + 1)
      BY <1>5
    <3>2. PICK kk \in DOMAIN p : p'[k] = p[kk] /\ kk = (IF k < i THEN k ELSE k + 1)
      BY <1>5
    <3>3. jj = kk BY <1>4, <2>2, <3>1, <3>2 DEF PendingInv, p
    <3> QED BY <1>3, <3>1, <3>2, <3>3
  <2>3. ASSUME NEW j \in DOMAIN p', NEW k \in DOMAIN connected_senders_q
        PROVE  p'[j] # connected_senders_q[k]
    BY <1>4, <1>5 DEF PendingInv, p
  <2> QED BY <1>1, <2>1, <2>2, <2>3 DEF PendingInv, p
<1>7. AcceptingInv'
  <2> SUFFICES ASSUME accepting # NULL PROVE AcceptingInv'
    BY <1>1 DEF AcceptingInv
  <2>0. AcceptingInv BY DEF QueueInv
  <2>1. Fresh(accepting)' BY <1>1, <1>3, <2>0 DEF AcceptingInv, Fresh, p
  <2>2. \A j \in DOMAIN p' : p'[j] # accepting
    BY <1>5, <2>0 DEF AcceptingInv, p
  <2> QED BY <1>1, <2>0, <2>1, <2>2 DEF AcceptingInv, p
<1>8. ConnectedInv' /\ ThreadInv'
  BY <1>1, <1>3, <1>4 DEF ConnectedInv, ThreadInv, QueueInv, PendingInv, p
<1>9. ASSUME NEW a \in Addrs PROVE HomeInv(a)'
  BY <1>1, <1>5 DEF QueueInv, HomeInv, Absent, Found, MatchAt, p
<1> QED BY <1>6, <1>7, <1>8, <1>9 DEF QueueInv

\* MainCleanup() empties both queues; an accept under way keeps its object.
LEMMA MainCleanupQueues ==
  ASSUME NetTypeOK, ReceiverTypeOK, QueueInv, RconInv', MainCleanup
  PROVE  QueueInv'
<1>1. /\ pending_senders_q' = <<>> /\ connected_senders_q' = <<>>
      /\ main_thread' = "done"
      /\ UNCHANGED <<objectVars, accepting, home>>
      /\ allocated' = (allocated \ InQueue(pending_senders_q))
                         \ InQueue(connected_senders_q)
  BY DEF MainCleanup
<1>2. PendingInv' /\ ConnectedInv' /\ ThreadInv'
  BY <1>1 DEF PendingInv, ConnectedInv, ThreadInv
<1>3. AcceptingInv'
  BY <1>1 DEF QueueInv, AcceptingInv, Fresh, InQueue, objectVars
<1>4. ASSUME NEW a \in Addrs PROVE HomeInv(a)'
  BY <1>1 DEF QueueInv, HomeInv, Absent, objectVars
<1> QED BY <1>2, <1>3, <1>4 DEF QueueInv

\* Steps of the receiver that touch neither queue.
LEMMA QuietQueues ==
  ASSUME NetTypeOK, ReceiverTypeOK, QueueInv, RconInv',
         UNCHANGED <<queueVars, accepting, home, addr>>,
         \/ UNCHANGED <<buffer, next_frag>> /\ main_thread' = main_thread
         \/ mrt_open
         \/ \E m \in toReceiver : MainBreak(m)
         \/ \E m \in toReceiver, s \in SenderIds : DataAccept(m, s)
         \/ \E a \in Addrs, s \in SenderIds, len \in ReceiveLens :
              receive1_data(a, s, len)
  PROVE  QueueInv'
<1>1. CASE UNCHANGED <<buffer, next_frag>> /\ main_thread' = main_thread
  BY <1>1, QueueFrame
<1>2. CASE mrt_open BY <1>2, QueueFrame DEF mrt_open, objectVars
<1>3. CASE \E m \in toReceiver : MainBreak(m)
  <2>1. UNCHANGED objectVars /\ main_thread = "recv" /\ main_thread' = "cleanup"
    BY <1>3 DEF MainBreak
  <2> QED BY <2>1, QueueFrame DEF objectVars
<1>4. ASSUME NEW a \in Addrs, NEW s \in SenderIds,
             Found(connected_senders_q, a, s), main_thread # "done",
             main_thread' = main_thread,
             \A t \in SenderIds \ {s} :
               buffer'[t] = buffer[t] /\ next_frag'[t] = next_frag[t]
      PROVE  QueueInv'
  <2>1. s # accepting /\ \A i \in DOMAIN pending_senders_q :
                           pending_senders_q[i] # s
    BY <1>4, FoundAtHome
  <2> QED BY <1>4, <2>1, QueueFrame
<1>5. ASSUME NEW m \in toReceiver, NEW s \in SenderIds, DataAccept(m, s)
      PROVE  QueueInv'
  <2>1. m.src \in Addrs BY DEF NetTypeOK, ToReceiverMsg
  <2>2. /\ Found(connected_senders_q, m.src, s)
        /\ main_thread = "recv" /\ main_thread' = main_thread
        /\ \A t \in SenderIds \ {s} :
             buffer'[t] = buffer[t] /\ next_frag'[t] = next_frag[t]
    BY <1>5 DEF DataAccept, MainReceives, ReceiverTypeOK
  <2> QED BY <1>4, <2>1, <2>2
<1>6. ASSUME NEW a \in Addrs, NEW s \in SenderIds, NEW len \in ReceiveLens,
             receive1_data(a, s, len)
      PROVE  QueueInv'
  <2>1. /\ Found(connected_senders_q, a, s)
        /\ main_thread # "done" /\ main_thread' = main_thread
        /\ \A t \in SenderIds \ {s} :
             buffer'[t] = buffer[t] /\ next_frag'[t] = next_frag[t]
    BY <1>6 DEF receive1_data, QueuesExist, ReceiverTypeOK
  <2> QED BY <1>4, <2>1
<1> QED BY <1>1, <1>2, <1>3, <1>5, <1>6

\* Every step keeps the queues in order.
LEMMA ReceiverQueueStep ==
  ASSUME NetTypeOK, ReceiverTypeOK, QueueInv, RconInv',
         ReceiverStep \/ UNCHANGED receiverVars
  PROVE  QueueInv'
<1> USE DEF objectVars
<1>1. ASSUME UNCHANGED receiverVars PROVE QueueInv'
  BY <1>1, QuietQueues DEF receiverVars, queueVars
<1>2. CASE ReceiverAppStep
  <2>1. CASE accept1_deq BY <2>1, Accept1DeqQueues
  <2>2. CASE accept1_enq BY <2>2, Accept1EnqQueues
  <2>3. CASE mrt_open BY <2>3, QuietQueues DEF mrt_open
  <2>4. CASE mrt_close BY <2>4, QuietQueues DEF mrt_close
  <2>5. ASSUME NEW a \in Addrs, receive1_spurious(a) \/ mrt_receive1(a) \/ receive1_dropped(a)
        PROVE  QueueInv'
    BY <2>5, QuietQueues DEF receive1_spurious, mrt_receive1, receive1_dropped
  <2>6. ASSUME NEW a \in Addrs, NEW s \in SenderIds, receive1_timed_out(a, s)
        PROVE  QueueInv'
    BY <2>6, QuietQueues DEF receive1_timed_out
  <2>7. ASSUME NEW a \in Addrs, NEW s \in SenderIds, NEW len \in ReceiveLens,
               receive1_data(a, s, len)
        PROVE  QueueInv'
    BY <2>7, QuietQueues DEF receive1_data
  <2> QED
    BY <1>2, <2>1, <2>2, <2>3, <2>4, <2>5, <2>6, <2>7 DEF ReceiverAppStep
<1>3. CASE MainHandlerStep
  <2>1. ASSUME NEW m \in toReceiver, MainBreak(m) PROVE QueueInv'
    BY <2>1, QuietQueues DEF MainBreak
  <2>2. ASSUME NEW m, \/ RconConnected(m) \/ RconPending(m)
                      \/ DataUnknown(m) \/ RclsUnknown(m)
        PROVE  QueueInv'
    BY <1>1, <2>2 DEF RconConnected, RconPending, DataUnknown, RclsUnknown
  <2>3. ASSUME NEW m \in toReceiver, NEW s \in SenderIds, RconNew(m, s)
        PROVE  QueueInv'
    BY <2>3, RconNewQueues
  <2>4. ASSUME NEW m \in toReceiver, NEW s \in SenderIds, DataAccept(m, s)
        PROVE  QueueInv'
    BY <2>4, QuietQueues DEF DataAccept
  <2>5. ASSUME NEW m, NEW s, DataReject(m, s) \/ RclsConnected(m, s)
        PROVE  QueueInv'
    BY <2>5, QuietQueues DEF DataReject, RclsConnected
  <2>6. ASSUME NEW m, NEW i \in DOMAIN pending_senders_q, RclsPending(m, i)
        PROVE  QueueInv'
    BY <2>6, RclsPendingQueues
  <2>7. CASE MainCleanup BY <2>7, MainCleanupQueues
  <2> QED
    BY <1>3, <2>1, <2>2, <2>3, <2>4, <2>5, <2>6, <2>7 DEF MainHandlerStep
<1>4. CASE TimeoutStep
  BY <1>4, QuietQueues DEF TimeoutStep, TimeoutTick, CancelledTick
<1> QED
  BY <1>1, <1>2, <1>3, <1>4 DEF ReceiverStep

\* Both queues are empty at the start.
LEMMA ReceiverQueueInit == NetInit /\ ReceiverInit => QueueInv
  BY DEF NetInit, ReceiverInit, QueueInv, PendingInv, AcceptingInv,
         ConnectedInv, ThreadInv, RconInv, HomeInv, Absent

\* home is a one-to-one map.
LEMMA HomeOneToOne ==
  ASSUME QueueInv, NEW a \in Addrs, NEW b \in Addrs, a # b, home[a] # NULL
  PROVE  home[b] # home[a]
  BY DEF QueueInv, HomeInv

\* A new sender_t is none that is connected.
LEMMA NewIsNotHome ==
  ASSUME QueueInv, NEW m, NEW s \in SenderIds, RconNew(m, s),
         NEW b \in Addrs
  PROVE  home[b] # s
<1>1. main_thread = "recv" /\ s \notin allocated BY DEF RconNew, MainReceives
<1>2. CASE home[b] = NULL BY <1>2, ReceiverAssumption
<1>3. CASE home[b] # NULL
  <2>1. Found(connected_senders_q, b, home[b])
    BY <1>1, <1>3 DEF QueueInv, HomeInv
  <2>2. home[b] \in allocated BY <2>1 DEF Found, QueueInv, ConnectedInv
  <2> QED BY <1>1, <2>2
<1> QED BY <1>2, <1>3

\* Concatenation, element by element.
LEMMA ConcatBytes ==
  ASSUME NEW d \in Seq(Nat), NEW e \in Seq(Nat)
  PROVE  /\ Len(d \o e) = Len(d) + Len(e)
         /\ \A i \in 1 .. Len(d) : (d \o e)[i] = d[i]
         /\ \A i \in 1 .. Len(e) : (d \o e)[Len(d) + i] = e[i]
<1>1. \A i \in 1 .. Len(d) + Len(e) :
        (d \o e)[i] = IF i <= Len(d) THEN d[i] ELSE e[i - Len(d)]
  OBVIOUS
<1>2. ASSUME NEW i \in 1 .. Len(e) PROVE (d \o e)[Len(d) + i] = e[i]
  <2>1. /\ Len(d) + i \in 1 .. Len(d) + Len(e) /\ ~(Len(d) + i <= Len(d))
        /\ Len(d) + i - Len(d) = i
    OBVIOUS
  <2> QED BY <1>1, <2>1
<1>3. Len(d \o e) = Len(d) + Len(e) OBVIOUS
<1>4. \A i \in 1 .. Len(d) : (d \o e)[i] = d[i] OBVIOUS
<1> QED BY <1>2, <1>3, <1>4
===============================================================================
