------------------------------- MODULE MrtProofs -------------------------------
(***************************************************************************)
(* The safety properties of Mrt, for every value of the constants: the     *)
(* inductive invariant IInv holds initially, is preserved by every step,   *)
(* and implies them.                                                       *)
(***************************************************************************)
EXTENDS MrtStreamProofs

(* The initial states. *)

\* The initial values are well typed, the ends of every stream are empty.
LEMMA IInvInit == Init => IInv
<1> SUFFICES ASSUME Init PROVE IInv OBVIOUS
<1> USE DEF Init, NetInit, SenderInit, ReceiverInit
<1>1. TypeOK
  <2>1. NetTypeOK BY DEF NetTypeOK
  <2>2. SenderTypeOK BY DEF SenderTypeOK, SenderPC, NO_RESULT
  <2>3. ReceiverTypeOK BY ReceiverTypeInit
  <2> QED BY <2>1, <2>2, <2>3 DEF TypeOK
<1>2. QueueInv BY QueueInit
<1>3. ASSUME NEW a \in Addrs PROVE AddrInv(a) /\ OrderInv(a)
  <2>1. /\ Base(a) = 0 /\ Taken(a) = 0 /\ Received(a) = 0
        /\ sender_buffer[a] = <<>> /\ written[a] = 0 /\ delivered[a] = <<>>
        /\ home[a] = NULL /\ pc[a] = "start" /\ toReceiver = {} /\ toSender = {}
        /\ Len(sender_buffer[a]) = 0
    BY DEF Base, Taken, Received
  <2>2. StartedInv(a) BY DEF StartedInv
  <2>3. BufferInv(a) /\ OrderInv(a)
    BY <2>1, SenderAssumption DEF BufferInv, OrderInv
  <2>4. PositionInv(a) BY <2>1 DEF PositionInv
  <2>5. ContentInv(a) BY <2>1 DEF ContentInv
  <2>6. FlightInv(a) BY <2>1 DEF FlightInv
  <2>7. SendInv(a) BY <2>1 DEF SendInv
  <2>8. CloseInv(a) BY <2>1 DEF CloseInv
  <2> QED
    BY <2>2, <2>3, <2>4, <2>5, <2>6, <2>7, <2>8 DEF AddrInv, EndsInv
<1>4. WindowNotOverrun BY WindowType DEF WindowNotOverrun
<1> QED BY <1>1, <1>2, <1>3, <1>4 DEF IInv, StreamInv, AddrInv

-------------------------------------------------------------------------------
(* Every step preserves the invariant. *)

\* The variables stay in their types.
LEMMA TypeStep ==
  ASSUME IInv, [Next]_vars
  PROVE  TypeOK'
<1>0. /\ TypeOK /\ NetTypeOK /\ SenderTypeOK /\ ReceiverTypeOK /\ AcceptingInv
      /\ \A a \in Addrs : StartedInv(a) /\ BufferInv(a) /\ SendInv(a)
  BY DEF IInv, TypeOK, QueueInv, StreamInv, EndsInv
<1>1. ASSUME NEW a \in Addrs, SenderStep(a), UNCHANGED receiverVars
      PROVE  TypeOK'
  <2>1. NetTypeOK' BY <1>0, <1>1, SenderNetType
  <2>2. SenderTypeOK'
    BY <1>0, <1>1, AppSenderType, HandlerSenderType, ThreadSenderType
    DEF SenderStep
  <2>3. ReceiverTypeOK' BY <1>0, <1>1 DEF receiverVars, ReceiverTypeOK
  <2> QED BY <2>1, <2>2, <2>3 DEF TypeOK
<1>2. ASSUME ReceiverStep, UNCHANGED senderVars PROVE TypeOK'
  <2>1. NetTypeOK' BY <1>0, <1>2, ReceiverNetType
  <2>2. ReceiverTypeOK'
    BY <1>0, <1>2, AppReceiverType, MainReceiverType, TimeoutReceiverType
    DEF ReceiverStep
  <2>3. SenderTypeOK' BY <1>0, <1>2 DEF senderVars, SenderTypeOK
  <2> QED BY <2>1, <2>2, <2>3 DEF TypeOK
<1>3. ASSUME NetLose \/ UNCHANGED netVars, UNCHANGED <<senderVars, receiverVars>>
      PROVE  TypeOK'
  <2>1. NetTypeOK'
    BY <1>0, <1>3
    DEF NetLose, NetLoseToReceiver, NetLoseToSender, netVars, NetTypeOK
  <2>2. SenderTypeOK' BY <1>0, <1>3 DEF senderVars, SenderTypeOK
  <2>3. ReceiverTypeOK' BY <1>0, <1>3 DEF receiverVars, ReceiverTypeOK
  <2> QED BY <2>1, <2>2, <2>3 DEF TypeOK
<1> QED BY <1>1, <1>2, <1>3 DEF Next, vars

\* A lost datagram, or nothing at all, changes no stream.
LEMMA LossStream ==
  ASSUME NEW b \in Addrs, AddrInv(b), NetLose \/ UNCHANGED netVars,
         UNCHANGED <<senderVars, receiverVars>>
  PROVE  AddrInv(b)'
<1>1. toReceiver' \subseteq toReceiver /\ toSender' \subseteq toSender
  BY DEF NetLose, NetLoseToReceiver, NetLoseToSender, netVars
<1>2. SameCall(b) /\ SameThreads(b) BY ReceiverSameCall
<1>3. SameEnds(b) BY DEF SameEnds, senderVars, receiverVars
<1> QED BY <1>1, <1>2, <1>3, FlightOfRecvfrom, OtherAddress

\* The streams stay consistent at both ends and in flight.
LEMMA StreamStep ==
  ASSUME IInv, [Next]_vars
  PROVE  StreamInv'
<1>0. TypeOK /\ QueueInv /\ \A a \in Addrs : AddrInv(a)
  BY DEF IInv, StreamInv, AddrInv
<1>1. ASSUME NEW b \in Addrs PROVE AddrInv(b)'
  <2>1. ASSUME NEW a \in Addrs, SenderStep(a), UNCHANGED receiverVars
        PROVE  AddrInv(b)'
    BY <1>0, <1>1, <2>1, SenderStream
  <2>2. ASSUME ReceiverStep, UNCHANGED senderVars PROVE AddrInv(b)'
    BY <1>0, <1>1, <2>2, ReceiverStream
  <2>3. ASSUME NetLose \/ UNCHANGED netVars, UNCHANGED <<senderVars, receiverVars>>
        PROVE  AddrInv(b)'
    BY <1>0, <1>1, <2>3, LossStream
  <2> QED BY <2>1, <2>2, <2>3 DEF Next, vars
<1> QED BY <1>1 DEF StreamInv, AddrInv

\* The payloads held stay in the order they were written.
LEMMA OrderStep ==
  ASSUME IInv, [Next]_vars, NEW b \in Addrs
  PROVE  OrderInv(b)'
<1>0. TypeOK /\ AddrInv(b) /\ OrderInv(b) BY DEF IInv, StreamInv, AddrInv
<1>1. ASSUME sender_buffer'[b] = sender_buffer[b], written'[b] = written[b]
      PROVE  OrderInv(b)'
  BY <1>0, <1>1 DEF OrderInv
<1>2. CASE UNCHANGED senderVars BY <1>1, <1>2 DEF senderVars
<1>3. ASSUME NEW a \in Addrs, SenderStep(a), UNCHANGED receiverVars
      PROVE  OrderInv(b)'
  <2>1. CASE a # b
    BY <1>0, <1>1, <1>3, <2>1, SenderStepOther DEF SameEnds
  <2>2. CASE AppControl(b) BY <1>0, <1>1, <1>3, <2>2, AppSameEnds DEF SameEnds
  <2>3. CASE send_copy(b)
    <3>1. PICK n, k : n = Len(sender_buffer[b]) /\ k = num_bytes_to_copy(b)
      OBVIOUS
    <3>2. /\ n \in Nat /\ k \in Nat /\ written[b] \in Nat
          /\ Len(sender_buffer'[b]) = n + 1
          /\ \A i \in 1 .. n : sender_buffer'[b][i] = sender_buffer[b][i]
          /\ sender_buffer'[b][n + 1] = [lo |-> written[b], len |-> k]
          /\ written'[b] = written[b] + k
      BY <1>0, <1>3, <2>3, <3>1, CopyEffect
    <3>3. \A i \in 1 .. n : /\ sender_buffer[b][i].lo \in Nat
                            /\ sender_buffer[b][i].len \in Nat
      <4>1. sender_buffer[b] \in Seq(Payload) BY <1>0 DEF TypeOK, SenderTypeOK
      <4>2. \A i \in 1 .. n : sender_buffer[b][i] \in Payload BY <3>1, <4>1
      <4> QED BY <4>2 DEF Payload
    <3>4. ASSUME NEW i \in 1 .. n + 1
          PROVE  /\ sender_buffer'[b][i].lo + sender_buffer'[b][i].len <= written'[b]
                 /\ \A j \in 1 .. i - 1 :
                      sender_buffer'[b][j].lo <= sender_buffer'[b][i].lo
      <4>1. \A j \in 1 .. n :
              sender_buffer[b][j].lo + sender_buffer[b][j].len <= written[b]
        BY <1>0, <3>1 DEF OrderInv
      <4>2. CASE i \in 1 .. n
        <5>1. i \in Nat /\ \A j \in 1 .. i - 1 : j \in 1 .. n BY <3>2, <4>2
        <5>2. sender_buffer'[b][i].lo + sender_buffer'[b][i].len <= written'[b]
          <6>1. /\ sender_buffer'[b][i] = sender_buffer[b][i]
                /\ sender_buffer[b][i].lo + sender_buffer[b][i].len <= written[b]
                /\ sender_buffer[b][i].lo \in Nat /\ sender_buffer[b][i].len \in Nat
            BY <3>2, <3>3, <4>1, <4>2
          <6> QED BY SMTT(60), <3>2, <6>1
        <5>3. \A j \in 1 .. i - 1 : sender_buffer[b][j].lo <= sender_buffer[b][i].lo
          BY <1>0, <3>1, <4>2 DEF OrderInv
        <5> QED BY <3>2, <4>2, <5>1, <5>2, <5>3
      <4>3. CASE i = n + 1
        <5>1. \A j \in 1 .. i - 1 : j \in 1 .. n BY <3>2, <4>3
        <5>2. sender_buffer'[b][i].lo = written[b] /\ sender_buffer'[b][i].len = k
          BY <3>2, <4>3
        <5>3. ASSUME NEW j \in 1 .. i - 1
              PROVE  sender_buffer'[b][j].lo <= sender_buffer'[b][i].lo
          <6>1. /\ sender_buffer'[b][j] = sender_buffer[b][j]
                /\ sender_buffer[b][j].lo + sender_buffer[b][j].len <= written[b]
                /\ sender_buffer[b][j].lo \in Nat /\ sender_buffer[b][j].len \in Nat
            BY <3>2, <3>3, <4>1, <5>1
          <6> QED BY SMTT(60), <3>2, <5>2, <6>1
        <5>4. sender_buffer'[b][i].lo + sender_buffer'[b][i].len <= written'[b]
          BY <3>2, <5>2
        <5> QED BY <5>3, <5>4
      <4> QED BY <3>2, <4>2, <4>3
    <3> QED BY <3>2, <3>4 DEF OrderInv
  <2>4. ASSUME NEW m \in toSender, HandlerACON(b, m) PROVE OrderInv(b)'
    BY <1>1, <2>4 DEF HandlerACON, bufferVars
  <2>5. ASSUME NEW m \in toSender, HandlerADAT(b, m) PROVE OrderInv(b)'
    <3>1. CASE ~(frag_difference(b, m) > 0)
      BY <1>1, <2>5, <3>1 DEF HandlerADAT, bufferVars
    <3>2. CASE frag_difference(b, m) > 0
      <4>1. PICK n, d : n = Len(sender_buffer[b]) /\ d = frag_difference(b, m)
        OBVIOUS
      <4>2. /\ n \in Nat /\ d \in Nat /\ 1 <= d /\ d <= n
            /\ Len(sender_buffer'[b]) = n - d
            /\ \A i \in 1 .. n - d : sender_buffer'[b][i] = sender_buffer[b][d + i]
        BY <1>0, <2>5, <3>2, <4>1, AdatEffect
      <4>3. written'[b] = written[b] BY <2>5 DEF HandlerADAT
      <4>4. ASSUME NEW i \in 1 .. n - d
            PROVE  /\ d + i \in 1 .. n
                   /\ \A j \in 1 .. i - 1 : j \in 1 .. n - d /\ d + j \in 1 .. (d + i) - 1
        BY <4>2
      <4> QED BY <1>0, <4>1, <4>2, <4>3, <4>4 DEF OrderInv
    <3> QED BY <3>1, <3>2
  <2>6. CASE \/ SenderThreadStep(b) \/ CheckerStep(b) \/ HandlerCleanup(b)
             \/ \E m \in toSender : HandlerBreak(b, m) \/ HandlerACLS(b, m)
    BY <1>0, <1>1, <1>3, <2>6, ThreadsSame DEF SameEnds
  <2> QED
    BY <1>3, <2>1, <2>2, <2>3, <2>4, <2>5, <2>6
    DEF SenderStep, AppControl, HandlerStep
<1> QED BY <1>2, <1>3 DEF Next, vars

\* DataAccept() takes no more than fits; nothing else fills a buffer.
LEMMA WindowStep ==
  ASSUME IInv, [Next]_vars
  PROVE  WindowNotOverrun'
<1>0. /\ TypeOK /\ buffer \in [SenderIds -> Seq(Nat)] /\ WindowNotOverrun
      /\ RECEIVER_MAX_WINDOW_SIZE' = RECEIVER_MAX_WINDOW_SIZE
      /\ RECEIVER_MAX_WINDOW_SIZE \in Nat
  BY WindowType DEF IInv, TypeOK, ReceiverTypeOK, RECEIVER_MAX_WINDOW_SIZE
<1>1. ASSUME NEW s \in SenderIds, NEW bytes \in Seq(Nat),
             buffer' = [buffer EXCEPT ![s] = bytes],
             Len(bytes) <= RECEIVER_MAX_WINDOW_SIZE
      PROVE  WindowNotOverrun'
  BY <1>0, <1>1 DEF WindowNotOverrun
<1>2. CASE UNCHANGED buffer BY <1>0, <1>2 DEF WindowNotOverrun
<1>3. ASSUME NEW a, NEW s \in SenderIds, NEW len \in ReceiveLens,
             receive1_data(a, s, len)
      PROVE  WindowNotOverrun'
  <2>1. PICK n : n = bytes_read(s, len) OBVIOUS
  <2>2. n \in Nat /\ n <= Len(buffer[s])
    BY <1>0, <2>1, ReceiverAssumption DEF bytes_read
  <2>3. PICK bytes : bytes = SubSeq(buffer[s], n + 1, Len(buffer[s])) OBVIOUS
  <2>4. bytes \in Seq(Nat) /\ Len(bytes) <= Len(buffer[s]) BY <1>0, <2>2, <2>3
  <2>5. buffer' = [buffer EXCEPT ![s] = bytes]
    BY <1>3, <2>1, <2>3 DEF receive1_data, bytes_remaining
  <2>6. Len(buffer[s]) <= RECEIVER_MAX_WINDOW_SIZE BY <1>0 DEF WindowNotOverrun
  <2>7. Len(bytes) <= RECEIVER_MAX_WINDOW_SIZE BY <1>0, <2>4, <2>6
  <2> QED BY <1>1, <2>4, <2>5, <2>7
<1>4. ASSUME NEW m, NEW s \in SenderIds, RconNew(m, s) PROVE WindowNotOverrun'
  <2>1. <<>> \in Seq(Nat) /\ Len(<<>>) <= RECEIVER_MAX_WINDOW_SIZE BY <1>0
  <2> QED BY <1>1, <1>4, <2>1 DEF RconNew
<1>5. ASSUME NEW m \in toReceiver, NEW s \in SenderIds, DataAccept(m, s)
      PROVE  WindowNotOverrun'
  <2>1. m \in ToReceiverMsg /\ m.len \in Int
    BY <1>0 DEF TypeOK, NetTypeOK, ToReceiverMsg
  <2>2. PICK e : e = payload_bytes(m) OBVIOUS
  <2>3. e \in Seq(Nat) /\ Len(e) = IF m.len >= 0 THEN m.len ELSE 0
    BY <2>1, <2>2, PayloadBytesType
  <2>4. Len(buffer[s]) + m.len <= RECEIVER_MAX_WINDOW_SIZE
    BY <1>0, <1>5, <2>1 DEF DataAccept, Accepts, curr_window_size
  <2>5. Len(buffer[s]) <= RECEIVER_MAX_WINDOW_SIZE BY <1>0 DEF WindowNotOverrun
  <2>6. PICK bytes : bytes = buffer[s] \o e OBVIOUS
  <2>7. bytes \in Seq(Nat) /\ Len(bytes) = Len(buffer[s]) + Len(e)
    BY <1>0, <2>3, <2>6
  <2>8. buffer' = [buffer EXCEPT ![s] = bytes]
    BY <1>5, <2>2, <2>6 DEF DataAccept
  <2>9. Len(bytes) <= RECEIVER_MAX_WINDOW_SIZE
    BY <1>0, <2>1, <2>3, <2>4, <2>5, <2>7
  <2> QED BY <1>1, <2>7, <2>8, <2>9
<1>6. ASSUME UNCHANGED receiverVars PROVE UNCHANGED buffer
  BY <1>6 DEF receiverVars
<1>7. CASE ReceiverStep
  <2>1. CASE ReceiverAppStep
    BY <1>2, <1>3, <2>1
    DEF ReceiverAppStep, mrt_open, accept1_deq, accept1_enq, mrt_close,
        receive1_spurious, mrt_receive1, receive1_timed_out, receive1_dropped, objectVars
  <2>2. CASE MainHandlerStep
    BY <1>2, <1>4, <1>5, <1>6, <2>2
    DEF MainHandlerStep, MainBreak, RconConnected, RconPending, DataUnknown,
        RclsUnknown, DataReject, RclsConnected, RclsPending, MainCleanup,
        objectVars
  <2>3. CASE TimeoutStep
    BY <1>2, <2>3 DEF TimeoutStep, TimeoutTick, CancelledTick, objectVars
  <2> QED BY <1>7, <2>1, <2>2, <2>3 DEF ReceiverStep
<1> QED BY <1>2, <1>6, <1>7 DEF Next, vars

\* Every step preserves the inductive invariant.
LEMMA IInvStep == IInv /\ [Next]_vars => IInv'
<1> SUFFICES ASSUME IInv, [Next]_vars PROVE IInv' OBVIOUS
<1>1. TypeOK' BY TypeStep
<1>2. QueueInv' BY QueueStep DEF IInv
<1>3. StreamInv' BY StreamStep
<1>4. WindowNotOverrun' BY WindowStep
<1>5. \A a \in Addrs : OrderInv(a)' BY OrderStep
<1> QED BY <1>1, <1>2, <1>3, <1>4, <1>5 DEF IInv

\* IInv holds in every reachable state: whatever the threads, the applications
\* and the network do, the ends of every stream and its datagrams agree.
THEOREM InvariantHolds == Spec => []IInv
<1>1. Init => IInv BY IInvInit
<1>2. IInv /\ [Next]_vars => IInv' BY IInvStep
<1> QED BY <1>1, <1>2, PTL DEF Spec

-------------------------------------------------------------------------------
(* What the invariant says about the properties. *)

\* Confirmed <= received <= written, for every stream.
LEMMA StreamBounds ==
  ASSUME IInv, NEW a \in Addrs
  PROVE  /\ Received(a) \in Nat /\ written[a] \in Nat
         /\ Confirmed(a) <= Received(a) /\ Received(a) <= written[a]
         /\ sender_buffer[a] = <<>> => Received(a) = written[a]
<1>1. PICK n : n = Len(sender_buffer[a]) OBVIOUS
<1>2. /\ written[a] \in Nat /\ sender_buffer[a] \in Seq(Payload) /\ n \in Nat
      /\ last_acknowledged_frag[a] \in Int /\ next_frag \in [SenderIds -> Int]
      /\ home[a] \in SenderIds \cup {NULL}
  BY SMTT(60), <1>1 DEF IInv, TypeOK, SenderTypeOK, ReceiverTypeOK
<1>3. Base(a) \in Int /\ Taken(a) \in Int BY <1>2 DEF Base, Taken
<1>4. PositionInv(a) /\ OrderInv(a) BY DEF IInv, StreamInv, EndsInv
<1>5. \A i \in 1 .. n :
        sender_buffer[a][i].lo \in Nat /\ sender_buffer[a][i].len \in Nat
  <2>1. \A i \in 1 .. n : sender_buffer[a][i] \in Payload BY <1>1, <1>2
  <2> QED BY <2>1 DEF Payload
<1>6. CASE Taken(a) = Base(a) + n
  <2>1. Received(a) = written[a] BY <1>1, <1>4, <1>6 DEF PositionInv
  <2>2. Confirmed(a) <= written[a]
    <3>1. CASE sender_buffer[a] = <<>> BY <1>2, <3>1 DEF Confirmed
    <3>2. CASE sender_buffer[a] # <<>>
      <4>1. 1 \in 1 .. n BY <1>1, <1>2, <3>2
      <4>2. sender_buffer[a][1].lo + sender_buffer[a][1].len <= written[a]
        BY <1>1, <1>4, <4>1 DEF OrderInv
      <4>3. /\ sender_buffer[a][1].lo \in Nat
            /\ sender_buffer[a][1].len \in Nat
        BY <1>5, <4>1
      <4> QED BY <1>2, <3>2, <4>2, <4>3 DEF Confirmed
    <3> QED BY <3>1, <3>2
  <2> QED BY <1>2, <2>1, <2>2
<1>7. CASE Taken(a) # Base(a) + n
  <2>1. PICK i : i = Taken(a) + 1 - Base(a) OBVIOUS
  <2>2. i \in 1 .. n
    <3>1. Base(a) <= Taken(a) /\ Taken(a) <= Base(a) + n
      BY <1>1, <1>4 DEF PositionInv
    <3> QED BY SMTT(60), <1>2, <1>3, <1>7, <2>1, <3>1
  <2>3. Received(a) = sender_buffer[a][i].lo
    BY <1>1, <1>3, <1>4, <1>7, <2>1 DEF PositionInv, Held
  <2>4. sender_buffer[a] # <<>> BY <1>1, <1>2, <2>2
  <2>5. Confirmed(a) = sender_buffer[a][1].lo BY <2>4 DEF Confirmed
  <2>6. /\ sender_buffer[a][i].lo + sender_buffer[a][i].len <= written[a]
        /\ \A j \in 1 .. i - 1 : sender_buffer[a][j].lo <= sender_buffer[a][i].lo
    BY <1>1, <1>4, <2>2 DEF OrderInv
  <2>7. sender_buffer[a][i].lo \in Nat /\ sender_buffer[a][i].len \in Nat
    BY <1>5, <2>2
  <2>8. sender_buffer[a][1].lo <= sender_buffer[a][i].lo
    <3>1. CASE i = 1 BY <2>7, <3>1
    <3>2. CASE i # 1
      <4>1. 1 \in 1 .. i - 1 BY <2>2, <3>2
      <4> QED BY <2>6, <4>1
    <3> QED BY <3>1, <3>2
  <2> QED BY SMTT(60), <1>2, <2>3, <2>4, <2>5, <2>6, <2>7, <2>8
<1> QED BY <1>6, <1>7

\* The variables of all processes and of the network keep their types.
THEOREM TypeCorrect == Spec => []TypeOK
<1>1. IInv => TypeOK BY DEF IInv
<1> QED BY <1>1, InvariantHolds, PTL

\* mrt_receive1() hands over the stream of the sender: no byte is lost,
\* repeated or out of order, for any loss, duplication and reordering.
THEOREM DeliveredInOrderHolds == Spec => []DeliveredInOrder
<1>1. IInv => DeliveredInOrder
  <2> SUFFICES ASSUME IInv, NEW a \in Addrs
               PROVE  /\ \A i \in DOMAIN delivered[a] : delivered[a][i] = i
                      /\ Len(delivered[a]) <= written[a]
    BY DEF DeliveredInOrder
  <2>1. /\ delivered[a] \in Seq(Nat) /\ buffer \in [SenderIds -> Seq(Nat)]
        /\ home[a] \in SenderIds \cup {NULL}
    BY DEF IInv, TypeOK, ReceiverTypeOK
  <2>2. ContentInv(a) BY DEF IInv, StreamInv, EndsInv
  <2>3. \A i \in DOMAIN delivered[a] : delivered[a][i] = i
    BY <2>1, <2>2 DEF ContentInv
  <2>4. Len(delivered[a]) <= Received(a)
    <3>1. CASE home[a] = NULL BY <2>2, <3>1 DEF ContentInv, Received
    <3>2. CASE home[a] # NULL
      <4>1. buffer[home[a]] \in Seq(Nat) BY <2>1, <3>2
      <4>2. Len(buffer[home[a]]) \in Nat /\ Len(delivered[a]) \in Nat
        BY <2>1, <4>1
      <4>3. PICK x : x = Len(delivered[a]) OBVIOUS
      <4>4. PICK y : y = Len(buffer[home[a]]) OBVIOUS
      <4>5. x \in Nat /\ y \in Nat BY <4>2, <4>3, <4>4
      <4>6. x <= x + y BY <4>5
      <4>7. Received(a) = x + y BY <3>2, <4>3, <4>4 DEF Received
      <4> QED BY <4>3, <4>6, <4>7
    <3> QED BY <3>1, <3>2
  <2> QED BY <2>1, <2>3, <2>4, StreamBounds
<1> QED BY <1>1, InvariantHolds, PTL

\* handler() frees only payloads that the receiver has buffered.
THEOREM ConfirmedWasReceivedHolds == Spec => []ConfirmedWasReceived
<1>1. IInv => ConfirmedWasReceived BY StreamBounds DEF ConfirmedWasReceived
<1> QED BY <1>1, InvariantHolds, PTL

\* No ADAT makes handler() move the buffer by more slots than are in use.
THEOREM AckWithinBufferHolds == Spec => []AckWithinBuffer
<1>1. IInv => AckWithinBuffer
  <2> SUFFICES ASSUME IInv, NEW a \in Addrs
               PROVE  /\ last_payload_index[a] = Len(sender_buffer[a]) - 1
                      /\ last_payload_index[a] < MAX_PAYLOADS_BUFFERABLE
                      /\ \A m \in toSender :
                           m.dst = a /\ m.type = "ADAT" =>
                             frag_difference(a, m) <= last_payload_index[a] + 1
    BY DEF AckWithinBuffer
  <2>1. PICK n : n = Len(sender_buffer[a]) OBVIOUS
  <2>2. /\ n \in Nat /\ last_acknowledged_frag[a] \in Int
        /\ next_frag \in [SenderIds -> Int] /\ home[a] \in SenderIds \cup {NULL}
        /\ \A m \in toSender : m.frag \in Int
    BY SMTT(60), <2>1
    DEF IInv, TypeOK, SenderTypeOK, ReceiverTypeOK, NetTypeOK, ToSenderMsg
  <2>3. Taken(a) \in Int BY <2>2 DEF Taken
  <2>4. BufferInv(a) /\ PositionInv(a) /\ FlightInv(a)
    BY DEF IInv, StreamInv, EndsInv
  <2>5. ASSUME NEW m \in toSender, m.dst = a, m.type = "ADAT"
        PROVE  frag_difference(a, m) <= n
    <3>1. last_acknowledged_frag[a] >= 0 /\ m.frag <= Taken(a)
      BY <2>4, <2>5 DEF FlightInv, AdatOk
    <3>2. Base(a) = last_acknowledged_frag[a] BY <2>2, <3>1 DEF Base
    <3>3. Taken(a) <= Base(a) + n BY <2>1, <2>4 DEF PositionInv
    <3> QED BY <2>2, <2>3, <3>1, <3>2, <3>3 DEF frag_difference
  <2>6. last_payload_index[a] = n - 1 /\ n <= MAX_PAYLOADS_BUFFERABLE
    BY <2>1, <2>4 DEF BufferInv
  <2> QED BY <2>1, <2>2, <2>5, <2>6, SenderAssumption
<1> QED BY <1>1, InvariantHolds, PTL

\* A mrt_send() that returns 1 has had all of its bytes received.
THEOREM SendReturnsSoundHolds == Spec => []SendReturnsSound
<1>1. IInv => SendReturnsSound
  BY StreamBounds DEF SendReturnsSound, IInv, StreamInv, SendInv
<1> QED BY <1>1, InvariantHolds, PTL

\* A RCLS is on its way only when the receiver has every byte written.
THEOREM RclsMeansAllReceivedHolds == Spec => []RclsMeansAllReceived
<1>1. IInv => RclsMeansAllReceived
  <2> SUFFICES ASSUME IInv, NEW m \in toReceiver, m.type = "RCLS"
               PROVE  Received(m.src) = written[m.src]
    BY DEF RclsMeansAllReceived
  <2>1. m.src \in Addrs BY DEF IInv, TypeOK, NetTypeOK, ToReceiverMsg
  <2>2. sender_buffer[m.src] = <<>>
    BY <2>1 DEF IInv, StreamInv, CloseInv, RclsOk
  <2> QED BY <2>1, <2>2, StreamBounds
<1> QED BY <1>1, InvariantHolds, PTL

\* The buffer array of a sender_t is never overrun.
THEOREM WindowNotOverrunHolds == Spec => []WindowNotOverrun
<1>1. IInv => WindowNotOverrun BY DEF IInv
<1> QED BY <1>1, InvariantHolds, PTL

\* A step of a sender process keeps its threads in order.
LEMMA LifeStep ==
  ASSUME NetTypeOK, SenderTypeOK, NEW a \in Addrs, SenderStep(a), NEW b \in Addrs,
         \A c \in Addrs : LifeInv(c)
  PROVE  LifeInv(b)'
<1>0. LifeInv(a) /\ LifeInv(b) OBVIOUS
<1> USE DEF LifeInv, SenderTypeOK, ackVars, bufferVars, closeVars, senderLocal,
            threadVars, sendVars, goto
<1>1. CASE AppStep(a)
  <2>1. CASE mrt_connect(a) BY <1>0, <2>1 DEF mrt_connect
  <2>2. CASE connect_rcon(a)
    BY <1>0, <2>2 DEF connect_rcon, senderVars
  <2>3. CASE connect_return(a) BY <1>0, <2>3 DEF connect_return
  <2>4. ASSUME NEW n \in SendLens, mrt_send(a, n) PROVE LifeInv(b)'
    BY SMTT(30), <1>0, <2>4 DEF mrt_send
  <2>5. CASE send_spurious(a) \/ send_dropped(a)
    <3>1. /\ pc[a] # "start" /\ a \notin connections_q
          /\ UNCHANGED <<threadVars, connections_q, last_acknowledged_frag,
                         should_close>>
      BY <2>5 DEF send_spurious, send_dropped
    <3>2. handler_thread[a] = "done" BY <1>0, <3>1
    <3>3. pc'[b] = "start" <=> pc[b] = "start"
      <4>1. pc' = pc \/ pc' = [pc EXCEPT ![a] = "ready"]
        BY <2>5 DEF send_spurious, send_dropped
      <4>2. DOMAIN pc = Addrs OBVIOUS
      <4> QED BY ONLY <3>1, <4>1, <4>2, a \in Addrs, b \in Addrs
    <3>4. b # a => send_ret'[b] = send_ret[b]
      <4>1. \/ send_ret' = [send_ret EXCEPT ![a] = -1]
            \/ send_ret' = [send_ret EXCEPT ![a] = 0]
        BY <2>5 DEF send_spurious, send_dropped
      <4>2. send_ret \in [Addrs -> {-1, 0, 1, NO_RESULT}] OBVIOUS
      <4> QED BY SMTT(30), <4>1, <4>2
    <3> QED BY <1>0, <3>1, <3>2, <3>3, <3>4
  <2>6. CASE send_enter(a) \/ send_lookup(a) \/ send_not_acked(a) \/ send_copy(a)
               \/ send_no_space(a)
    <3>1. CASE send_enter(a) BY <1>0, <3>1 DEF send_enter
    <3>2. CASE send_lookup(a) BY <1>0, <3>2 DEF send_lookup
    <3>3. CASE send_not_acked(a) BY <1>0, <3>3 DEF send_not_acked
    <3>4. CASE send_copy(a) BY <1>0, <3>4 DEF send_copy
    <3>5. CASE send_no_space(a) BY <1>0, <3>5 DEF send_no_space
    <3> QED BY <2>6, <3>1, <3>2, <3>3, <3>4, <3>5
  <2>7. CASE send_acked(a) BY SMTT(30), <1>0, <2>7 DEF send_acked
  <2>8. CASE mrt_disconnect(a) \/ disc_lookup(a) \/ disc_check(a) \/ disc_rcls(a)
               \/ disc_trick(a)
    BY SMTT(30), <1>0, <2>8 DEF mrt_disconnect, disc_lookup, disc_check, disc_rcls, disc_trick
  <2> QED BY <1>1, <2>1, <2>2, <2>3, <2>4, <2>5, <2>6, <2>7, <2>8 DEF AppStep
<1>2. CASE HandlerStep(a)
  <2>1. ASSUME NEW m, HandlerBreak(a, m) PROVE LifeInv(b)'
    BY <1>0, <2>1 DEF HandlerBreak
  <2>2. ASSUME NEW m, HandlerACON(a, m) PROVE LifeInv(b)'
    <3>1. /\ handler_thread[a] = "recv" /\ ~should_close[a]
          /\ UNCHANGED <<pc, connections_q, send_ret, should_close, handler_thread>>
      BY <2>2 DEF HandlerACON, HandlerReceives
    <3>2. CASE /\ sender_thread' = [sender_thread EXCEPT ![a] = "run"]
               /\ checker_thread' = [checker_thread EXCEPT ![a] = "run"]
               /\ last_acknowledged_frag' = [last_acknowledged_frag EXCEPT ![a] = 0]
      <4>1. /\ sender_thread'[a] = "run" /\ checker_thread'[a] = "run"
            /\ last_acknowledged_frag'[a] = 0
        BY <3>2
      <4>2. CASE b = a BY <1>0, <3>1, <4>1, <4>2
      <4>3. CASE b # a
        <5>1. /\ sender_thread'[b] = sender_thread[b]
              /\ checker_thread'[b] = checker_thread[b]
              /\ last_acknowledged_frag'[b] = last_acknowledged_frag[b]
          BY <3>2, <4>3
        <5> QED BY <1>0, <3>1, <5>1
      <4> QED BY <4>2, <4>3
    <3>3. CASE UNCHANGED <<sender_thread, checker_thread, last_acknowledged_frag>>
      BY <1>0, <3>1, <3>3
    <3> QED BY <2>2, <3>2, <3>3 DEF HandlerACON
  <2>3. ASSUME NEW m \in toSender, HandlerADAT(a, m) PROVE LifeInv(b)'
    <3>1. /\ m.frag \in Int
          /\ UNCHANGED <<pc, connections_q, send_ret, should_close, threadVars>>
      BY <2>3 DEF HandlerADAT, HandlerReceives, NetTypeOK, ToSenderMsg
    <3>2. CASE UNCHANGED ackVars BY <1>0, <3>1, <3>2
    <3>3. CASE /\ m.frag - last_acknowledged_frag[a] >= 0
               /\ last_acknowledged_frag' = [last_acknowledged_frag EXCEPT ![a] = m.frag]
      <4>1. last_acknowledged_frag[b] >= 0 => last_acknowledged_frag'[b] >= 0
        BY <3>1, <3>3
      <4> QED BY <1>0, <3>1, <4>1
    <3> QED BY <2>3, <3>2, <3>3 DEF HandlerADAT, IsNews, frag_difference
  <2>4. ASSUME NEW m, HandlerACLS(a, m) PROVE LifeInv(b)'
    BY <1>0, <2>4 DEF HandlerACLS, HandlerReceives
  <2>5. CASE HandlerCleanup(a) BY <1>0, <2>5 DEF HandlerCleanup
  <2> QED BY <1>2, <2>1, <2>2, <2>3, <2>4, <2>5 DEF HandlerStep
<1>3. CASE SenderThreadStep(a)
  <2>1. CASE SenderExit(a) BY <1>0, <2>1 DEF SenderExit
  <2>2. CASE SenderEmpty(a) BY <1>0, <2>2 DEF SenderEmpty
  <2>3. CASE SenderData(a) BY <1>0, <2>3 DEF SenderData
  <2> QED BY <1>3, <2>1, <2>2, <2>3 DEF SenderThreadStep
<1>4. CASE CheckerStep(a)
  <2>1. CASE CheckerTick(a) BY <1>0, <2>1 DEF CheckerTick
  <2>2. CASE CheckerClose(a) BY <1>0, <2>2 DEF CheckerClose
  <2> QED BY <1>4, <2>1, <2>2 DEF CheckerStep
<1> QED BY <1>1, <1>2, <1>3, <1>4 DEF SenderStep

\* A mrt_send() that reports a dropped connection finds all its threads at rest.
THEOREM DropIsRealHolds == Spec => []DropIsReal
<1>1. Init => \A a \in Addrs : LifeInv(a)
  BY DEF Init, SenderInit, LifeInv
<1>2. TypeOK /\ (\A a \in Addrs : LifeInv(a)) /\ [Next]_vars
        => (\A a \in Addrs : LifeInv(a))'
  <2> SUFFICES ASSUME TypeOK, \A a \in Addrs : LifeInv(a), [Next]_vars, NEW b \in Addrs
               PROVE  LifeInv(b)'
    OBVIOUS
  <2>1. CASE UNCHANGED senderVars
    <3>1. LifeInv(b) OBVIOUS
    <3> QED BY <2>1, <3>1
            DEF LifeInv, senderVars, ackVars, bufferVars, closeVars, senderLocal,
                threadVars, sendVars
  <2>2. ASSUME NEW a \in Addrs, SenderStep(a) PROVE LifeInv(b)'
    BY <2>2, LifeStep DEF TypeOK
  <2> QED BY <2>1, <2>2 DEF Next, vars
<1>3. TypeOK /\ (\A a \in Addrs : LifeInv(a)) => DropIsReal
  BY DEF TypeOK, SenderTypeOK, LifeInv, DropIsReal, NO_RESULT
<1> QED BY <1>1, <1>2, <1>3, TypeCorrect, PTL DEF Spec

-------------------------------------------------------------------------------
(* What a step may never do. *)

\* The receiver never goes back to a fragment it has taken.
LEMMA TakenAdvances ==
  ASSUME IInv, ReceiverStep, NEW a \in Addrs
  PROVE  Taken(a)' >= Taken(a)
<1>0. /\ TypeOK /\ QueueInv /\ next_frag \in [SenderIds -> Int]
      /\ home \in [Addrs -> SenderIds \cup {NULL}]
  BY DEF IInv, TypeOK, ReceiverTypeOK
<1>1. Taken(a) \in Int BY <1>0 DEF Taken
<1>2. CASE UNCHANGED <<home, next_frag>> BY <1>1, <1>2 DEF Taken
<1>3. ASSUME accept1_enq PROVE Taken(a)' >= Taken(a)
  <2>1. accepting \in SenderIds /\ accepting # NULL /\ Fresh(accepting)
    BY <1>0, <1>3 DEF accept1_enq, QueueInv, AcceptingInv, TypeOK, ReceiverTypeOK
  <2>2. next_frag' = next_frag BY <1>3 DEF accept1_enq, objectVars
  <2>3. CASE home'[a] = home[a] BY <1>1, <2>2, <2>3 DEF Taken
  <2>4. CASE home'[a] # home[a]
    <3>1. home'[a] = accepting /\ Absent(connected_senders_q, a)
      BY <1>0, <1>3, <2>4 DEF accept1_enq
    <3>2. connected_senders_q \in Seq(SenderIds) /\ main_thread # "done"
      BY <1>0, <1>3 DEF TypeOK, ReceiverTypeOK, accept1_enq, QueuesExist
    <3>3. home[a] = NULL BY <1>0, <3>1, <3>2, FoundIsThere DEF QueueInv, HomeInv
    <3> QED BY <2>1, <2>2, <3>1, <3>3 DEF Taken, Fresh
  <2> QED BY <2>3, <2>4
<1>4. ASSUME NEW m \in toReceiver, NEW s \in SenderIds,
             RconNew(m, s) \/ DataAccept(m, s)
      PROVE  Taken(a)' >= Taken(a)
  <2>1. CASE RconNew(m, s)
    <3>1. home[a] # s /\ home' = home
      BY <1>0, <2>1, NewIsNotHome DEF RconNew
    <3>2. \A t \in SenderIds \ {s} : next_frag'[t] = next_frag[t]
      BY <1>0, <2>1 DEF RconNew
    <3> QED BY <1>0, <1>1, <3>1, <3>2 DEF Taken
  <2>2. CASE DataAccept(m, s)
    <3>1. home' = home /\ next_frag' = [next_frag EXCEPT ![s] = @ + 1]
      BY <2>2 DEF DataAccept
    <3> QED BY <1>0, <1>1, <3>1 DEF Taken
  <2> QED BY <1>4, <2>1, <2>2
<1>5. CASE ReceiverAppStep
  BY <1>2, <1>3, <1>5
  DEF ReceiverAppStep, mrt_open, accept1_deq, mrt_close, receive1_spurious,
      mrt_receive1, receive1_data, receive1_timed_out, receive1_dropped, objectVars
<1>6. CASE MainHandlerStep
  BY <1>2, <1>4, <1>6
  DEF MainHandlerStep, MainBreak, RconConnected, RconPending, DataUnknown,
      RclsUnknown, DataReject, RclsConnected, RclsPending, MainCleanup,
      objectVars, receiverVars
<1>7. CASE TimeoutStep
  BY <1>2, <1>7 DEF TimeoutStep, TimeoutTick, CancelledTick, objectVars
<1> QED BY <1>5, <1>6, <1>7 DEF ReceiverStep

\* What was received follows the number of fragments taken.
LEMMA ReceivedAdvances ==
  ASSUME IInv, IInv', ReceiverStep, UNCHANGED senderVars, NEW a \in Addrs
  PROVE  Received(a)' >= Received(a)
<1>1. PICK n : n = Len(sender_buffer[a]) OBVIOUS
<1>2. /\ sender_buffer[a] \in Seq(Payload) /\ n \in Nat
      /\ last_acknowledged_frag[a] \in Int /\ next_frag \in [SenderIds -> Int]
      /\ home[a] \in SenderIds \cup {NULL}
  <2>1. TypeOK BY DEF IInv
  <2> QED BY SMTT(60), <1>1, <2>1 DEF TypeOK, SenderTypeOK, ReceiverTypeOK
<1>3. /\ Base(a) \in Int /\ Taken(a) \in Int /\ Base(a)' = Base(a)
      /\ UNCHANGED <<sender_buffer, written>>
  BY <1>2 DEF Base, Taken, senderVars
<1>4. PositionInv(a) /\ OrderInv(a) BY DEF IInv, StreamInv, EndsInv
<1>5. PositionInv(a)' BY DEF IInv, StreamInv, EndsInv
<1>6. Taken(a)' \in Int
  <2>1. next_frag' \in [SenderIds -> Int] /\ home'[a] \in SenderIds \cup {NULL}
    BY DEF IInv, TypeOK, ReceiverTypeOK
  <2> QED BY <2>1 DEF Taken
<1>7. Taken(a)' >= Taken(a) BY TakenAdvances
<1>8. /\ Received(a) \in Nat /\ Received(a) <= written[a] /\ written[a] \in Nat
  BY StreamBounds
<1>9. CASE Taken(a)' = Base(a) + n
  <2>1. Received(a)' = written[a] BY <1>1, <1>3, <1>5, <1>9 DEF PositionInv
  <2> QED BY <1>8, <2>1
<1>10. CASE Taken(a)' # Base(a) + n
  <2>1. PICK i, j : i = Taken(a) + 1 - Base(a) /\ j = Taken(a)' + 1 - Base(a)
    OBVIOUS
  <2>2. /\ Base(a) <= Taken(a) /\ Taken(a)' <= Base(a) + n
    BY <1>1, <1>3, <1>4, <1>5 DEF PositionInv
  <2>3. i \in 1 .. n /\ j \in 1 .. n /\ i <= j /\ Taken(a) # Base(a) + n
    <3>1. PICK b, t, u : b = Base(a) /\ t = Taken(a) /\ u = Taken(a)' OBVIOUS
    <3>2. /\ b \in Int /\ t \in Int /\ u \in Int /\ b <= t /\ t <= u
          /\ u <= b + n /\ u # b + n /\ i = t + 1 - b /\ j = u + 1 - b
      BY <1>3, <1>6, <1>7, <1>10, <2>1, <2>2, <3>1
    <3>3. i \in 1 .. n /\ j \in 1 .. n /\ i <= j /\ t # b + n
      BY SMTT(60), <1>2, <3>2
    <3> QED BY <3>1, <3>3
  <2>4. Received(a) = sender_buffer[a][i].lo
    BY <1>1, <1>3, <1>4, <2>1, <2>3 DEF PositionInv, Held
  <2>5. Received(a)' = sender_buffer[a][j].lo
    <3>1. Taken(a)' # Base(a)' + Len(sender_buffer'[a])
      BY <1>1, <1>3, <1>10
    <3>2. \A f : Held(a, f)' = Held(a, f) BY <1>3 DEF Held
    <3>3. PICK u : u = Taken(a)' OBVIOUS
    <3>4. Received(a)' = Held(a, u + 1).lo
      BY <1>5, <3>1, <3>2, <3>3 DEF PositionInv
    <3>5. j = u + 1 - Base(a) BY <1>3, <1>6, <2>1, <3>3
    <3>6. Held(a, u + 1) = sender_buffer[a][j]
      <4>1. \A f : f - Base(a) = j => Held(a, f) = sender_buffer[a][j] BY DEF Held
      <4>2. (u + 1) - Base(a) = j BY <1>3, <1>6, <3>3, <3>5
      <4> QED BY <4>1, <4>2
    <3> QED BY <3>4, <3>6
  <2>6. \A k \in 1 .. j - 1 : sender_buffer[a][k].lo <= sender_buffer[a][j].lo
    BY <1>1, <1>4, <2>3 DEF OrderInv
  <2>7. CASE i = j BY <1>8, <2>4, <2>5, <2>7
  <2>8. CASE i # j
    <3>1. i \in 1 .. j - 1 BY <2>3, <2>8
    <3>2. sender_buffer[a][i].lo <= sender_buffer[a][j].lo BY <2>6, <3>1
    <3>3. sender_buffer[a][i] \in Payload /\ sender_buffer[a][j] \in Payload
      BY <1>1, <1>2, <2>3
    <3> QED BY <2>4, <2>5, <3>2, <3>3 DEF Payload
  <2> QED BY <2>7, <2>8
<1> QED BY <1>9, <1>10

\* No step takes back an acknowledgement, at either end.
LEMMA AcksStep ==
  ASSUME IInv, IInv', [Next]_vars, NEW a \in Addrs
  PROVE  /\ last_acknowledged_frag'[a] >= last_acknowledged_frag[a]
         /\ Received(a)' >= Received(a)
<1>0. /\ last_acknowledged_frag \in [Addrs -> Int] /\ Received(a) \in Nat
      /\ TypeOK /\ \A b \in Addrs : AddrInv(b)
  BY StreamBounds DEF IInv, TypeOK, SenderTypeOK, StreamInv, AddrInv
<1>1. ASSUME UNCHANGED receiverVars PROVE Received(a)' >= Received(a)
  BY <1>0, <1>1 DEF receiverVars, Received
<1>2. ASSUME UNCHANGED last_acknowledged_frag
      PROVE  last_acknowledged_frag'[a] >= last_acknowledged_frag[a]
  BY <1>0, <1>2
<1>3. ASSUME NEW b \in Addrs, SenderStep(b), UNCHANGED receiverVars
      PROVE  last_acknowledged_frag'[a] >= last_acknowledged_frag[a]
  <2>1. ASSUME NEW m \in toSender, HandlerADAT(b, m)
        PROVE  last_acknowledged_frag'[a] >= last_acknowledged_frag[a]
    <3>1. m.frag \in Int BY <1>0 DEF TypeOK, NetTypeOK, ToSenderMsg
    <3>2. CASE IsNews(b, m)
      <4>1. m.frag >= last_acknowledged_frag[b]
        BY <1>0, <3>1, <3>2 DEF IsNews, frag_difference
      <4>2. last_acknowledged_frag' = [last_acknowledged_frag EXCEPT ![b] = m.frag]
        BY <2>1, <3>2 DEF HandlerADAT
      <4> QED BY <1>0, <3>1, <4>1, <4>2
    <3>3. CASE ~IsNews(b, m) BY <1>2, <2>1, <3>3 DEF HandlerADAT, ackVars
    <3> QED BY <3>2, <3>3
  <2>2. ASSUME NEW m \in toSender, HandlerACON(b, m)
        PROVE  last_acknowledged_frag'[a] >= last_acknowledged_frag[a]
    BY <1>0, <2>2 DEF HandlerACON
  <2>3. CASE \E n \in SendLens : mrt_send(b, n)
    BY <1>2, <2>3 DEF mrt_send, ackVars
  <2>4. CASE AppStep(b) /\ ~\E n \in SendLens : mrt_send(b, n)
    BY <1>2, <2>4
    DEF AppStep, mrt_connect, connect_rcon, connect_return, send_spurious,
        send_enter, send_lookup, send_dropped, send_acked, send_not_acked,
        send_copy, send_no_space, mrt_disconnect, disc_lookup, disc_check,
        disc_rcls, disc_trick, senderVars, ackVars
  <2>5. CASE \/ SenderThreadStep(b) \/ CheckerStep(b) \/ HandlerCleanup(b)
             \/ \E m \in toSender : HandlerBreak(b, m) \/ HandlerACLS(b, m)
    BY <1>2, <2>5
    DEF SenderThreadStep, SenderExit, SenderEmpty, SenderData, CheckerStep,
        CheckerTick, CheckerClose, HandlerCleanup, HandlerBreak, HandlerACLS,
        ackVars
  <2> QED BY <1>3, <2>1, <2>2, <2>3, <2>4, <2>5 DEF SenderStep, HandlerStep
<1>4. CASE ReceiverStep /\ UNCHANGED senderVars
  BY <1>2, <1>4, ReceivedAdvances DEF senderVars
<1> QED BY <1>1, <1>2, <1>3, <1>4 DEF Next, vars, senderVars

\* Datagrams the network delivers late move neither window back.
THEOREM AcksOnlyAdvanceHolds == Spec => AcksOnlyAdvance
<1>1. IInv /\ IInv' /\ [Next]_vars =>
        [\A a \in Addrs :
           /\ last_acknowledged_frag'[a] >= last_acknowledged_frag[a]
           /\ Received(a)' >= Received(a)]_vars
  BY AcksStep
<1> QED BY <1>1, InvariantHolds, PTL DEF Spec, AcksOnlyAdvance

(***************************************************************************)
(* MRT implements ReliableStream, for every value of the constants: what   *)
(* the threads, the network and the applications do together is, seen from *)
(* outside, a bounded buffer at each end and bytes that move in order.     *)
(***************************************************************************)

(* The space of the sender's buffer. *)

\* A payload has at most MAX_MRT_PAYLOAD_LENGTH bytes, so the payloads behind a
\* slot fill no more than theirs, for as many slots as there are.
LEMMA SpaceStep ==
  ASSUME IInv, NEW b \in Addrs, SpaceInv(b), [Next]_vars
  PROVE  SpaceInv(b)'
<1> DEFINE P == MAX_MRT_PAYLOAD_LENGTH
<1>0. TypeOK /\ AddrInv(b) /\ P \in Nat
  BY NetworkAssumption DEF IInv, StreamInv, AddrInv
<1>1. ASSUME sender_buffer'[b] = sender_buffer[b], written'[b] = written[b]
      PROVE  SpaceInv(b)'
  BY <1>1 DEF SpaceInv
<1>2. CASE UNCHANGED senderVars BY <1>1, <1>2 DEF senderVars
<1>3. ASSUME NEW a \in Addrs, SenderStep(a), UNCHANGED receiverVars
      PROVE  SpaceInv(b)'
  <2>1. CASE a # b
    BY <1>0, <1>1, <1>3, <2>1, SenderStepOther DEF SameEnds
  <2>2. CASE AppControl(b) BY <1>0, <1>1, <1>3, <2>2, AppSameEnds DEF SameEnds
  <2>3. CASE send_copy(b)
    <3>1. PICK n, k : n = Len(sender_buffer[b]) /\ k = num_bytes_to_copy(b)
      OBVIOUS
    <3>2. /\ n \in Nat /\ k \in Nat /\ k <= P /\ written[b] \in Nat
          /\ sender_buffer'[b] \in Seq(Payload) /\ Len(sender_buffer'[b]) = n + 1
          /\ \A i \in 1 .. n : sender_buffer'[b][i] = sender_buffer[b][i]
          /\ sender_buffer'[b][n + 1] = [lo |-> written[b], len |-> k]
          /\ written'[b] = written[b] + k
      BY <1>0, <1>3, <2>3, <3>1, CopyEffect
    <3>3. \A i \in 1 .. n : sender_buffer[b][i].lo \in Nat
      <4>1. sender_buffer[b] \in Seq(Payload) BY <1>0 DEF TypeOK, SenderTypeOK
      <4>2. \A i \in 1 .. n : sender_buffer[b][i] \in Payload BY <3>1, <4>1
      <4> QED BY <4>2 DEF Payload
    <3>4. ASSUME NEW i \in 1 .. n + 1
          PROVE  written'[b] - sender_buffer'[b][i].lo <= ((n + 1) - i + 1) * P
      <4> HIDE DEF P
      <4>1. CASE i = n + 1
        <5>1. written'[b] = written[b] + k /\ sender_buffer'[b][i].lo = written[b]
          BY <3>2, <4>1
        <5>2. ((n + 1) - i + 1) * P = P BY <1>0, <3>2, <4>1
        <5>3. written'[b] - sender_buffer'[b][i].lo <= P BY <1>0, <3>2, <5>1
        <5> QED BY <5>2, <5>3
      <4>2. CASE i \in 1 .. n
        <5>1. PICK lo, q : lo = sender_buffer[b][i].lo /\ q = (n - i + 1) * P
          OBVIOUS
        <5>2. written[b] - lo <= q /\ lo \in Nat
          BY <3>1, <3>3, <4>2, <5>1 DEF SpaceInv, P
        <5>3. sender_buffer'[b][i].lo = lo BY <3>2, <4>2, <5>1
        <5>4. ((n + 1) - i + 1) * P = q + P /\ q \in Int
          BY <1>0, <3>2, <4>2, <5>1
        <5>5. (written[b] + k) - lo <= q + P BY <1>0, <3>2, <5>2, <5>4
        <5> QED BY <3>2, <5>3, <5>4, <5>5
      <4> QED BY <3>2, <4>1, <4>2
    <3> QED BY <3>2, <3>4 DEF SpaceInv
  <2>4. ASSUME NEW m \in toSender, HandlerACON(b, m) PROVE SpaceInv(b)'
    BY <1>1, <2>4 DEF HandlerACON, bufferVars
  <2>5. ASSUME NEW m \in toSender, HandlerADAT(b, m) PROVE SpaceInv(b)'
    <3>1. CASE ~(frag_difference(b, m) > 0)
      BY <1>1, <2>5, <3>1 DEF HandlerADAT, bufferVars
    <3>2. CASE frag_difference(b, m) > 0
      <4>1. PICK n, d : n = Len(sender_buffer[b]) /\ d = frag_difference(b, m)
        OBVIOUS
      <4>2. /\ n \in Nat /\ d \in Nat /\ 1 <= d /\ d <= n
            /\ Len(sender_buffer'[b]) = n - d
            /\ \A i \in 1 .. n - d : sender_buffer'[b][i] = sender_buffer[b][d + i]
        BY <1>0, <2>5, <3>2, <4>1, AdatEffect
      <4>3. written'[b] = written[b] BY <2>5 DEF HandlerADAT
      <4>4. ASSUME NEW i \in 1 .. n - d
            PROVE  d + i \in 1 .. n /\ n - (d + i) + 1 = n - d - i + 1
        BY <4>2
      <4>5. ASSUME NEW i \in 1 .. n - d
            PROVE  written[b] - sender_buffer[b][d + i].lo <= (n - d - i + 1) * P
        BY <4>1, <4>4 DEF SpaceInv
      <4>6. ASSUME NEW i \in 1 .. Len(sender_buffer'[b])
            PROVE  written'[b] - sender_buffer'[b][i].lo <= (Len(sender_buffer'[b]) - i + 1) * P
        BY <4>2, <4>3, <4>5
      <4> QED BY <4>6 DEF SpaceInv
    <3> QED BY <3>1, <3>2
  <2>6. CASE \/ SenderThreadStep(b) \/ CheckerStep(b) \/ HandlerCleanup(b)
             \/ \E m \in toSender : HandlerBreak(b, m) \/ HandlerACLS(b, m)
    BY <1>0, <1>1, <1>3, <2>6, ThreadsSame DEF SameEnds
  <2> QED
    BY <1>3, <2>1, <2>2, <2>3, <2>4, <2>5, <2>6
    DEF SenderStep, AppControl, HandlerStep
<1> QED BY <1>2, <1>3 DEF Next, vars

-------------------------------------------------------------------------------
(* The steps of the mapped stream. *)

\* Nothing that ReliableStream can see of b changes.
SameStream(b) ==
  /\ written'[b] = written[b]
  /\ Received(b)' = Received(b)
  /\ Confirmed(b)' = Confirmed(b)
  /\ delivered'[b] = delivered[b]

\* The mapped variables as functions.
StreamTyped ==
  /\ written = [a \in Addrs |-> written[a]]
  /\ delivered = [a \in Addrs |-> delivered[a]]

\* Ends that do not change are the same stream.
LEMMA SameEndsSameStream ==
  ASSUME NEW b, SameEnds(b)
  PROVE  SameStream(b)
  BY SameView DEF SameEnds, SameStream, Confirmed

\* A step that changes no stream is a stutter.
LEMMA StreamStutters ==
  ASSUME StreamTyped, StreamTyped', \A b \in Addrs : SameStream(b)
  PROVE  UNCHANGED Stream!streamVars
<1>1. /\ [a \in Addrs |-> Received(a)]' = [a \in Addrs |-> Received(a)]
      /\ [a \in Addrs |-> Confirmed(a)]' = [a \in Addrs |-> Confirmed(a)]
  BY DEF SameStream
<1>2. written' = written /\ delivered' = delivered
  BY DEF SameStream, StreamTyped
<1> QED BY <1>1, <1>2 DEF Stream!streamVars

\* send_copy() writes a payload.
LEMMA StreamWrites ==
  ASSUME StreamTyped, StreamTyped', NEW a \in Addrs,
         \A b \in Addrs \ {a} : SameStream(b),
         NEW n \in 1 .. MAX_MRT_PAYLOAD_LENGTH,
         written'[a] = written[a] + n,
         written[a] + n - Confirmed(a)
           <= MAX_PAYLOADS_BUFFERABLE * MAX_MRT_PAYLOAD_LENGTH,
         Received(a)' = Received(a), Confirmed(a)' = Confirmed(a),
         delivered'[a] = delivered[a]
  PROVE  Stream!Write(a)
<1>1. /\ [b \in Addrs |-> Received(b)]' = [b \in Addrs |-> Received(b)]
      /\ [b \in Addrs |-> Confirmed(b)]' = [b \in Addrs |-> Confirmed(b)]
  BY DEF SameStream
<1>2. delivered' = delivered BY DEF SameStream, StreamTyped
<1>3. written' = [written EXCEPT ![a] = @ + n] BY DEF SameStream, StreamTyped
<1> QED BY <1>1, <1>2, <1>3 DEF Stream!Write

\* DataAccept() receives a payload.
LEMMA StreamReceives ==
  ASSUME StreamTyped, StreamTyped', NEW a \in Addrs,
         \A b \in Addrs \ {a} : SameStream(b),
         NEW n \in 1 .. MAX_MRT_PAYLOAD_LENGTH,
         Received(a)' = Received(a) + n,
         Received(a) + n <= written[a],
         Received(a) + n - Len(delivered[a]) <= RECEIVER_MAX_WINDOW_SIZE,
         written'[a] = written[a], Confirmed(a)' = Confirmed(a),
         delivered'[a] = delivered[a]
  PROVE  Stream!Receive(a)
<1>1. [b \in Addrs |-> Confirmed(b)]' = [b \in Addrs |-> Confirmed(b)]
  BY DEF SameStream
<1>2. delivered' = delivered /\ written' = written BY DEF SameStream, StreamTyped
<1>3. [b \in Addrs |-> Received(b)]' =
        [[b \in Addrs |-> Received(b)] EXCEPT ![a] = @ + n]
  BY DEF SameStream
<1> QED BY <1>1, <1>2, <1>3 DEF Stream!Receive

\* handler() confirms what it moves out of the buffer.
LEMMA StreamConfirms ==
  ASSUME StreamTyped, StreamTyped', NEW a \in Addrs,
         \A b \in Addrs \ {a} : SameStream(b),
         NEW n \in 1 .. Received(a) - Confirmed(a),
         Confirmed(a)' = Confirmed(a) + n,
         written'[a] = written[a], Received(a)' = Received(a),
         delivered'[a] = delivered[a]
  PROVE  Stream!Confirm(a)
<1>1. [b \in Addrs |-> Received(b)]' = [b \in Addrs |-> Received(b)]
  BY DEF SameStream
<1>2. delivered' = delivered /\ written' = written BY DEF SameStream, StreamTyped
<1>3. [b \in Addrs |-> Confirmed(b)]' =
        [[b \in Addrs |-> Confirmed(b)] EXCEPT ![a] = @ + n]
  BY DEF SameStream
<1> QED BY <1>1, <1>2, <1>3 DEF Stream!Confirm

\* mrt_receive1() delivers the next bytes.
LEMMA StreamDelivers ==
  ASSUME StreamTyped, StreamTyped', NEW a \in Addrs,
         \A b \in Addrs \ {a} : SameStream(b),
         NEW n \in 1 .. Received(a) - Len(delivered[a]),
         delivered'[a] = delivered[a] \o [i \in 1 .. n |-> Len(delivered[a]) + i],
         written'[a] = written[a], Received(a)' = Received(a),
         Confirmed(a)' = Confirmed(a)
  PROVE  Stream!Deliver(a)
<1>1. /\ [b \in Addrs |-> Received(b)]' = [b \in Addrs |-> Received(b)]
      /\ [b \in Addrs |-> Confirmed(b)]' = [b \in Addrs |-> Confirmed(b)]
  BY DEF SameStream
<1>2. written' = written BY DEF SameStream, StreamTyped
<1>3. delivered' = [delivered EXCEPT ![a] =
                      @ \o [i \in 1 .. n |-> Len(delivered[a]) + i]]
  BY DEF SameStream, StreamTyped
<1> QED BY <1>1, <1>2, <1>3 DEF Stream!Deliver

-------------------------------------------------------------------------------
(* Every step of Mrt is a step of the stream, or none. *)

\* The three counters of a stream are in order.
BoundsInv ==
  \A a \in Addrs :
    /\ Received(a) \in Nat
    /\ Confirmed(a) <= Received(a) /\ Received(a) <= written[a]

\* The types of the variables that are mapped as they are.
LEMMA TypeGivesStream ==
  ASSUME TypeOK, TypeOK'
  PROVE  StreamTyped /\ StreamTyped'
  BY DEF TypeOK, SenderTypeOK, ReceiverTypeOK, StreamTyped

\* A sequence of length 0 is empty.
LEMMA NoElements ==
  ASSUME NEW S, NEW q \in Seq(S)
  PROVE  q = <<>> <=> Len(q) = 0
  OBVIOUS

\* send_copy() is Write: the payload has a byte at least and fits in its slot.
LEMMA CopyRefines ==
  ASSUME IInv, TypeOK', BoundsInv, BoundsInv', NEW a \in Addrs, SpaceInv(a), SpaceInv(a)', send_copy(a),
         UNCHANGED receiverVars, \A b \in Addrs \ {a} : SameStream(b)
  PROVE  Stream!Write(a)
<1> DEFINE P == MAX_MRT_PAYLOAD_LENGTH
<1>0. /\ TypeOK /\ AddrInv(a) /\ StreamTyped /\ StreamTyped'
      /\ P \in Nat /\ MAX_PAYLOADS_BUFFERABLE \in Nat
  BY TypeGivesStream, NetworkAssumption, SenderAssumption
  DEF IInv, StreamInv, AddrInv
<1>1. PICK n, k : n = Len(sender_buffer[a]) /\ k = num_bytes_to_copy(a) OBVIOUS
<1>2. /\ n \in Nat /\ n < MAX_PAYLOADS_BUFFERABLE
      /\ k \in Nat /\ 1 <= k /\ k <= P /\ written[a] \in Nat
      /\ sender_buffer'[a] \in Seq(Payload) /\ Len(sender_buffer'[a]) = n + 1
      /\ \A i \in 1 .. n : sender_buffer'[a][i] = sender_buffer[a][i]
      /\ sender_buffer'[a][n + 1] = [lo |-> written[a], len |-> k]
      /\ written'[a] = written[a] + k
  BY <1>0, <1>1, CopyEffect
<1>2a. sender_buffer[a] \in Seq(Payload) BY <1>0 DEF TypeOK, SenderTypeOK
<1>3. Confirmed(a) = sender_buffer'[a][1].lo
  <2>1. CASE n = 0
    <3>1. sender_buffer[a] = <<>> BY <1>1, <1>2a, <2>1, NoElements
    <3>2. sender_buffer'[a][1] = [lo |-> written[a], len |-> k] BY <1>2, <2>1
    <3> QED BY <3>1, <3>2 DEF Confirmed
  <2>2. CASE n # 0
    <3>1. sender_buffer[a] # <<>> /\ 1 \in 1 .. n
      BY <1>1, <1>2, <1>2a, <2>2, NoElements
    <3> QED BY <1>2, <3>1 DEF Confirmed
  <2> QED BY <2>1, <2>2
<1>4. Confirmed(a)' = sender_buffer'[a][1].lo
  <2>1. sender_buffer'[a] # <<>> BY <1>2
  <2> QED BY <2>1 DEF Confirmed
<1>5. written[a] + k - Confirmed(a) <= MAX_PAYLOADS_BUFFERABLE * P
  <2>1. 1 \in 1 .. n + 1 BY <1>2
  <2>2. written'[a] - sender_buffer'[a][1].lo <= ((n + 1) - 1 + 1) * P
    BY <1>2, <2>1 DEF SpaceInv
  <2>3. (n + 1) - 1 + 1 = n + 1 BY <1>2
  <2> HIDE DEF P
  <2>4. (n + 1) * P <= MAX_PAYLOADS_BUFFERABLE * P
    <3>1. PICK r \in Nat : MAX_PAYLOADS_BUFFERABLE = (n + 1) + r
      <4>1. MAX_PAYLOADS_BUFFERABLE - (n + 1) \in Nat BY <1>0, <1>2
      <4>2. MAX_PAYLOADS_BUFFERABLE
              = (n + 1) + (MAX_PAYLOADS_BUFFERABLE - (n + 1))
        BY <1>0, <1>2
      <4> QED BY <4>1, <4>2
    <3>2. ((n + 1) + r) * P = (n + 1) * P + r * P BY <1>0, <1>2, <3>1
    <3>3. r * P \in Nat /\ (n + 1) * P \in Nat BY <1>0, <1>2, <3>1
    <3> QED BY <3>1, <3>2, <3>3
  <2>5. sender_buffer'[a][1].lo \in Nat
    <3>1. sender_buffer'[a][1] \in Payload BY <1>2, <2>1
    <3> QED BY <3>1 DEF Payload
  <2>6. PICK q, r : q = (n + 1) * P /\ r = MAX_PAYLOADS_BUFFERABLE * P OBVIOUS
  <2>7. q \in Nat /\ r \in Nat BY <1>0, <1>2, <2>6
  <2>8. (written[a] + k) - sender_buffer'[a][1].lo <= q
    BY <1>2, <2>2, <2>3, <2>6
  <2>9. (written[a] + k) - sender_buffer'[a][1].lo \in Int BY <1>2, <2>5
  <2>10. q <= r BY <2>4, <2>6
  <2>11. (written[a] + k) - sender_buffer'[a][1].lo <= r
    BY <2>7, <2>8, <2>9, <2>10
  <2>12. written[a] + k - Confirmed(a) <= r
    BY <1>2, <1>3, <2>5, <2>7, <2>11
  <2> QED BY <2>6, <2>12 DEF P
<1>6. /\ Received(a)' = Received(a) /\ delivered'[a] = delivered[a]
  BY DEF Received, receiverVars
<1>7. Confirmed(a)' = Confirmed(a) BY <1>3, <1>4
<1> QED BY <1>0, <1>2, <1>5, <1>6, <1>7, StreamWrites

\* HandlerADAT() is Confirm, or nothing when the ADAT is old: what it drops from
\* the buffer has been received.
LEMMA AdatRefines ==
  ASSUME IInv, TypeOK', BoundsInv, BoundsInv', NEW a \in Addrs, NEW m \in toSender, HandlerADAT(a, m),
         UNCHANGED receiverVars, \A b \in Addrs \ {a} : SameStream(b)
  PROVE  Stream!Confirm(a) \/ UNCHANGED Stream!streamVars
<1>0. /\ TypeOK /\ AddrInv(a) /\ OrderInv(a) /\ StreamTyped /\ StreamTyped'
  BY TypeGivesStream DEF IInv, StreamInv, AddrInv
<1>1. /\ written'[a] = written[a] /\ delivered'[a] = delivered[a]
      /\ Received(a)' = Received(a)
  BY DEF HandlerADAT, Received, receiverVars
<1>2. ASSUME Confirmed(a)' = Confirmed(a) PROVE UNCHANGED Stream!streamVars
  <2>1. \A b \in Addrs : SameStream(b) BY <1>1, <1>2 DEF SameStream
  <2> QED BY <1>0, <2>1, StreamStutters
<1>3. CASE ~(frag_difference(a, m) > 0)
  <2>1. Confirmed(a)' = Confirmed(a)
    BY <1>1, <1>3 DEF HandlerADAT, bufferVars, Confirmed
  <2> QED BY <1>2, <2>1
<1>4. CASE frag_difference(a, m) > 0
  <2>1. PICK n, d : n = Len(sender_buffer[a]) /\ d = frag_difference(a, m)
    OBVIOUS
  <2>2. /\ n \in Nat /\ d \in Nat /\ 1 <= d /\ d <= n
        /\ sender_buffer'[a] \in Seq(Payload) /\ Len(sender_buffer'[a]) = n - d
        /\ \A i \in 1 .. n - d : sender_buffer'[a][i] = sender_buffer[a][d + i]
    BY <1>0, <1>4, <2>1, AdatEffect
  <2>2a. sender_buffer[a] \in Seq(Payload) /\ written[a] \in Nat
    BY <1>0 DEF TypeOK, SenderTypeOK
  <2>3. \A i \in 1 .. n : /\ sender_buffer[a][i].lo \in Nat
                          /\ sender_buffer[a][i].len \in Nat
    <3>1. \A i \in 1 .. n : sender_buffer[a][i] \in Payload BY <2>1, <2>2a
    <3> QED BY <3>1 DEF Payload
  <2>4. Confirmed(a) = sender_buffer[a][1].lo /\ 1 \in 1 .. n
    <3>1. sender_buffer[a] # <<>> BY <2>1, <2>2, <2>2a, NoElements
    <3> QED BY <2>2, <3>1 DEF Confirmed
  <2>5. Confirmed(a)' \in Nat /\ Confirmed(a)' >= Confirmed(a)
    <3>1. CASE d = n
      <4>1. sender_buffer'[a] = <<>> BY <2>2, <3>1
      <4>2. Confirmed(a)' = written[a] BY <1>1, <4>1 DEF Confirmed
      <4>3. sender_buffer[a][1].lo + sender_buffer[a][1].len <= written[a]
        BY <1>0, <2>1, <2>4 DEF OrderInv
      <4> QED BY <2>2a, <2>3, <2>4, <4>2, <4>3
    <3>2. CASE d # n
      <4>1. /\ sender_buffer'[a] # <<>> /\ 1 \in 1 .. n - d /\ d + 1 \in 1 .. n
            /\ 1 \in 1 .. (d + 1) - 1
        BY <2>2, <3>2
      <4>2. Confirmed(a)' = sender_buffer[a][d + 1].lo
        BY <2>2, <4>1 DEF Confirmed
      <4>3. sender_buffer[a][1].lo <= sender_buffer[a][d + 1].lo
        BY <1>0, <2>1, <4>1 DEF OrderInv
      <4> QED BY <2>3, <2>4, <4>1, <4>2, <4>3
    <3> QED BY <3>1, <3>2
  <2>6. Confirmed(a)' <= Received(a)' /\ Received(a) \in Nat
    BY DEF BoundsInv
  <2>7. Confirmed(a) \in Nat BY <2>3, <2>4
  <2>8. CASE Confirmed(a)' = Confirmed(a) BY <1>2, <2>8
  <2>9. CASE Confirmed(a)' # Confirmed(a)
    <3>1. PICK k : k = Confirmed(a)' - Confirmed(a) OBVIOUS
    <3>2. /\ k \in 1 .. Received(a) - Confirmed(a)
          /\ Confirmed(a)' = Confirmed(a) + k
      BY <1>1, <2>5, <2>6, <2>7, <2>9, <3>1
    <3> QED BY <1>0, <1>1, <3>2, StreamConfirms
  <2> QED BY <2>8, <2>9
<1> QED BY <1>3, <1>4

\* Every step of a sender process.
LEMMA SenderRefines ==
  ASSUME IInv, TypeOK', BoundsInv, BoundsInv', NEW a \in Addrs, SpaceInv(a), SpaceInv(a)',
         SenderStep(a), UNCHANGED receiverVars
  PROVE  Stream!Next \/ UNCHANGED Stream!streamVars
<1>0. TypeOK /\ AddrInv(a) /\ StreamTyped /\ StreamTyped'
  BY TypeGivesStream DEF IInv, StreamInv, AddrInv
<1>1. \A b \in Addrs \ {a} : SameStream(b)
  BY <1>0, SenderStepOther, SameEndsSameStream
<1>2. ASSUME SameStream(a) PROVE UNCHANGED Stream!streamVars
  BY <1>0, <1>1, <1>2, StreamStutters
<1>3. CASE AppControl(a) BY <1>0, <1>2, <1>3, AppSameEnds, SameEndsSameStream
<1>4. CASE send_copy(a) BY <1>1, <1>4, CopyRefines DEF Stream!Next
<1>5. ASSUME NEW m \in toSender, HandlerACON(a, m)
      PROVE  UNCHANGED Stream!streamVars
  <2>1. SameStream(a)
    BY <1>5 DEF HandlerACON, bufferVars, SameStream, Received, Confirmed,
                receiverVars
  <2> QED BY <1>2, <2>1
<1>6. ASSUME NEW m \in toSender, HandlerADAT(a, m)
      PROVE  Stream!Next \/ UNCHANGED Stream!streamVars
  BY <1>1, <1>6, AdatRefines DEF Stream!Next
<1>7. CASE \/ SenderThreadStep(a) \/ CheckerStep(a) \/ HandlerCleanup(a)
           \/ \E m \in toSender : HandlerBreak(a, m) \/ HandlerACLS(a, m)
  BY <1>0, <1>2, <1>7, ThreadsSame, SameEndsSameStream
<1> QED
  BY <1>3, <1>4, <1>5, <1>6, <1>7 DEF SenderStep, AppControl, HandlerStep

\* A DATA that main_handler() accepts carries a payload, and a short enough one.
LEMMA AcceptedPayload ==
  ASSUME TypeOK, QueueInv, NEW m \in toReceiver, m.src \in Addrs,
         AddrInv(m.src), NEW s \in SenderIds, DataAccept(m, s)
  PROVE  m.len \in Int /\ 1 <= m.len /\ m.len <= MAX_MRT_PAYLOAD_LENGTH
<1>1. PICK a \in Addrs : a = m.src OBVIOUS
<1>2. m.frag \in Int /\ m.len \in Int
  BY DEF TypeOK, NetTypeOK, ToReceiverMsg
<1>3. s = home[a] /\ home[a] # NULL
  BY <1>1, FoundIsHome DEF DataAccept, MainReceives
<1>4. m.type = "DATA" /\ m.frag = next_frag[s]
  BY DEF DataAccept, MainReceives, Accepts
<1>5. /\ next_frag[s] \in Int /\ last_acknowledged_frag[a] \in Int
      /\ sender_buffer[a] \in Seq(Payload)
  BY DEF TypeOK, ReceiverTypeOK, SenderTypeOK
<1>6. Base(a) \in Int BY <1>5 DEF Base
<1>7. BufferInv(a) /\ PositionInv(a) /\ DataOk(m) /\ StartedInv(a)
  BY <1>1 DEF AddrInv, EndsInv, FlightInv
<1>8. Taken(a) = m.frag - 1 /\ Base(a) <= Taken(a)
  BY <1>3, <1>4, <1>7 DEF Taken, PositionInv
<1>9. Base(a) >= 0 BY <1>5, <1>7 DEF Base, StartedInv
<1>10. m.frag > Base(a) /\ m.frag # -1 BY <1>2, <1>6, <1>8, <1>9
<1>11. /\ m.frag <= Base(a) + Len(sender_buffer[a])
       /\ m.len = Held(a, m.frag).len
  BY <1>1, <1>4, <1>7, <1>10 DEF DataOk
<1>12. PICK j : j = m.frag - Base(a) OBVIOUS
<1>13. j \in 1 .. Len(sender_buffer[a])
  BY <1>2, <1>5, <1>6, <1>10, <1>11, <1>12
<1>14. m.len = sender_buffer[a][j].len BY <1>11, <1>12 DEF Held
<1> QED BY <1>2, <1>7, <1>13, <1>14 DEF BufferInv

\* DataAccept() is Receive: the payload is the next one and fits.
LEMMA AcceptRefines ==
  ASSUME IInv, TypeOK', WindowNotOverrun', BoundsInv, BoundsInv',
         NEW m \in toReceiver, NEW s \in SenderIds, DataAccept(m, s),
         UNCHANGED senderVars
  PROVE  Stream!Next
<1>0. /\ TypeOK /\ QueueInv /\ StreamTyped /\ StreamTyped'
      /\ m \in ToReceiverMsg /\ m.src \in Addrs
  BY TypeGivesStream DEF IInv, TypeOK, NetTypeOK, ToReceiverMsg
<1>1. PICK a \in Addrs : a = m.src BY <1>0
<1>2. AddrInv(a) BY DEF IInv, StreamInv, AddrInv
<1>3. s = home[a] /\ home[a] # NULL
  BY <1>0, <1>1, FoundIsHome DEF DataAccept, MainReceives
<1>4. /\ UNCHANGED <<home, delivered>>
      /\ \A t \in SenderIds \ {s} :
           buffer'[t] = buffer[t] /\ next_frag'[t] = next_frag[t]
      /\ buffer'[s] = buffer[s] \o payload_bytes(m)
  BY <1>0 DEF DataAccept, callVars, TypeOK, ReceiverTypeOK
<1>5. \A b \in Addrs \ {a} : SameStream(b)
  BY <1>0, <1>3, <1>4, ReceiverStepOther, SameEndsSameStream
<1>6. m.len \in Int /\ 1 <= m.len /\ m.len <= MAX_MRT_PAYLOAD_LENGTH
  BY <1>0, <1>1, <1>2, AcceptedPayload
<1>7. /\ buffer[s] \in Seq(Nat) /\ delivered[a] \in Seq(Nat)
      /\ buffer' \in [SenderIds -> Seq(Nat)] /\ buffer'[s] \in Seq(Nat)
  BY <1>0 DEF TypeOK, ReceiverTypeOK
<1>8. PICK D, B : D = Len(delivered[a]) /\ B = Len(buffer[s]) OBVIOUS
<1>9. D \in Nat /\ B \in Nat BY <1>7, <1>8
<1>10. Len(buffer'[s]) = B + m.len
  <2>1. PICK e : e = payload_bytes(m) OBVIOUS
  <2>2. e \in Seq(Nat) /\ Len(e) = m.len BY <1>0, <1>6, <2>1, PayloadBytesType
  <2> QED BY <1>4, <1>7, <1>8, <2>1, <2>2
<1>11. Received(a) = D + B BY <1>3, <1>8 DEF Received
<1>12. Received(a)' = D + (B + m.len) BY <1>3, <1>4, <1>8, <1>10 DEF Received
<1>13. Received(a)' = Received(a) + m.len BY <1>6, <1>9, <1>11, <1>12
<1>14. Received(a) + m.len <= written[a]
  <2>1. Received(a)' <= written'[a] BY DEF BoundsInv
  <2> QED BY <1>13, <2>1 DEF senderVars
<1>15. Received(a) + m.len - Len(delivered[a]) <= RECEIVER_MAX_WINDOW_SIZE
  <2>1. Len(buffer'[s]) <= RECEIVER_MAX_WINDOW_SIZE
    BY DEF WindowNotOverrun, RECEIVER_MAX_WINDOW_SIZE
  <2>2. Received(a) + m.len - D = B + m.len BY <1>6, <1>9, <1>11
  <2> QED BY <1>8, <1>10, <2>1, <2>2
<1>16. /\ written'[a] = written[a] /\ Confirmed(a)' = Confirmed(a)
       /\ delivered'[a] = delivered[a]
  BY <1>4 DEF senderVars, Confirmed
<1>17. m.len \in 1 .. MAX_MRT_PAYLOAD_LENGTH BY <1>6, NetworkAssumption
<1>18. Stream!Receive(a)
  BY <1>0, <1>5, <1>13, <1>14, <1>15, <1>16, <1>17, StreamReceives
<1> QED BY <1>18 DEF Stream!Next

\* receive1_data() is Deliver: it hands over the next bytes, in order.
LEMMA ReadRefines ==
  ASSUME IInv, TypeOK', NEW a \in Addrs, NEW s \in SenderIds,
         NEW len \in ReceiveLens, receive1_data(a, s, len), UNCHANGED senderVars
  PROVE  Stream!Next
<1>0. /\ TypeOK /\ QueueInv /\ AddrInv(a) /\ StreamTyped /\ StreamTyped'
  BY TypeGivesStream DEF IInv, StreamInv, AddrInv
<1>1. PICK n : n = bytes_read(s, len) OBVIOUS
<1>2. buffer[s] \in Seq(Nat) /\ delivered[a] \in Seq(Nat)
  BY <1>0 DEF TypeOK, ReceiverTypeOK
<1>3. PICK D, B : D = Len(delivered[a]) /\ B = Len(buffer[s]) OBVIOUS
<1>4. D \in Nat /\ B \in Nat /\ B # 0
  BY <1>2, <1>3, NoElements DEF receive1_data
<1>5. n \in Nat /\ 1 <= n /\ n <= B
  BY <1>1, <1>3, <1>4, ReceiverAssumption DEF bytes_read
<1>6. s = home[a] /\ home[a] # NULL
  BY <1>0, FoundIsHome DEF receive1_data, QueuesExist
<1>7. /\ delivered'[a] = delivered[a] \o SubSeq(buffer[s], 1, n)
      /\ buffer'[s] = SubSeq(buffer[s], n + 1, Len(buffer[s]))
      /\ UNCHANGED <<home, next_frag>>
      /\ \A b \in Addrs \ {a} : delivered'[b] = delivered[b]
      /\ \A t \in SenderIds \ {s} : buffer'[t] = buffer[t]
  BY <1>0, <1>1
  DEF receive1_data, bytes_remaining, TypeOK, ReceiverTypeOK
<1>8. \A b \in Addrs \ {a} : SameStream(b)
  BY <1>0, <1>6, <1>7, ReceiverStepOther, SameEndsSameStream
<1>9. SubSeq(buffer[s], 1, n) = [i \in 1 .. n |-> Len(delivered[a]) + i]
  <2>1. \A i \in 1 .. B : buffer[s][i] = Len(delivered[a]) + i
    BY <1>0, <1>3, <1>6 DEF AddrInv, EndsInv, ContentInv
  <2>2. SubSeq(buffer[s], 1, n) = [i \in 1 .. n |-> buffer[s][i]]
    BY <1>2, <1>3, <1>4, <1>5
  <2>3. \A i \in 1 .. n : i \in 1 .. B BY <1>4, <1>5
  <2> QED BY <2>1, <2>2, <2>3
<1>10. Received(a) = D + B BY <1>3, <1>6 DEF Received
<1>11. Received(a)' = Received(a)
  <2>1. Len(buffer'[s]) = B - n
    <3>1. PICK q : q = buffer[s] OBVIOUS
    <3>2. q \in Seq(Nat) /\ Len(q) = B BY <1>2, <1>3, <3>1
    <3>3. Len(SubSeq(q, n + 1, Len(q))) = B - n BY <1>4, <1>5, <3>2
    <3> QED BY <1>7, <3>1, <3>3
  <2>2. Len(delivered'[a]) = D + n
    <3>1. PICK e : e = SubSeq(buffer[s], 1, n) OBVIOUS
    <3>2. e \in Seq(Nat) /\ Len(e) = n BY <1>2, <1>3, <1>4, <1>5, <3>1
    <3> QED BY <1>2, <1>3, <1>7, <3>1, <3>2
  <2>3. Received(a)' = (D + n) + (B - n)
    BY <1>6, <1>7, <2>1, <2>2 DEF Received
  <2> QED BY <1>4, <1>5, <1>10, <2>3
<1>12. n \in 1 .. Received(a) - Len(delivered[a])
  <2>1. Received(a) - Len(delivered[a]) = B BY <1>3, <1>4, <1>10
  <2> QED BY <1>4, <1>5, <2>1
<1>13. written'[a] = written[a] /\ Confirmed(a)' = Confirmed(a)
  BY DEF senderVars, Confirmed
<1>14. Stream!Deliver(a)
  BY <1>0, <1>7, <1>8, <1>9, <1>11, <1>12, <1>13, StreamDelivers
<1> QED BY <1>14 DEF Stream!Next

\* The other steps of the receiver are none: a sender_t made, connected or freed
\* holds no byte, and a rejected DATA leaves no trace.
LEMMA QuietRefines ==
  ASSUME IInv, TypeOK', ReceiverStep, UNCHANGED senderVars,
         ~ \E m \in toReceiver, s \in SenderIds : DataAccept(m, s),
         ~ \E a \in Addrs, s \in SenderIds, len \in ReceiveLens :
             receive1_data(a, s, len)
  PROVE  UNCHANGED Stream!streamVars
<1>0. TypeOK /\ QueueInv /\ StreamTyped /\ StreamTyped'
  BY TypeGivesStream DEF IInv
<1>1. SUFFICES ASSUME NEW b \in Addrs PROVE SameStream(b)
  BY <1>0, StreamStutters
<1>2. CASE UNCHANGED <<buffer, home, delivered>>
  BY <1>2 DEF SameStream, Received, Confirmed, senderVars
<1>3. CASE accept1_enq
  <2>1. /\ accepting \in SenderIds /\ Fresh(accepting)
        /\ home \in [Addrs -> SenderIds \cup {NULL}]
        /\ UNCHANGED <<buffer, delivered>>
    BY <1>0, <1>3
    DEF accept1_enq, objectVars, callVars, QueueInv, AcceptingInv, TypeOK,
        ReceiverTypeOK
  <2>2. CASE home'[b] = home[b]
    BY <2>1, <2>2 DEF SameStream, Received, Confirmed, senderVars
  <2>3. CASE home'[b] # home[b]
    <3>1. /\ home'[b] = accepting /\ accepting # NULL
          /\ Absent(connected_senders_q, b)
      BY <1>3, <2>1, <2>3 DEF accept1_enq
    <3>2. home[b] = NULL
      <4>1. main_thread # "done" BY <1>3 DEF accept1_enq, QueuesExist
      <4>2. connected_senders_q \in Seq(SenderIds)
        BY <1>0 DEF TypeOK, ReceiverTypeOK
      <4>3. home[b] # NULL => Found(connected_senders_q, b, home[b])
        BY <1>0, <4>1 DEF QueueInv, HomeInv
      <4> QED BY <3>1, <4>2, <4>3, FoundIsThere
    <3>3. delivered[b] = <<>> BY <3>2 DEF IInv, StreamInv, EndsInv, ContentInv
    <3>4. Received(b)' = 0
      BY <2>1, <3>1, <3>3 DEF Received, Fresh
    <3>5. Received(b) = 0 BY <3>2 DEF Received
    <3> QED BY <2>1, <3>4, <3>5 DEF SameStream, Confirmed, senderVars
  <2> QED BY <2>2, <2>3
<1>4. ASSUME NEW m \in toReceiver, NEW s \in SenderIds, RconNew(m, s)
      PROVE  SameStream(b)
  <2>1. home[b] # s BY <1>0, <1>4, NewIsNotHome
  <2>2. home[b] # NULL => home[b] \in SenderIds
    BY <1>0 DEF TypeOK, ReceiverTypeOK
  <2>3. SameEnds(b)
    BY <1>0, <1>4, <2>1, <2>2
    DEF SameEnds, RconNew, senderVars, callVars, TypeOK, ReceiverTypeOK
  <2> QED BY <2>3, SameEndsSameStream
<1>5. CASE ReceiverAppStep
  BY <1>2, <1>3, <1>5
  DEF ReceiverAppStep, mrt_open, accept1_deq, mrt_close, receive1_spurious,
      mrt_receive1, receive1_timed_out, receive1_dropped, objectVars, callVars
<1>6. CASE MainHandlerStep
  BY <1>2, <1>4, <1>6
  DEF MainHandlerStep, MainBreak, RconConnected, RconPending, DataUnknown,
      RclsUnknown, DataReject, RclsConnected, RclsPending, MainCleanup,
      objectVars, callVars, receiverVars
<1>7. CASE TimeoutStep
  BY <1>2, <1>7 DEF TimeoutStep, TimeoutTick, CancelledTick, objectVars, callVars
<1> QED BY <1>5, <1>6, <1>7 DEF ReceiverStep

\* Every step of Mrt maps to a step of the stream or to none.
LEMMA StepRefines ==
  ASSUME IInv, TypeOK', WindowNotOverrun', BoundsInv, BoundsInv',
         \A a \in Addrs : SpaceInv(a), \A a \in Addrs : SpaceInv(a)', [Next]_vars
  PROVE  [Stream!Next]_(Stream!streamVars)
<1>1. ASSUME NEW a \in Addrs, SenderStep(a), UNCHANGED receiverVars
      PROVE  Stream!Next \/ UNCHANGED Stream!streamVars
  BY <1>1, SenderRefines
<1>2. CASE ReceiverStep /\ UNCHANGED senderVars
  <2>1. CASE \E m \in toReceiver, s \in SenderIds : DataAccept(m, s)
    BY <1>2, <2>1, AcceptRefines
  <2>2. CASE \E a \in Addrs, s \in SenderIds, len \in ReceiveLens :
               receive1_data(a, s, len)
    BY <1>2, <2>2, ReadRefines
  <2> QED BY <1>2, <2>1, <2>2, QuietRefines
<1>3. CASE UNCHANGED <<senderVars, receiverVars>>
  <2>1. \A b \in Addrs : SameStream(b)
    BY <1>3 DEF SameStream, Received, Confirmed, senderVars, receiverVars
  <2>2. StreamTyped /\ StreamTyped' BY TypeGivesStream DEF IInv
  <2> QED BY <2>1, <2>2, StreamStutters
<1> QED BY <1>1, <1>2, <1>3 DEF Next, vars

\* Every stream is empty at the start.
LEMMA InitRefines == Init => Stream!Init
<1> SUFFICES ASSUME Init PROVE Stream!Init OBVIOUS
<1>1. ASSUME NEW a \in Addrs PROVE Received(a) = 0 /\ Confirmed(a) = 0
  BY <1>1 DEF Init, SenderInit, ReceiverInit, Received, Confirmed
<1>2. /\ [a \in Addrs |-> Received(a)] = [a \in Addrs |-> 0]
      /\ [a \in Addrs |-> Confirmed(a)] = [a \in Addrs |-> 0]
  BY <1>1
<1> QED BY <1>2 DEF Init, SenderInit, ReceiverInit, Stream!Init

\* MRT implements the reliable stream: whatever the network loses, repeats or
\* reorders, whatever timer expires, every step of the protocol is a step of
\* the stream or none.
THEOREM ImplementsStreamHolds == Spec => ImplementsStream
<1> DEFINE Space == \A a \in Addrs : SpaceInv(a)
<1>1. Init => Stream!Init BY InitRefines
<1>2. Init => Space
  BY DEF Init, SenderInit, SpaceInv
<1>3. IInv /\ Space /\ [Next]_vars => Space' BY SpaceStep
<1>4. IInv => TypeOK /\ WindowNotOverrun /\ BoundsInv
  BY StreamBounds DEF IInv, BoundsInv
<1>5. /\ IInv /\ TypeOK' /\ WindowNotOverrun' /\ BoundsInv /\ BoundsInv'
      /\ Space /\ Space' /\ [Next]_vars
      => [Stream!Next]_(Stream!streamVars)
  BY StepRefines
<1> HIDE DEF Space
<1> QED
  BY <1>1, <1>2, <1>3, <1>4, <1>5, InvariantHolds, PTL
  DEF Spec, ImplementsStream, Stream!Spec

===============================================================================
