------------------------------ MODULE MrtStreamProofs ------------------------------
(***************************************************************************)
(* Type correctness of Mrt, and the two ends of a stream: every step       *)
(* preserves TypeOK and StreamInv, for every value of the constants.       *)
(***************************************************************************)
EXTENDS MrtInv, MrtQueueProofs

(* Type correctness. *)

\* frags_needed() is the ceiling division it is meant to be.
LEMMA FragsNeeded ==
  ASSUME NEW n \in Nat
  PROVE  /\ frags_needed(n) \in Nat
         /\ frags_needed(n) * MAX_MRT_PAYLOAD_LENGTH >= n
         /\ (frags_needed(n) - 1) * MAX_MRT_PAYLOAD_LENGTH < n
<1> DEFINE P == MAX_MRT_PAYLOAD_LENGTH
           q == n \div P
<1>0. P \in Nat /\ P > 0 BY NetworkAssumption
<1> HIDE DEF P
<1>1. q \in Int BY <1>0
<1>2. q * P <= n /\ n < (q + 1) * P BY <1>0
<1>3. n % P = n - P * q BY <1>0
<1>4. frags_needed(n) = q + (IF n % P # 0 THEN 1 ELSE 0)
  BY DEF frags_needed, P
<1> HIDE DEF q
<1>5. q >= 0 BY <1>0, <1>1, <1>2
<1>6. CASE n % P = 0
  <2>1. q * P = n BY <1>0, <1>1, <1>3, <1>6
  <2>2. (q - 1) * P = n - P BY <1>0, <1>1, <2>1
  <2> QED BY <1>0, <1>1, <1>4, <1>5, <1>6, <2>1, <2>2 DEF P
<1>7. CASE n % P # 0
  <2>1. q * P < n BY <1>0, <1>1, <1>2, <1>3, <1>7
  <2> QED BY <1>0, <1>1, <1>2, <1>4, <1>5, <1>7, <2>1 DEF P
<1> QED BY <1>6, <1>7

\* A step of the application keeps the variables of the sender well typed.
LEMMA AppSenderType ==
  ASSUME SenderTypeOK, NEW a \in Addrs, SendInv(a), AppStep(a)
  PROVE  SenderTypeOK'
<1> USE DEF SenderTypeOK, SenderPC, goto, bufferVars, ackVars, closeVars, threadVars,
            senderLocal, sendVars, NO_RESULT
<1>1. CASE mrt_connect(a) BY <1>1 DEF mrt_connect
<1>2. CASE connect_rcon(a) BY <1>2 DEF connect_rcon, senderVars
<1>3. CASE connect_return(a) BY <1>3 DEF connect_return
<1>4. CASE \E n \in SendLens : mrt_send(a, n)
  <2>1. PICK n \in Nat : mrt_send(a, n) BY <1>4, SenderAssumption
  <2>2. send_len' \in [Addrs -> Nat] BY <2>1 DEF mrt_send
  <2>3. num_bytes_copied' \in [Addrs -> Nat] BY <2>1 DEF mrt_send
  <2> QED BY <2>1, <2>2, <2>3 DEF mrt_send
<1>5. CASE send_spurious(a) BY <1>5 DEF send_spurious
<1>6. CASE send_enter(a)
  <2>1. frags_needed(send_len[a]) \in Nat BY FragsNeeded
  <2>2. final_frag' \in [Addrs -> Int] BY <1>6, <2>1 DEF send_enter
  <2> QED BY <1>6, <2>2 DEF send_enter
<1>7. CASE send_lookup(a) BY <1>7 DEF send_lookup
<1>8. CASE send_dropped(a) BY <1>8 DEF send_dropped
<1>9. CASE send_acked(a) BY <1>9 DEF send_acked
<1>10. CASE send_not_acked(a) BY <1>10 DEF send_not_acked
<1>11. CASE send_copy(a)
  <2> DEFINE n == num_bytes_to_copy(a)
             payload == [lo |-> written[a], len |-> n]
  <2>1. n \in Int BY NetworkAssumption DEF num_bytes_to_copy
  <2>2. n \in Nat
    BY SMTT(60), <1>11, NetworkAssumption DEF num_bytes_to_copy, send_copy, SendInv
  <2>3. payload \in Payload BY <2>2 DEF Payload
  <2>4. sender_buffer' \in [Addrs -> Seq(Payload)]
    <3>1. sender_buffer' = [sender_buffer EXCEPT ![a] = Append(@, payload)]
      BY <1>11 DEF send_copy
    <3> HIDE DEF payload
    <3> QED BY <2>3, <3>1
  <2> HIDE DEF n
  <2>5. last_payload_index' \in [Addrs -> Int] BY <1>11 DEF send_copy
  <2>6. num_bytes_copied' \in [Addrs -> Nat] BY SMTT(60), <1>11, <2>2 DEF send_copy, n
  <2>7. written' \in [Addrs -> Nat] BY SMTT(60), <1>11, <2>2 DEF send_copy, n
  <2> QED BY <1>11, <2>4, <2>5, <2>6, <2>7 DEF send_copy
<1>12. CASE send_no_space(a) BY <1>12 DEF send_no_space
<1>13. CASE mrt_disconnect(a) BY <1>13 DEF mrt_disconnect
<1>14. CASE disc_lookup(a) BY <1>14 DEF disc_lookup
<1>15. CASE disc_check(a) BY <1>15 DEF disc_check
<1>16. CASE disc_rcls(a) BY <1>16 DEF disc_rcls
<1>17. CASE disc_trick(a)
  <2>1. inactive_time' \in [Addrs -> Nat]
    BY <1>17, SenderAssumption DEF disc_trick
  <2> QED BY <1>17, <2>1 DEF disc_trick
<1> QED
  BY <1>1, <1>2, <1>3, <1>4, <1>5, <1>6, <1>7, <1>8, <1>9, <1>10, <1>11, <1>12,
     <1>13, <1>14, <1>15, <1>16, <1>17 DEF AppStep

\* A step of handler() keeps the variables of the sender well typed.
LEMMA HandlerSenderType ==
  ASSUME SenderTypeOK, NetTypeOK, NEW a \in Addrs, HandlerStep(a)
  PROVE  SenderTypeOK'
<1> USE DEF SenderTypeOK, bufferVars, ackVars, closeVars, threadVars,
            senderLocal, sendVars, NO_RESULT
<1>1. CASE \E m \in toSender : HandlerBreak(a, m) BY <1>1 DEF HandlerBreak
<1>2. CASE \E m \in toSender : HandlerACON(a, m)
  <2>1. PICK m \in toSender : HandlerACON(a, m) BY <1>2
  <2>2. sender_thread' \in {sender_thread, [sender_thread EXCEPT ![a] = "run"]}
    BY <2>1 DEF HandlerACON
  <2>3. checker_thread' \in {checker_thread, [checker_thread EXCEPT ![a] = "run"]}
    BY <2>1 DEF HandlerACON
  <2>4. last_acknowledged_frag' \in
          {last_acknowledged_frag, [last_acknowledged_frag EXCEPT ![a] = 0]}
    BY <2>1 DEF HandlerACON
  <2>5. UNCHANGED <<bufferVars, receiver_window_size, closeVars, senderLocal,
                    handler_thread, connections_q, pc, sendVars, written>>
    BY <2>1 DEF HandlerACON
  <2>6. sender_thread' \in [Addrs -> {"none", "run", "done"}] BY <2>2
  <2>7. checker_thread' \in [Addrs -> {"none", "run", "closing", "done"}]
    BY <2>3
  <2>8. [last_acknowledged_frag EXCEPT ![a] = 0] \in [Addrs -> Int]
    OBVIOUS
  <2>9. last_acknowledged_frag' \in [Addrs -> Int] BY <2>4, <2>8
  <2> QED BY <2>5, <2>6, <2>7, <2>9
<1>3. CASE \E m \in toSender : HandlerADAT(a, m)
  <2>1. PICK m \in toSender : HandlerADAT(a, m) BY <1>3
  <2>2. m.frag \in Int /\ m.win \in Int BY DEF NetTypeOK, ToSenderMsg
  <2>3. frag_difference(a, m) \in Int BY <2>2 DEF frag_difference
  <2>4. ASSUME frag_difference(a, m) > 0
        PROVE  SubSeq(sender_buffer[a], frag_difference(a, m) + 1,
                      Len(sender_buffer[a])) \in Seq(Payload)
    BY <2>3, <2>4
  <2>5. sender_buffer' \in [Addrs -> Seq(Payload)]
    BY <2>1, <2>4 DEF HandlerADAT, num_payloads_freed
  <2>6. last_payload_index' \in [Addrs -> Int]
    <3>1. \/ UNCHANGED last_payload_index
          \/ last_payload_index' =
               [last_payload_index EXCEPT ![a] = @ - frag_difference(a, m)]
      BY <2>1 DEF HandlerADAT, num_payloads_freed
    <3>2. last_payload_index[a] - frag_difference(a, m) \in Int BY <2>3
    <3> QED BY <3>1, <3>2
  <2>7. /\ last_acknowledged_frag' \in [Addrs -> Int]
        /\ receiver_window_size' \in [Addrs -> Int]
        /\ inactive_time' \in [Addrs -> Nat]
    <3>1. last_acknowledged_frag' \in [Addrs -> Int]
      BY ZenonT(60), <2>1, <2>2 DEF HandlerADAT, ackVars
    <3>2. receiver_window_size' \in [Addrs -> Int]
      BY ZenonT(60), <2>1, <2>2 DEF HandlerADAT, ackVars
    <3>3. inactive_time' \in [Addrs -> Nat] BY SMTT(60), <2>1 DEF HandlerADAT
    <3> QED BY <3>1, <3>2, <3>3
  <2> QED BY <2>1, <2>5, <2>6, <2>7 DEF HandlerADAT
<1>4. CASE \E m \in toSender : HandlerACLS(a, m)
  BY SMTT(60), <1>4, SenderAssumption DEF HandlerACLS
<1>5. CASE HandlerCleanup(a) BY <1>5 DEF HandlerCleanup
<1> QED BY <1>1, <1>2, <1>3, <1>4, <1>5 DEF HandlerStep

\* A step of sender() or checker() keeps the variables of the sender well typed.
LEMMA ThreadSenderType ==
  ASSUME SenderTypeOK, NEW a \in Addrs, SenderThreadStep(a) \/ CheckerStep(a)
  PROVE  SenderTypeOK'
<1> USE DEF SenderTypeOK, bufferVars, ackVars, closeVars, threadVars,
            senderLocal, sendVars, NO_RESULT
<1>1. CASE SenderExit(a) BY <1>1 DEF SenderExit
<1>2. CASE SenderEmpty(a) BY SMTT(60), <1>2 DEF SenderEmpty
<1>3. CASE SenderData(a) BY SMTT(60), <1>3 DEF SenderData
<1>4. CASE CheckerTick(a) BY SMTT(60), <1>4 DEF CheckerTick
<1>5. CASE CheckerClose(a) BY <1>5 DEF CheckerClose
<1> QED BY <1>1, <1>2, <1>3, <1>4, <1>5 DEF SenderThreadStep, CheckerStep

\* What a step of the sender puts on the network is well typed.
LEMMA SenderNetType ==
  ASSUME TypeOK, NEW a \in Addrs, StartedInv(a), BufferInv(a), SenderStep(a)
  PROVE  NetTypeOK'
<1>1. ASSUME NEW m \in ToReceiverMsg,
             toReceiver' \in {sendto(toReceiver, m), toReceiver},
             UNCHANGED toSender
      PROVE  NetTypeOK'
  BY <1>1, SendtoAdds, NetTypeStep DEF TypeOK
<1>2. ASSUME NEW m, toSender' \in recvfrom(toSender, m), UNCHANGED toReceiver
      PROVE  NetTypeOK'
  BY <1>2, RecvfromTakes, NetTypeStep DEF TypeOK
<1>3. ASSUME UNCHANGED netVars PROVE NetTypeOK'
  BY <1>3 DEF netVars, TypeOK, NetTypeOK
<1>4. build_rcon(a) \in ToReceiverMsg /\ build_rcls(a) \in ToReceiverMsg
  BY DEF build_rcon, build_rcls, initial_frag, ToReceiverMsg
<1>5. build_data_empty(a) \in ToReceiverMsg
  BY DEF build_data_empty, MRT_WINDOWSIZE_LENGTH, ToReceiverMsg
<1>6. CASE AppStep(a)
  <2>1. CASE connect_rcon(a) BY <1>1, <1>4, <2>1 DEF connect_rcon
  <2>2. CASE disc_rcls(a) BY <1>1, <1>4, <2>2 DEF disc_rcls
  <2>3. CASE UNCHANGED netVars BY <1>3, <2>3
  <2>4. CASE \E n \in SendLens : mrt_send(a, n) BY <2>3, <2>4 DEF mrt_send
  <2> QED
    BY <1>6, <2>1, <2>2, <2>3, <2>4
    DEF AppStep, mrt_connect, connect_return, send_spurious, send_enter,
        send_lookup, send_dropped, send_acked, send_not_acked, send_copy,
        send_no_space, mrt_disconnect, disc_lookup, disc_check, disc_trick
<1>7. CASE HandlerStep(a)
  BY <1>2, <1>3, <1>7
  DEF HandlerStep, HandlerReceives, HandlerBreak, HandlerACON, HandlerADAT,
      HandlerACLS, HandlerCleanup
<1>8. CASE SenderThreadStep(a)
  <2>1. CASE SenderExit(a) BY <1>3, <2>1 DEF SenderExit
  <2>2. CASE SenderEmpty(a) BY <1>1, <1>5, <2>2 DEF SenderEmpty
  <2>3. CASE SenderData(a)
    <3> DEFINE payload == sender_buffer[a][next_payload_index(a) + 1]
    <3>1. payload \in Payload
      BY <2>3 DEF SenderData, NothingToSend, next_payload_index, TypeOK,
                  SenderTypeOK, StartedInv, BufferInv
    <3>2. sending_frag(a) \in Int
      BY DEF sending_frag, next_payload_index, TypeOK, SenderTypeOK
    <3>3. build_data(a, sending_frag(a), payload) \in ToReceiverMsg
      <4> HIDE DEF payload
      <4> QED BY <3>1, <3>2 DEF build_data, ToReceiverMsg, Payload
    <3> QED BY <1>1, <2>3, <3>3 DEF SenderData
  <2> QED BY <1>8, <2>1, <2>2, <2>3 DEF SenderThreadStep
<1>9. CASE CheckerStep(a)
  BY <1>3, <1>9 DEF CheckerStep, CheckerTick, CheckerClose
<1> QED BY <1>6, <1>7, <1>8, <1>9 DEF SenderStep

-------------------------------------------------------------------------------
(* The queues of the receiver, in the composition. *)

\* The only RCON is the one of build_rcon().
LEMMA RconStep ==
  ASSUME TypeOK, QueueInv, [Next]_vars
  PROVE  RconInv'
<1>1. ASSUME NEW m, m.type # "RCON" \/ m.frag = 0,
             toReceiver' \subseteq toReceiver \cup {m}
      PROVE  RconInv'
  BY <1>1 DEF RconInv, QueueInv
<1>2. ASSUME toReceiver' \subseteq toReceiver PROVE RconInv'
  BY <1>2 DEF RconInv, QueueInv
<1>3. ASSUME NEW a \in Addrs, SenderStep(a) PROVE RconInv'
  <2>1. CASE connect_rcon(a)
    BY <1>1, <2>1, SendtoAdds DEF connect_rcon, build_rcon, initial_frag
  <2>2. CASE disc_rcls(a)
    BY <1>1, <1>2, <2>2, SendtoAdds DEF disc_rcls, build_rcls
  <2>3. CASE SenderEmpty(a)
    BY <1>1, <2>3, SendtoAdds DEF SenderEmpty, build_data_empty
  <2>4. CASE SenderData(a)
    BY <1>1, <2>4, SendtoAdds DEF SenderData, build_data
  <2>5. CASE \/ AppStep(a) /\ ~connect_rcon(a) /\ ~disc_rcls(a)
             \/ SenderExit(a) \/ CheckerStep(a)
    BY <1>2, <2>5
    DEF AppStep, mrt_connect, connect_return, mrt_send, send_spurious,
        send_enter, send_lookup, send_dropped, send_acked, send_not_acked,
        send_copy, send_no_space, mrt_disconnect, disc_lookup, disc_check,
        disc_trick, SenderExit, CheckerStep, CheckerTick, CheckerClose, netVars
  <2>6. CASE HandlerStep(a)
    BY <1>2, <2>6
    DEF HandlerStep, HandlerReceives, HandlerBreak, HandlerACON, HandlerADAT,
        HandlerACLS, HandlerCleanup, netVars
  <2> QED
    BY <1>3, <2>1, <2>2, <2>3, <2>4, <2>5, <2>6
    DEF SenderStep, SenderThreadStep
<1>4. CASE ReceiverStep
  <2>1. toReceiver' \subseteq toReceiver
    BY <1>4, RecvfromTakes
    DEF ReceiverStep, ReceiverAppStep, MainHandlerStep, TimeoutStep, mrt_open,
        accept1_deq, accept1_enq, receive1_spurious, mrt_receive1,
        receive1_data, receive1_timed_out, receive1_dropped, mrt_close, MainReceives, MainBreak,
        RconNew, RconConnected, RconPending, DataAccept, DataReject,
        DataUnknown, RclsConnected, RclsPending, RclsUnknown, MainCleanup,
        TimeoutTick, CancelledTick, netVars
  <2> QED BY <1>2, <2>1
<1>5. CASE NetLose
  BY <1>2, <1>5 DEF NetLose, NetLoseToReceiver, NetLoseToSender
<1>6. CASE UNCHANGED vars BY <1>2, <1>6 DEF vars, netVars
<1> QED BY <1>3, <1>4, <1>5, <1>6 DEF Next

\* Every step keeps the queues in order.
LEMMA QueueStep ==
  ASSUME TypeOK, QueueInv, [Next]_vars
  PROVE  QueueInv'
<1>1. RconInv' BY RconStep
<1>2. ReceiverStep \/ UNCHANGED receiverVars BY DEF Next, vars
<1> QED BY <1>1, <1>2, ReceiverQueueStep DEF TypeOK

\* Both queues are empty at the start.
LEMMA QueueInit == Init => QueueInv
  BY ReceiverQueueInit DEF Init

\* A lookup in the connected queue ends at home.
LEMMA FoundIsHome ==
  ASSUME TypeOK, QueueInv, NEW a \in Addrs, NEW s,
         Found(connected_senders_q, a, s), main_thread # "done"
  PROVE  /\ s = home[a] /\ home[a] # NULL /\ s \in SenderIds /\ addr[s] = a
         /\ s # accepting
         /\ \A i \in DOMAIN pending_senders_q : pending_senders_q[i] # s
  BY FoundAtHome DEF TypeOK

(* The two ends of a stream. *)

\* All that StreamInv says of a stream, but for its datagrams in flight, is
\* about these variables.
SameEnds(b) ==
  /\ last_acknowledged_frag'[b] = last_acknowledged_frag[b]
  /\ sender_buffer'[b] = sender_buffer[b]
  /\ last_payload_index'[b] = last_payload_index[b]
  /\ written'[b] = written[b]
  /\ home'[b] = home[b]
  /\ delivered'[b] = delivered[b]
  /\ home[b] # NULL => /\ buffer'[home[b]] = buffer[home[b]]
                       /\ next_frag'[home[b]] = next_frag[home[b]]

\* What StartedInv says of the threads of b is about these variables.
SameThreads(b) ==
  /\ sender_thread'[b] = sender_thread[b]
  /\ last_sent_index'[b] = last_sent_index[b]

\* What SendInv and CloseInv say of the call of b is about these variables.
SameCall(b) ==
  /\ pc'[b] = pc[b]
  /\ send_len'[b] = send_len[b]
  /\ num_bytes_copied'[b] = num_bytes_copied[b]
  /\ final_frag'[b] = final_frag[b]
  /\ send_ret'[b] = send_ret[b]

\* The datagrams that a step adds to those of b are consistent with its ends.
GoodFlight(b) ==
  /\ \A m \in toReceiver' : m.src = b => m \in toReceiver \/ DataOk(m)
  /\ \A m \in toSender' : m.dst = b => m \in toSender \/ AdatOk(m)

\* No RCLS of b is new.
NoNewRcls(b) ==
  \A m \in toReceiver' : m.src = b => m \in toReceiver \/ m.type # "RCLS"

\* Ends that do not change are seen under the same numbers.
LEMMA SameView ==
  ASSUME NEW b, SameEnds(b)
  PROVE  /\ Base(b)' = Base(b) /\ Taken(b)' = Taken(b)
         /\ Received(b)' = Received(b)
         /\ \A f : Held(b, f)' = Held(b, f)
  BY DEF SameEnds, Base, Taken, Received, Held

\* Ends that do not change stay consistent.
LEMMA EndsFrame ==
  ASSUME NEW b, SameEnds(b), BufferInv(b), PositionInv(b), ContentInv(b)
  PROVE  BufferInv(b)' /\ PositionInv(b)' /\ ContentInv(b)'
<1>1. BufferInv(b)' BY DEF BufferInv, SameEnds
<1>2. PositionInv(b)' BY SameView DEF PositionInv, SameEnds
<1>3. ContentInv(b)' BY DEF ContentInv, SameEnds
<1> QED BY <1>1, <1>2, <1>3

\* Datagrams stay consistent with ends that do not change.
LEMMA FlightFrame ==
  ASSUME NEW b, SameEnds(b), GoodFlight(b), FlightInv(b)
  PROVE  FlightInv(b)'
<1>1. ASSUME NEW m, m.src = b, DataOk(m) PROVE DataOk(m)'
  BY <1>1, SameView DEF DataOk, SameEnds
<1>2. ASSUME NEW m, m.dst = b, AdatOk(m) PROVE AdatOk(m)'
  BY <1>2, SameView DEF AdatOk, SameEnds
<1> QED BY <1>1, <1>2 DEF FlightInv, GoodFlight

\* A call that makes no progress keeps its count of fragments.
LEMMA SendFrame ==
  ASSUME NEW b, SameEnds(b), SameCall(b), SendInv(b)
  PROVE  SendInv(b)'
<1>1. FragsLeft(b)' = FragsLeft(b) /\ BytesLeft(b)' = BytesLeft(b)
  BY SameView DEF FragsLeft, BytesLeft, SameEnds, SameCall
<1> QED BY <1>1 DEF SendInv, SameEnds, SameCall

\* A RCLS in flight stays justified while the call and the buffer do not change.
LEMMA CloseFrame ==
  ASSUME NEW b, SameEnds(b), SameCall(b), NoNewRcls(b), CloseInv(b)
  PROVE  CloseInv(b)'
  BY DEF CloseInv, RclsOk, SameEnds, SameCall, NoNewRcls

\* A connection stays started.
LEMMA StartedFrame ==
  ASSUME NEW b, SameEnds(b), SameCall(b), SameThreads(b), StartedInv(b)
  PROVE  StartedInv(b)'
  BY DEF StartedInv, SameEnds, SameCall, SameThreads

\* What StreamInv says of one address.
AddrInv(b) == EndsInv(b) /\ FlightInv(b) /\ SendInv(b) /\ CloseInv(b)

\* A step that does not concern b.
LEMMA OtherAddress ==
  ASSUME NEW b, AddrInv(b), SameEnds(b), SameCall(b), SameThreads(b),
         GoodFlight(b), NoNewRcls(b)
  PROVE  AddrInv(b)'
  BY EndsFrame, FlightFrame, SendFrame, CloseFrame, StartedFrame
  DEF AddrInv, EndsInv

-------------------------------------------------------------------------------
(* The steps of a sender process. *)

\* A step of a leaves the other senders alone.
LEMMA SenderStepOther ==
  ASSUME TypeOK, NEW a \in Addrs, NEW b \in Addrs, a # b,
         SenderStep(a), UNCHANGED receiverVars
  PROVE  SameEnds(b) /\ SameCall(b) /\ SameThreads(b)
<1> USE DEF TypeOK, SenderTypeOK, SameEnds, SameCall, SameThreads, receiverVars,
            goto, bufferVars, ackVars, closeVars, threadVars, senderLocal, sendVars
<1>1. CASE AppStep(a)
  <2>1. CASE mrt_connect(a) \/ connect_rcon(a) \/ connect_return(a)
    BY ZenonT(60), <2>1 DEF mrt_connect, connect_rcon, connect_return, senderVars
  <2>2. CASE \/ \E n \in SendLens : mrt_send(a, n)
             \/ send_spurious(a) \/ send_enter(a) \/ send_lookup(a)
    BY ZenonT(60), <2>2 DEF mrt_send, send_spurious, send_enter, send_lookup
  <2>3. CASE \/ send_dropped(a) \/ send_acked(a) \/ send_not_acked(a)
             \/ send_copy(a) \/ send_no_space(a)
    BY ZenonT(60), <2>3
    DEF send_dropped, send_acked, send_not_acked, send_copy, send_no_space
  <2>4. CASE \/ mrt_disconnect(a) \/ disc_lookup(a) \/ disc_check(a)
             \/ disc_rcls(a) \/ disc_trick(a)
    BY SMTT(60), <2>4
    DEF mrt_disconnect, disc_lookup, disc_check, disc_rcls, disc_trick
  <2> QED BY <1>1, <2>1, <2>2, <2>3, <2>4 DEF AppStep
<1>2. CASE HandlerStep(a)
  <2>1. ASSUME NEW m, HandlerBreak(a, m) \/ HandlerACLS(a, m)
        PROVE  SameEnds(b) /\ SameCall(b) /\ SameThreads(b)
    BY <2>1 DEF HandlerBreak, HandlerACLS
  <2>2. ASSUME NEW m, HandlerACON(a, m)
        PROVE  SameEnds(b) /\ SameCall(b) /\ SameThreads(b)
    BY ZenonT(60), <2>2 DEF HandlerACON
  <2>3. ASSUME NEW m, HandlerADAT(a, m)
        PROVE  SameEnds(b) /\ SameCall(b) /\ SameThreads(b)
    <3>1. /\ last_acknowledged_frag'[b] = last_acknowledged_frag[b]
          /\ sender_buffer'[b] = sender_buffer[b]
          /\ last_payload_index'[b] = last_payload_index[b]
      BY SMTT(60), <2>3 DEF HandlerADAT
    <3> QED BY <2>3, <3>1 DEF HandlerADAT
  <2>4. CASE HandlerCleanup(a) BY <2>4 DEF HandlerCleanup
  <2> QED BY <1>2, <2>1, <2>2, <2>3, <2>4 DEF HandlerStep
<1>3. CASE SenderThreadStep(a)
  BY <1>3 DEF SenderThreadStep, SenderExit, SenderEmpty, SenderData
<1>4. CASE CheckerStep(a)
  BY <1>4 DEF CheckerStep, CheckerTick, CheckerClose
<1> QED BY <1>1, <1>2, <1>3, <1>4 DEF SenderStep

\* sendto() and recvfrom() as the frames need them.
LEMMA FlightOfSendto ==
  ASSUME NEW b, NEW m, toReceiver' = sendto(toReceiver, m), UNCHANGED toSender,
         m.src # b \/ (DataOk(m) /\ m.type # "RCLS")
  PROVE  GoodFlight(b) /\ NoNewRcls(b)
  BY SendtoAdds DEF GoodFlight, NoNewRcls

\* Taking or losing datagrams adds none.
LEMMA FlightOfRecvfrom ==
  ASSUME NEW b, toReceiver' \subseteq toReceiver, toSender' \subseteq toSender
  PROVE  GoodFlight(b) /\ NoNewRcls(b)
  BY DEF GoodFlight, NoNewRcls

\* An answer that acknowledges what was taken is consistent.
LEMMA FlightOfReply ==
  ASSUME NEW b, NEW m, toSender' = sendto(toSender, m),
         toReceiver' \subseteq toReceiver, m.dst # b \/ AdatOk(m)
  PROVE  GoodFlight(b) /\ NoNewRcls(b)
  BY SendtoAdds DEF GoodFlight, NoNewRcls

\* The DATA of sender() is one of the payloads held.
LEMMA SenderDataOk ==
  ASSUME TypeOK, NEW a \in Addrs, AddrInv(a), SenderData(a)
  PROVE  DataOk(build_data(a, sending_frag(a),
                           sender_buffer[a][next_payload_index(a) + 1]))
<1> DEFINE i == next_payload_index(a)
           L == last_acknowledged_frag[a]
           n == Len(sender_buffer[a])
<1>1. L \in Int /\ n \in Nat /\ i \in Int
  BY DEF TypeOK, SenderTypeOK, next_payload_index
<1>2. L >= 0 /\ i >= 0
  BY SMTT(60) DEF AddrInv, EndsInv, StartedInv, SenderData, TypeOK, SenderTypeOK,
         next_payload_index
<1>3. i <= n - 1
  BY DEF AddrInv, EndsInv, BufferInv, SenderData, NothingToSend, TypeOK,
         SenderTypeOK, next_payload_index
<1>4. Base(a) = L /\ sending_frag(a) = L + i + 1
  BY <1>1, <1>2 DEF Base, sending_frag
<1> HIDE DEF i, n, L
<1>5. /\ sending_frag(a) - Base(a) = i + 1
      /\ 1 <= sending_frag(a) /\ sending_frag(a) <= Base(a) + n
  BY <1>1, <1>2, <1>3, <1>4
<1> QED BY <1>2, <1>5 DEF DataOk, Held, build_data, i, n, L

\* Every datagram a step of a sends is consistent with its stream; only
\* mrt_disconnect() sends RCLS.
LEMMA SenderFlight ==
  ASSUME TypeOK, NEW a \in Addrs, AddrInv(a), SenderStep(a), NEW b \in Addrs
  PROVE  GoodFlight(b) /\ (NoNewRcls(b) \/ (b = a /\ disc_rcls(a)))
<1>1. CASE connect_rcon(a)
  BY <1>1, FlightOfSendto DEF connect_rcon, build_rcon, DataOk
<1>2. CASE disc_rcls(a)
  <2>1. DataOk(build_rcls(a)) BY DEF build_rcls, DataOk
  <2>2. GoodFlight(b)
    BY <1>2, <2>1, SendtoAdds DEF disc_rcls, GoodFlight
  <2>3. b # a => NoNewRcls(b)
    BY <1>2, SendtoAdds DEF disc_rcls, NoNewRcls, build_rcls
  <2> QED BY <1>2, <2>2, <2>3
<1>3. CASE SenderEmpty(a)
  <2>0. sender_thread[a] = "run" BY <1>3 DEF SenderEmpty
  <2>a. StartedInv(a) /\ last_acknowledged_frag[a] \in Int
    BY DEF AddrInv, EndsInv, TypeOK, SenderTypeOK
  <2>1. last_acknowledged_frag[a] >= 0
    BY <2>0, <2>a DEF StartedInv
  <2>2. DataOk(build_data_empty(a)) BY <2>1 DEF build_data_empty, DataOk
  <2>3. build_data_empty(a).type # "RCLS" BY DEF build_data_empty
  <2> QED BY <1>3, <2>2, <2>3, FlightOfSendto DEF SenderEmpty
<1>4. CASE SenderData(a)
  <2> DEFINE m == build_data(a, sending_frag(a),
                             sender_buffer[a][next_payload_index(a) + 1])
  <2>1. DataOk(m) /\ m.type # "RCLS" BY <1>4, SenderDataOk DEF build_data
  <2>2. toReceiver' = sendto(toReceiver, m) /\ UNCHANGED toSender
    BY <1>4 DEF SenderData
  <2> HIDE DEF m
  <2> QED BY <2>1, <2>2, FlightOfSendto
<1>5. CASE \/ AppStep(a) /\ ~connect_rcon(a) /\ ~disc_rcls(a)
           \/ SenderExit(a) \/ CheckerStep(a)
  BY <1>5, FlightOfRecvfrom
  DEF AppStep, mrt_connect, connect_return, mrt_send, send_spurious,
      send_enter, send_lookup, send_dropped, send_acked, send_not_acked,
      send_copy, send_no_space, mrt_disconnect, disc_lookup, disc_check,
      disc_trick, SenderExit, CheckerStep, CheckerTick, CheckerClose, netVars
<1>6. CASE HandlerStep(a)
  <2>1. toReceiver' \subseteq toReceiver /\ toSender' \subseteq toSender
    BY <1>6, RecvfromTakes
    DEF HandlerStep, HandlerReceives, HandlerBreak, HandlerACON, HandlerADAT,
        HandlerACLS, HandlerCleanup, netVars
  <2> QED BY <2>1, FlightOfRecvfrom
<1> QED
  BY <1>1, <1>2, <1>3, <1>4, <1>5, <1>6 DEF SenderStep, SenderThreadStep

-------------------------------------------------------------------------------
(* The steps of the application that leave the buffer alone. *)

\* All of them but send_copy().
AppControl(a) == AppStep(a) /\ ~send_copy(a)

\* They change neither end of the stream.
LEMMA AppSameEnds ==
  ASSUME TypeOK, NEW a \in Addrs, AppControl(a), UNCHANGED receiverVars
  PROVE  SameEnds(a) /\ SameThreads(a)
  BY DEF AppControl, AppStep, mrt_connect, connect_rcon, connect_return,
         mrt_send, send_spurious, send_enter, send_lookup, send_dropped,
         send_acked, send_not_acked, send_no_space, mrt_disconnect,
         disc_lookup, disc_check, disc_rcls, disc_trick, senderVars,
         receiverVars, SameEnds, SameThreads, TypeOK, SenderTypeOK, bufferVars,
         ackVars, closeVars, threadVars, senderLocal, objectVars

\* A call reaches mrt_send() and mrt_disconnect() through mrt_connect() only.
LEMMA AppStarted ==
  ASSUME TypeOK, NEW a \in Addrs, StartedInv(a), AppControl(a),
         UNCHANGED receiverVars
  PROVE  StartedInv(a)'
<1>1. SameEnds(a) /\ SameThreads(a) BY AppSameEnds
<1>2. last_acknowledged_frag[a] = -1 => pc'[a] \in {"start", "connecting"}
  BY DEF AppControl, AppStep, mrt_connect, connect_rcon, connect_return,
         mrt_send, send_spurious, send_enter, send_lookup, send_dropped,
         send_acked, send_not_acked, send_no_space, mrt_disconnect,
         disc_lookup, disc_check, disc_rcls, disc_trick, senderVars, goto,
         StartedInv, TypeOK, SenderTypeOK
<1> QED BY <1>1, <1>2 DEF SameEnds, SameThreads, StartedInv

\* A call of mrt_send() keeps count of the fragments it still has to buffer.
LEMMA AppSend ==
  ASSUME TypeOK, NEW a \in Addrs, EndsInv(a), SendInv(a), AppControl(a),
         UNCHANGED receiverVars
  PROVE  SendInv(a)'
<1> DEFINE P == MAX_MRT_PAYLOAD_LENGTH
<1>0. P \in Nat /\ P > 0 BY NetworkAssumption
<1>1. SameEnds(a) BY AppSameEnds
<1>2. Base(a)' = Base(a) /\ sender_buffer'[a] = sender_buffer[a]
  BY <1>1, SameView DEF SameEnds
<1>3. /\ pc \in [Addrs -> SenderPC] /\ send_len \in [Addrs -> Nat]
      /\ num_bytes_copied \in [Addrs -> Nat] /\ final_frag \in [Addrs -> Int]
      /\ send_ret \in [Addrs -> {-1, 0, 1, NO_RESULT}]
      /\ Len(sender_buffer[a]) \in Nat /\ Base(a) \in Int
      /\ last_acknowledged_frag[a] \in Int
  BY DEF TypeOK, SenderTypeOK, Base
<1> USE DEF goto, sendVars
<1>4. ASSUME pc'[a] \in {"start", "connecting", "ready", "disc_lookup",
                         "disc_check", "disc_rcls", "disc_trick", "end"},
             pc'[a] \in {"start", "connecting"} =>
               pc[a] \in {"start", "connecting"},
             pc'[a] = "ready" => pc[a] = "connecting",
             UNCHANGED send_ret
      PROVE  SendInv(a)'
  BY <1>4 DEF SendInv, NO_RESULT
<1>5. CASE \/ mrt_connect(a) \/ connect_rcon(a) \/ connect_return(a)
           \/ mrt_disconnect(a) \/ disc_lookup(a) \/ disc_check(a)
           \/ disc_rcls(a) \/ disc_trick(a)
  BY <1>3, <1>4, <1>5
  DEF mrt_connect, connect_rcon, connect_return, mrt_disconnect, disc_lookup,
      disc_check, disc_rcls, disc_trick, senderVars
<1>6. ASSUME NEW n \in SendLens, mrt_send(a, n) PROVE SendInv(a)'
  BY <1>3, <1>6 DEF mrt_send, SendInv
<1>7. CASE send_spurious(a) \/ send_dropped(a)
  <2>1. pc'[a] = "ready" /\ send_ret'[a] \in {-1, 0}
    BY <1>3, <1>7 DEF send_spurious, send_dropped
  <2> QED BY <2>1 DEF SendInv
<1>8. CASE send_enter(a)
  <2>1. /\ pc'[a] = "send_lookup" /\ UNCHANGED <<send_len, num_bytes_copied>>
        /\ num_bytes_copied[a] = 0
        /\ final_frag'[a] = last_payload_index[a] + last_acknowledged_frag[a] + 1
                              + frags_needed(send_len[a])
    BY <1>3, <1>8 DEF send_enter, SendInv
  <2>2. Base(a) = last_acknowledged_frag[a]
    BY <1>8 DEF Base, send_enter, EndsInv, StartedInv
  <2>3. last_payload_index[a] = Len(sender_buffer[a]) - 1
    BY DEF EndsInv, BufferInv
  <2>4. /\ frags_needed(send_len[a]) \in Nat
        /\ frags_needed(send_len[a]) * P >= send_len[a]
        /\ (frags_needed(send_len[a]) - 1) * P < send_len[a]
    BY <1>3, FragsNeeded
  <2>5. FragsLeft(a)' = frags_needed(send_len[a])
    <3>1. FragsLeft(a)' = final_frag'[a] - Base(a) - Len(sender_buffer[a])
      BY <1>2 DEF FragsLeft
    <3>2. final_frag'[a] = Len(sender_buffer[a]) + Base(a)
                             + frags_needed(send_len[a])
      BY <1>3, <2>1, <2>2, <2>3
    <3>3. frags_needed(send_len[a]) \in Int BY <2>4
    <3> QED BY <1>3, <3>1, <3>2, <3>3
  <2>6. BytesLeft(a)' = send_len[a] /\ send_len[a] \in Nat
    BY <1>3, <2>1 DEF BytesLeft
  <2> QED BY <2>1, <2>4, <2>5, <2>6 DEF SendInv
<1>9. CASE send_lookup(a) \/ send_not_acked(a) \/ send_no_space(a)
  <2>1. /\ pc[a] \in {"send_lookup", "send_check", "send_copy"}
        /\ pc'[a] \in {"send_lookup", "send_check", "send_copy"}
        /\ pc'[a] = "send_copy" => num_bytes_copied[a] < send_len[a]
        /\ UNCHANGED sendVars
    BY <1>3, <1>9 DEF send_lookup, send_not_acked, send_no_space
  <2>2. FragsLeft(a)' = FragsLeft(a) /\ BytesLeft(a)' = BytesLeft(a)
    BY <1>2, <2>1 DEF FragsLeft, BytesLeft
  <2> QED BY <2>1, <2>2 DEF SendInv
<1>10. CASE send_acked(a)
  <2> DEFINE F == FragsLeft(a)
             n == Len(sender_buffer[a])
             r == BytesLeft(a)
  <2>1. F \in Int /\ n \in Nat /\ r \in Nat /\ F * P >= r
    BY <1>3, <1>10 DEF send_acked, SendInv, FragsLeft, BytesLeft
  <2>2. Base(a) = last_acknowledged_frag[a]
    BY <1>10 DEF Base, send_acked, EndsInv, StartedInv
  <2>3. F + n <= 0
    BY <1>3, <1>10, <2>2 DEF send_acked, FragsLeft
  <2> HIDE DEF F, n, r
  <2>4. F >= 0 BY <1>0, <2>1
  <2>5. F = 0 /\ n = 0 BY <2>1, <2>3, <2>4
  <2>6. r = 0 BY <1>0, <2>1, <2>5
  <2>7. sender_buffer[a] = <<>>
    BY <2>5 DEF n, TypeOK, SenderTypeOK
  <2>8. num_bytes_copied[a] = send_len[a]
    BY <1>3, <2>6 DEF r, BytesLeft
  <2>9. pc'[a] = "ready" /\ UNCHANGED <<num_bytes_copied, send_len>>
    BY <1>3, <1>10 DEF send_acked
  <2> QED BY <1>2, <2>7, <2>8, <2>9 DEF SendInv
<1> QED
  BY <1>5, <1>6, <1>7, <1>8, <1>9, <1>10 DEF AppControl, AppStep

\* Once RCLS is on its way the application only finishes mrt_disconnect().
LEMMA AppClose ==
  ASSUME TypeOK, NEW a \in Addrs, EndsInv(a), CloseInv(a), AppControl(a),
         UNCHANGED receiverVars, NoNewRcls(a) \/ disc_rcls(a)
  PROVE  CloseInv(a)'
<1>1. SameEnds(a) BY AppSameEnds
<1>2. sender_buffer'[a] = sender_buffer[a] BY <1>1 DEF SameEnds
<1>3. pc[a] \in SenderPC /\ pc \in [Addrs -> SenderPC]
  BY DEF TypeOK, SenderTypeOK
<1> USE DEF goto
<1>4. CASE disc_rcls(a)
  <2>1. pc'[a] = "disc_trick" /\ sender_buffer[a] = <<>>
    BY <1>3, <1>4 DEF disc_rcls, CloseInv
  <2> QED BY <1>2, <2>1 DEF CloseInv, RclsOk
<1>5. CASE ~disc_rcls(a)
  <2>1. pc'[a] \in {"disc_rcls", "disc_trick"} => sender_buffer[a] = <<>>
    <3>1. CASE disc_check(a)
      <4>1. last_payload_index[a] = Len(sender_buffer[a]) - 1
            /\ sender_buffer[a] \in Seq(Payload)
        BY DEF EndsInv, BufferInv, TypeOK, SenderTypeOK
      <4> QED BY <1>3, <3>1, <4>1 DEF disc_check
    <3>2. CASE ~disc_check(a)
      <4>1. pc'[a] \in {"disc_rcls", "disc_trick"} => pc'[a] = pc[a]
        BY <1>3, <1>5, <3>2
        DEF AppControl, AppStep, mrt_connect, connect_rcon, connect_return,
            mrt_send, send_spurious, send_enter, send_lookup, send_dropped,
            send_acked, send_not_acked, send_no_space, mrt_disconnect,
            disc_lookup, disc_trick, senderVars
      <4> QED BY <4>1 DEF CloseInv
    <3> QED BY <3>1, <3>2
  <2>2. pc[a] \in {"disc_trick", "end"} => pc'[a] \in {"disc_trick", "end"}
    BY <1>3, <1>5
    DEF AppControl, AppStep, mrt_connect, connect_rcon, connect_return,
        mrt_send, send_spurious, send_enter, send_lookup, send_dropped,
        send_acked, send_not_acked, send_no_space, mrt_disconnect,
        disc_lookup, disc_check, disc_trick, senderVars
  <2> QED BY <1>2, <1>5, <2>1, <2>2 DEF CloseInv, RclsOk, NoNewRcls
<1> QED BY <1>4, <1>5

-------------------------------------------------------------------------------
(* send_copy(): one more payload at the end of the buffer. *)

\* What send_copy() does to the buffer, slot by slot.
LEMMA CopyEffect ==
  ASSUME TypeOK, NEW a \in Addrs, AddrInv(a), send_copy(a), UNCHANGED receiverVars,
         NEW n, n = Len(sender_buffer[a]), NEW k, k = num_bytes_to_copy(a)
  PROVE  /\ n \in Nat /\ n < MAX_PAYLOADS_BUFFERABLE
         /\ k \in Nat /\ 1 <= k /\ k <= MAX_MRT_PAYLOAD_LENGTH
         /\ last_acknowledged_frag'[a] = last_acknowledged_frag[a]
         /\ last_acknowledged_frag[a] \in Nat
         /\ last_payload_index'[a] = n
         /\ sender_buffer'[a] \in Seq(Payload) /\ Len(sender_buffer'[a]) = n + 1
         /\ \A i \in 1 .. n : sender_buffer'[a][i] = sender_buffer[a][i]
         /\ sender_buffer'[a][n + 1] = [lo |-> written[a], len |-> k]
         /\ written'[a] = written[a] + k /\ written[a] \in Nat
         /\ num_bytes_copied'[a] = num_bytes_copied[a] + k
         /\ pc[a] = "send_copy" /\ pc'[a] = "send_lookup"
<1>1. /\ sender_buffer[a] \in Seq(Payload) /\ written[a] \in Nat
      /\ send_len[a] \in Nat /\ num_bytes_copied[a] \in Nat
      /\ last_acknowledged_frag[a] \in Int /\ n \in Nat
      /\ last_payload_index \in [Addrs -> Int]
      /\ num_bytes_copied \in [Addrs -> Nat] /\ pc \in [Addrs -> SenderPC]
      /\ written \in [Addrs -> Nat] /\ sender_buffer \in [Addrs -> Seq(Payload)]
  BY DEF TypeOK, SenderTypeOK
<1>2. StartedInv(a) /\ BufferInv(a) /\ SendInv(a)
  BY DEF AddrInv, EndsInv
<1>3. pc[a] = "send_copy" /\ pc'[a] = "send_lookup"
  BY <1>1 DEF send_copy, goto
<1>4. k \in Nat /\ 1 <= k /\ k <= MAX_MRT_PAYLOAD_LENGTH
  BY <1>1, <1>2, <1>3, NetworkAssumption DEF num_bytes_to_copy, SendInv
<1>5. last_payload_index[a] = n - 1 BY <1>2 DEF BufferInv
<1>6. n < MAX_PAYLOADS_BUFFERABLE
  BY <1>1, <1>5, SenderAssumption DEF send_copy, free_payload_spaces
<1>7. last_acknowledged_frag[a] \in Nat BY <1>1, <1>2, <1>3 DEF StartedInv
<1> DEFINE payload == [lo |-> written[a], len |-> k]
<1>8. payload \in Payload BY <1>1, <1>4 DEF Payload
<1>9. sender_buffer'[a] = Append(sender_buffer[a], payload)
  BY <1>1 DEF send_copy
<1> HIDE DEF payload
<1>10. /\ sender_buffer'[a] \in Seq(Payload) /\ Len(sender_buffer'[a]) = n + 1
       /\ \A i \in 1 .. n : sender_buffer'[a][i] = sender_buffer[a][i]
       /\ sender_buffer'[a][n + 1] = payload
  BY <1>1, <1>8, <1>9
<1>11. /\ last_payload_index'[a] = n
       /\ written'[a] = written[a] + k
       /\ num_bytes_copied'[a] = num_bytes_copied[a] + k
       /\ last_acknowledged_frag'[a] = last_acknowledged_frag[a]
  BY <1>1, <1>5 DEF send_copy, ackVars
<1> QED BY <1>1, <1>3, <1>4, <1>6, <1>7, <1>10, <1>11 DEF payload

\* send_copy() extends the stream at the end of the sender.
LEMMA CopyStream ==
  ASSUME TypeOK, NEW a \in Addrs, AddrInv(a), send_copy(a), UNCHANGED receiverVars,
         GoodFlight(a), NoNewRcls(a)
  PROVE  AddrInv(a)'
<1> DEFINE P == MAX_MRT_PAYLOAD_LENGTH
<1>0. P \in Nat /\ P > 0 BY NetworkAssumption
<1>1. PICK n : n = Len(sender_buffer[a]) OBVIOUS
<1>2. PICK k : k = num_bytes_to_copy(a) OBVIOUS
<1>3. /\ n \in Nat /\ n < MAX_PAYLOADS_BUFFERABLE
      /\ k \in Nat /\ 1 <= k /\ k <= P
      /\ last_acknowledged_frag'[a] = last_acknowledged_frag[a]
      /\ last_acknowledged_frag[a] \in Nat
      /\ last_payload_index'[a] = n
      /\ sender_buffer'[a] \in Seq(Payload) /\ Len(sender_buffer'[a]) = n + 1
      /\ \A i \in 1 .. n : sender_buffer'[a][i] = sender_buffer[a][i]
      /\ sender_buffer'[a][n + 1] = [lo |-> written[a], len |-> k]
      /\ written'[a] = written[a] + k /\ written[a] \in Nat
      /\ num_bytes_copied'[a] = num_bytes_copied[a] + k
      /\ pc[a] = "send_copy" /\ pc'[a] = "send_lookup"
  BY <1>1, <1>2, CopyEffect
<1>4. StartedInv(a) /\ BufferInv(a) /\ PositionInv(a) /\ ContentInv(a)
      /\ FlightInv(a) /\ SendInv(a) /\ CloseInv(a)
  BY DEF AddrInv, EndsInv
<1>5. /\ Base(a)' = Base(a) /\ Base(a) \in Nat
      /\ Taken(a)' = Taken(a) /\ Received(a)' = Received(a) /\ Taken(a) \in Int
  BY <1>3 DEF Base, Taken, Received, receiverVars, TypeOK, ReceiverTypeOK
<1>6. StartedInv(a)'
  BY <1>3, <1>4 DEF StartedInv, send_copy, senderLocal
<1>7. BufferInv(a)'
  <2>1. ASSUME NEW i \in 1 .. n + 1
        PROVE  /\ 1 <= sender_buffer'[a][i].len
               /\ sender_buffer'[a][i].len <= P
               /\ sender_buffer'[a][i].lo + sender_buffer'[a][i].len
                    = IF i = n + 1 THEN written'[a]
                      ELSE sender_buffer'[a][i + 1].lo
    <3>1. CASE i = n + 1 BY <1>3, <3>1
    <3>2. CASE i \in 1 .. n - 1
      <4>1. i \in 1 .. n /\ i + 1 \in 1 .. n /\ i # n BY <1>3, <3>2
      <4>2. /\ sender_buffer'[a][i] = sender_buffer[a][i]
            /\ sender_buffer'[a][i + 1] = sender_buffer[a][i + 1]
        BY <1>3, <4>1
      <4> QED BY <1>1, <1>3, <1>4, <3>2, <4>1, <4>2 DEF BufferInv
    <3>3. CASE i = n /\ n \in 1 .. n
      <4>1. /\ sender_buffer'[a][n] = sender_buffer[a][n]
            /\ sender_buffer'[a][n + 1].lo = written[a]
        BY <1>3, <3>3
      <4>2. /\ 1 <= sender_buffer[a][n].len /\ sender_buffer[a][n].len <= P
            /\ sender_buffer[a][n].lo + sender_buffer[a][n].len = written[a]
        BY <1>1, <1>4, <3>3 DEF BufferInv
      <4> QED BY <1>3, <3>3, <4>1, <4>2
    <3> QED BY <1>3, <3>1, <3>2, <3>3
  <2>2. n + 1 <= MAX_PAYLOADS_BUFFERABLE /\ n = n + 1 - 1
    BY <1>3, SenderAssumption
  <2> QED BY <1>3, <2>1, <2>2 DEF BufferInv
<1>8. ASSUME NEW f \in Int, Base(a) < f, f <= Base(a) + n
      PROVE  Held(a, f)' = Held(a, f)
  <2>1. f - Base(a) \in 1 .. n BY <1>3, <1>5, <1>8
  <2> QED BY <1>3, <1>5, <2>1 DEF Held
<1>9. PositionInv(a)'
  <2>1. CASE Taken(a) = Base(a) + n
    <3>1. Taken(a) + 1 - Base(a) = n + 1 BY <1>3, <1>5, <2>1
    <3>2. Held(a, Taken(a) + 1)' = sender_buffer'[a][n + 1]
      BY <1>5, <3>1 DEF Held
    <3>3. Received(a) = written[a] BY <1>1, <1>4, <2>1 DEF PositionInv
    <3> QED BY <1>3, <1>5, <2>1, <3>2, <3>3 DEF PositionInv
  <2>2. CASE Taken(a) # Base(a) + n
    <3>0. /\ Base(a) <= Taken(a) /\ Taken(a) <= Base(a) + n
          /\ Received(a) = Held(a, Taken(a) + 1).lo
      BY <1>1, <1>4, <2>2 DEF PositionInv
    <3>1. Base(a) < Taken(a) + 1 /\ Taken(a) + 1 <= Base(a) + n
      <4>1. Taken(a) \in Int /\ Base(a) \in Int /\ n \in Int BY <1>3, <1>5
      <4> QED BY <2>2, <3>0, <4>1
    <3>2. Held(a, Taken(a) + 1)' = Held(a, Taken(a) + 1)
      <4>1. PICK f : f = Taken(a) + 1 OBVIOUS
      <4>2. f \in Int /\ Base(a) < f /\ f <= Base(a) + n BY <1>5, <3>1, <4>1
      <4>3. Held(a, f)' = Held(a, f) BY <1>8, <4>2
      <4> QED BY <1>5, <4>1, <4>3 DEF Held
    <3>3. Taken(a) <= Base(a) + (n + 1) /\ Taken(a) # Base(a) + (n + 1)
      BY <1>3, <1>5, <3>1
    <3> QED BY <1>3, <1>5, <3>0, <3>2, <3>3 DEF PositionInv
  <2> QED BY <2>1, <2>2
<1>10. ContentInv(a)' BY <1>4 DEF ContentInv, receiverVars
<1>11. FlightInv(a)'
  <2>1. ASSUME NEW m \in ToReceiverMsg, m.src = a, DataOk(m) PROVE DataOk(m)'
    <3>1. m.frag \in Int BY DEF ToReceiverMsg
    <3>2. CASE m.type = "DATA" /\ m.frag # -1
      <4>1. 1 <= m.frag /\ m.frag <= Base(a) + n
        BY <1>1, <2>1, <3>2 DEF DataOk
      <4>2. m.frag <= Base(a) + (n + 1) BY <1>3, <1>5, <3>1, <4>1
      <4>3. m.frag > Base(a) => Held(a, m.frag)' = Held(a, m.frag)
        BY <1>5, <1>8, <3>1, <4>1
      <4> QED BY <1>3, <1>5, <2>1, <3>2, <4>1, <4>2, <4>3 DEF DataOk
    <3>3. CASE ~(m.type = "DATA" /\ m.frag # -1)
      BY <1>3, <2>1, <3>3 DEF DataOk
    <3> QED BY <3>2, <3>3
  <2>2. ASSUME NEW m, m.dst = a, AdatOk(m) PROVE AdatOk(m)'
    BY <1>3, <1>5, <2>2 DEF AdatOk
  <2>3. toReceiver' \subseteq ToReceiverMsg
    BY DEF TypeOK, NetTypeOK, send_copy, netVars
  <2> QED BY <1>4, <2>1, <2>2, <2>3 DEF FlightInv, GoodFlight
<1>12. SendInv(a)'
  <2> DEFINE F == FragsLeft(a)
             r == BytesLeft(a)
  <2>0. /\ num_bytes_copied[a] \in Nat /\ send_len[a] \in Nat
        /\ final_frag[a] \in Int
    BY DEF TypeOK, SenderTypeOK
  <2>a. /\ num_bytes_copied[a] < send_len[a]
        /\ F * P >= r /\ (F - 1) * P < r
    BY <1>3, <1>4 DEF SendInv
  <2>b. F \in Int BY SMTT(60), <1>1, <1>3, <1>5, <2>0 DEF FragsLeft
  <2>c. r \in Int /\ r > 0 BY <2>0, <2>a DEF BytesLeft
  <2>1. /\ r \in Int /\ F \in Int /\ r > 0 /\ F * P >= r /\ (F - 1) * P < r
        /\ num_bytes_copied[a] \in Nat /\ send_len[a] \in Nat
    BY <2>0, <2>a, <2>b, <2>c
  <2>2. k = IF r > P THEN P ELSE r
    BY <1>2 DEF num_bytes_to_copy, BytesLeft
  <2>3. BytesLeft(a)' = r - k
    BY <1>3, <2>1 DEF BytesLeft, send_copy
  <2>4. FragsLeft(a)' = F - 1
    <3>1. final_frag'[a] = final_frag[a] /\ final_frag[a] \in Int
      BY DEF send_copy, TypeOK, SenderTypeOK
    <3> QED BY <1>1, <1>3, <1>5, <3>1 DEF FragsLeft
  <2>5. num_bytes_copied'[a] <= send_len'[a]
    BY SMTT(60), <1>3, <2>1, <2>2 DEF send_copy, BytesLeft
  <2> HIDE DEF F, r, P
  <2>6. F >= 1 BY <1>0, <2>1
  <2>7. (F - 1) * P >= r - k /\ (F - 1 - 1) * P < r - k
    <3>1. CASE r > P
      <4>1. (F - 1) * P = F * P - P /\ (F - 1 - 1) * P = (F - 1) * P - P
        BY <1>0, <2>1
      <4>2. k = P BY <2>2, <3>1
      <4>3. F * P \in Int /\ (F - 1) * P \in Int BY <1>0, <2>1
      <4>4. (F - 1) * P >= r - P BY <1>0, <2>1, <4>1, <4>3
      <4>5. (F - 1 - 1) * P < r - P BY <1>0, <2>1, <4>1, <4>3
      <4> QED BY <4>2, <4>4, <4>5
    <3>2. CASE ~(r > P)
      <4>1. F - 1 < 1 BY <1>0, <2>1, <3>2
      <4>2. F = 1 BY <2>1, <2>6, <4>1
      <4> QED BY <1>0, <2>1, <2>2, <3>2, <4>2
    <3> QED BY <3>1, <3>2
  <2> QED BY <1>3, <2>3, <2>4, <2>5, <2>7 DEF SendInv, P
<1>13. CloseInv(a)'
  BY <1>3, <1>4 DEF CloseInv, RclsOk, NoNewRcls
<1> QED
  BY <1>6, <1>7, <1>9, <1>10, <1>11, <1>12, <1>13 DEF AddrInv, EndsInv

-------------------------------------------------------------------------------
(* HandlerADAT(): the buffer moves down by what is acknowledged. *)

\* An ADAT that frees payloads frees as many as its number is ahead, and never
\* more than there are.
LEMMA AdatEffect ==
  ASSUME TypeOK, NEW a \in Addrs, AddrInv(a), NEW m \in toSender,
         HandlerADAT(a, m), frag_difference(a, m) > 0,
         NEW n, n = Len(sender_buffer[a]), NEW d, d = frag_difference(a, m)
  PROVE  /\ n \in Nat /\ d \in Nat /\ 1 <= d /\ d <= n
         /\ last_acknowledged_frag[a] \in Nat
         /\ last_acknowledged_frag'[a] = last_acknowledged_frag[a] + d
         /\ Base(a) + d <= Taken(a)
         /\ last_payload_index'[a] = n - d - 1
         /\ sender_buffer'[a] \in Seq(Payload) /\ Len(sender_buffer'[a]) = n - d
         /\ \A i \in 1 .. n - d : sender_buffer'[a][i] = sender_buffer[a][d + i]
<1>0. m.frag \in Int BY DEF TypeOK, NetTypeOK, ToSenderMsg
<1>1. /\ sender_buffer[a] \in Seq(Payload) /\ n \in Nat
      /\ last_acknowledged_frag \in [Addrs -> Int]
      /\ last_acknowledged_frag[a] \in Int
      /\ last_payload_index \in [Addrs -> Int]
      /\ sender_buffer \in [Addrs -> Seq(Payload)]
      /\ m.frag \in Int
  BY <1>0 DEF TypeOK, SenderTypeOK
<1>2. m.dst = a /\ m.type = "ADAT" BY DEF HandlerADAT, HandlerReceives
<1>3. AdatOk(m) BY <1>2 DEF AddrInv, FlightInv
<1>4. /\ last_acknowledged_frag[a] >= 0 /\ m.frag <= Taken(a)
  BY <1>2, <1>3 DEF AdatOk
<1>5. last_acknowledged_frag[a] \in Nat /\ Base(a) = last_acknowledged_frag[a]
  BY <1>1, <1>4 DEF Base
<1>6. d \in Int /\ m.frag = last_acknowledged_frag[a] + d /\ d > 0
  BY <1>1 DEF frag_difference
<1>7. Taken(a) <= Base(a) + n /\ Taken(a) \in Int
  BY DEF AddrInv, EndsInv, PositionInv, Taken, TypeOK, ReceiverTypeOK
<1>8. d <= n BY <1>1, <1>4, <1>5, <1>6, <1>7
<1>9. sender_buffer'[a] = SubSeq(sender_buffer[a], d + 1, n)
  BY <1>1 DEF HandlerADAT, num_payloads_freed
<1>10. /\ sender_buffer'[a] \in Seq(Payload) /\ Len(sender_buffer'[a]) = n - d
       /\ \A i \in 1 .. n - d : sender_buffer'[a][i] = sender_buffer[a][d + i]
  <2>1. n \in Nat /\ d \in Nat /\ d + 1 \in 1 .. n + 1 /\ n - d \in Nat
    BY <1>1, <1>6, <1>8
  <2>2. sender_buffer[a] \in Seq(Payload) BY <1>1
  <2> QED BY SMTT(60), <1>9, <2>1, <2>2
<1>11. last_payload_index'[a] = last_payload_index[a] - d
  BY <1>1 DEF HandlerADAT, num_payloads_freed
<1>12. last_payload_index[a] = n - 1 BY DEF AddrInv, EndsInv, BufferInv
<1>13. last_acknowledged_frag'[a] = m.frag
  BY <1>1, <1>6 DEF HandlerADAT, IsNews
<1> QED
  BY <1>1, <1>4, <1>5, <1>6, <1>8, <1>10, <1>11, <1>12, <1>13

\* HandlerADAT() confirms what the receiver has taken.
LEMMA AdatStream ==
  ASSUME TypeOK, NEW a \in Addrs, AddrInv(a), NEW m \in toSender,
         HandlerADAT(a, m), UNCHANGED receiverVars, GoodFlight(a), NoNewRcls(a)
  PROVE  AddrInv(a)'
<1>1. SameThreads(a) /\ SameCall(a) /\ UNCHANGED written
  BY DEF HandlerADAT, SameThreads, SameCall, threadVars, senderLocal, sendVars
<1>2. CASE ~(frag_difference(a, m) > 0)
  <2>1. m.frag \in Int /\ last_acknowledged_frag \in [Addrs -> Int]
    BY DEF TypeOK, SenderTypeOK, NetTypeOK, ToSenderMsg
  <2>2. last_acknowledged_frag'[a] = last_acknowledged_frag[a]
    <3>1. CASE IsNews(a, m)
      <4>1. m.frag = last_acknowledged_frag[a]
        BY <1>2, <2>1, <3>1 DEF IsNews, frag_difference
      <4> QED BY <2>1, <3>1, <4>1 DEF HandlerADAT
    <3>2. CASE ~IsNews(a, m) BY <3>2 DEF HandlerADAT, ackVars
    <3> QED BY <3>1, <3>2
  <2>3. UNCHANGED bufferVars BY <1>2 DEF HandlerADAT
  <2>4. SameEnds(a)
    BY <1>1, <2>2, <2>3 DEF SameEnds, bufferVars, receiverVars
  <2> QED BY <1>1, <2>4, OtherAddress
<1>3. CASE frag_difference(a, m) > 0
  <2>1. PICK n : n = Len(sender_buffer[a]) OBVIOUS
  <2>2. PICK d : d = frag_difference(a, m) OBVIOUS
  <2>3. /\ n \in Nat /\ d \in Nat /\ 1 <= d /\ d <= n
        /\ last_acknowledged_frag[a] \in Nat
        /\ last_acknowledged_frag'[a] = last_acknowledged_frag[a] + d
        /\ Base(a) + d <= Taken(a)
        /\ last_payload_index'[a] = n - d - 1
        /\ sender_buffer'[a] \in Seq(Payload) /\ Len(sender_buffer'[a]) = n - d
        /\ \A i \in 1 .. n - d : sender_buffer'[a][i] = sender_buffer[a][d + i]
    BY <1>3, <2>1, <2>2, AdatEffect
  <2>4. StartedInv(a) /\ BufferInv(a) /\ PositionInv(a) /\ ContentInv(a)
        /\ FlightInv(a) /\ SendInv(a) /\ CloseInv(a)
    BY DEF AddrInv, EndsInv
  <2>5. /\ Base(a)' = Base(a) + d /\ Base(a) \in Nat
        /\ Taken(a)' = Taken(a) /\ Received(a)' = Received(a) /\ Taken(a) \in Int
    <3>1. Base(a) = last_acknowledged_frag[a] BY <2>3 DEF Base
    <3>2. Base(a)' = last_acknowledged_frag[a] + d BY <2>3 DEF Base
    <3> QED
      BY <2>3, <3>1, <3>2 DEF Taken, Received, receiverVars, TypeOK, ReceiverTypeOK
  <2>6. StartedInv(a)' BY <1>1, <2>3, <2>4 DEF StartedInv, SameThreads
  <2>7. BufferInv(a)'
    <3>1. ASSUME NEW i \in 1 .. n - d
          PROVE  /\ 1 <= sender_buffer'[a][i].len
                 /\ sender_buffer'[a][i].len <= MAX_MRT_PAYLOAD_LENGTH
                 /\ sender_buffer'[a][i].lo + sender_buffer'[a][i].len
                      = IF i = n - d THEN written'[a]
                        ELSE sender_buffer'[a][i + 1].lo
      <4>1. d + i \in 1 .. n /\ (d + i = n <=> i = n - d) BY <2>3
      <4>2. sender_buffer'[a][i] = sender_buffer[a][d + i] BY <2>3
      <4>3. i # n - d => sender_buffer'[a][i + 1] = sender_buffer[a][d + i + 1]
        <5> SUFFICES ASSUME i # n - d
                     PROVE  sender_buffer'[a][i + 1] = sender_buffer[a][d + i + 1]
          OBVIOUS
        <5>1. i + 1 \in 1 .. n - d /\ d + (i + 1) = d + i + 1 BY SMTT(60), <2>3
        <5> QED BY <2>3, <5>1
      <4> QED BY <1>1, <2>1, <2>4, <4>1, <4>2, <4>3 DEF BufferInv
    <3>2. n - d <= MAX_PAYLOADS_BUFFERABLE
      BY <2>1, <2>3, <2>4, SenderAssumption DEF BufferInv
    <3> QED BY <2>3, <3>1, <3>2 DEF BufferInv
  <2>8. ASSUME NEW f \in Int, Base(a) + d < f, f <= Base(a) + n
        PROVE  Held(a, f)' = Held(a, f)
    <3>1. /\ f - (Base(a) + d) \in 1 .. n - d
          /\ d + (f - (Base(a) + d)) = f - Base(a)
      BY SMTT(60), <2>3, <2>5, <2>8
    <3> QED BY <2>3, <2>5, <3>1 DEF Held
  <2>9. Base(a) + n = Base(a)' + (n - d) BY <2>3, <2>5
  <2>10. PositionInv(a)'
    <3>1. Taken(a) <= Base(a) + n
          /\ Received(a) = IF Taken(a) = Base(a) + n
                           THEN written[a] ELSE Held(a, Taken(a) + 1).lo
      BY <2>1, <2>4 DEF PositionInv
    <3>2. CASE Taken(a) = Base(a) + n
      BY <1>1, <2>3, <2>5, <2>9, <3>1, <3>2 DEF PositionInv
    <3>3. CASE Taken(a) # Base(a) + n
      <4>1. PICK f : f = Taken(a) + 1 OBVIOUS
      <4>2. f \in Int /\ Base(a) + d < f /\ f <= Base(a) + n
        <5>1. Taken(a) \in Int /\ Base(a) \in Int /\ n \in Int /\ d \in Int
          BY <2>3, <2>5
        <5>2. Base(a) + d <= Taken(a) BY <2>3
        <5> QED BY <3>1, <3>3, <4>1, <5>1, <5>2
      <4>3. Held(a, f)' = Held(a, f) BY <2>8, <4>2
      <4>4. Held(a, Taken(a) + 1)' = Held(a, Taken(a) + 1)
        BY <2>5, <4>1, <4>3 DEF Held
      <4> QED BY <2>3, <2>5, <2>9, <3>1, <3>3, <4>4 DEF PositionInv
    <3> QED BY <3>2, <3>3
  <2>11. ContentInv(a)' BY <2>4 DEF ContentInv, receiverVars
  <2>12. FlightInv(a)'
    <3>1. ASSUME NEW x \in ToReceiverMsg, x.src = a, DataOk(x) PROVE DataOk(x)'
      <4>1. x.frag \in Int BY DEF ToReceiverMsg
      <4>2. last_acknowledged_frag'[a] >= 0 BY <2>3
      <4>3. CASE x.type = "DATA" /\ x.frag # -1
        <5>1. 1 <= x.frag /\ x.frag <= Base(a) + n
          BY <2>1, <3>1, <4>3 DEF DataOk
        <5>2. x.frag > Base(a)' =>
                x.frag > Base(a) /\ Held(a, x.frag)' = Held(a, x.frag)
          BY <2>3, <2>5, <2>8, <4>1, <5>1
        <5>3. x.frag > Base(a) => /\ x.lo = Held(a, x.frag).lo
                                  /\ x.len = Held(a, x.frag).len
          BY <3>1, <4>3 DEF DataOk
        <5>4. Len(sender_buffer'[a]) = n - d BY <2>3
        <5> QED BY <2>9, <3>1, <4>2, <5>1, <5>2, <5>3, <5>4 DEF DataOk
      <4>4. CASE ~(x.type = "DATA" /\ x.frag # -1)
        BY <3>1, <4>2, <4>4 DEF DataOk
      <4> QED BY <4>3, <4>4
    <3>2. ASSUME NEW x, x.dst = a, AdatOk(x) PROVE AdatOk(x)'
      BY <2>3, <2>5, <3>2 DEF AdatOk
    <3>3. toReceiver' \subseteq ToReceiverMsg
      BY DEF TypeOK, NetTypeOK, HandlerADAT, HandlerReceives
    <3> QED BY <2>4, <3>1, <3>2, <3>3 DEF FlightInv, GoodFlight
  <2>13. SendInv(a)'
    <3>1. FragsLeft(a)' = FragsLeft(a) /\ BytesLeft(a)' = BytesLeft(a)
      <4>1. final_frag'[a] = final_frag[a] /\ final_frag[a] \in Int
        BY <1>1 DEF SameCall, TypeOK, SenderTypeOK
      <4>2. FragsLeft(a)' = final_frag[a] - (Base(a) + d) - (n - d)
        BY <2>3, <2>5, <4>1 DEF FragsLeft
      <4>3. FragsLeft(a) = final_frag[a] - Base(a) - n BY <2>1 DEF FragsLeft
      <4> QED BY <1>1, <2>3, <2>5, <4>1, <4>2, <4>3 DEF BytesLeft, SameCall
    <3>2. sender_buffer[a] # <<>> BY <2>1, <2>3
    <3> QED BY <1>1, <2>4, <3>1, <3>2 DEF SendInv, SameCall
  <2>14. CloseInv(a)'
    <3>1. sender_buffer[a] # <<>> BY <2>1, <2>3
    <3> QED BY <1>1, <2>4, <3>1 DEF CloseInv, RclsOk, NoNewRcls, SameCall
  <2> QED
    BY <2>6, <2>7, <2>10, <2>11, <2>12, <2>13, <2>14 DEF AddrInv, EndsInv
<1> QED BY <1>2, <1>3

-------------------------------------------------------------------------------
(* The other steps of a sender process. *)

\* The first ACON opens the stream, the others change nothing.
LEMMA AconStream ==
  ASSUME TypeOK, NEW a \in Addrs, AddrInv(a), NEW m \in toSender,
         HandlerACON(a, m), UNCHANGED receiverVars, GoodFlight(a), NoNewRcls(a)
  PROVE  AddrInv(a)'
<1>1. /\ SameCall(a) /\ UNCHANGED <<bufferVars, senderLocal, written>>
  BY DEF HandlerACON, SameCall, sendVars
<1>2. /\ last_acknowledged_frag \in [Addrs -> Int]
      /\ sender_thread \in [Addrs -> {"none", "run", "done"}]
  BY DEF TypeOK, SenderTypeOK
<1>3. CASE last_acknowledged_frag[a] # -1
  <2>1. UNCHANGED <<sender_thread, last_acknowledged_frag>>
    BY <1>3 DEF HandlerACON
  <2>2. SameEnds(a) /\ SameThreads(a)
    BY <1>1, <2>1 DEF SameEnds, SameThreads, bufferVars, senderLocal, receiverVars
  <2> QED BY <1>1, <2>2, OtherAddress
<1>4. CASE last_acknowledged_frag[a] = -1
  <2>1. last_acknowledged_frag'[a] = 0 BY <1>2, <1>4 DEF HandlerACON
  <2>2. /\ sender_buffer'[a] = sender_buffer[a]
        /\ last_payload_index'[a] = last_payload_index[a]
        /\ written'[a] = written[a] /\ last_sent_index'[a] = last_sent_index[a]
    BY <1>1 DEF bufferVars, senderLocal
  <2>3. /\ Base(a)' = Base(a) /\ Taken(a)' = Taken(a)
        /\ Received(a)' = Received(a) /\ \A f : Held(a, f)' = Held(a, f)
    BY <1>4, <2>1, <2>2 DEF Base, Taken, Received, Held, receiverVars
  <2>4. StartedInv(a)' BY <2>1, <2>2 DEF AddrInv, EndsInv, StartedInv
  <2>5. BufferInv(a)' BY <2>2 DEF AddrInv, EndsInv, BufferInv
  <2>6. PositionInv(a)' BY <2>2, <2>3 DEF AddrInv, EndsInv, PositionInv
  <2>7. ContentInv(a)' BY DEF AddrInv, EndsInv, ContentInv, receiverVars
  <2>8. FlightInv(a)'
    <3>1. ASSUME NEW x, x.src = a, DataOk(x) PROVE DataOk(x)'
      BY <2>1, <2>2, <2>3, <3>1 DEF DataOk
    <3>2. ASSUME NEW x, x.dst = a, AdatOk(x) PROVE AdatOk(x)'
      BY <2>1, <2>3, <3>2 DEF AdatOk
    <3> QED BY <3>1, <3>2 DEF AddrInv, FlightInv, GoodFlight
  <2>9. SendInv(a)'
    <3>1. FragsLeft(a)' = FragsLeft(a) /\ BytesLeft(a)' = BytesLeft(a)
      BY <1>1, <2>2, <2>3 DEF FragsLeft, BytesLeft, SameCall
    <3> QED BY <1>1, <2>2, <3>1 DEF AddrInv, SendInv, SameCall
  <2>10. CloseInv(a)'
    BY <1>1, <2>2 DEF AddrInv, CloseInv, RclsOk, NoNewRcls, SameCall
  <2> QED
    BY <2>4, <2>5, <2>6, <2>7, <2>8, <2>9, <2>10 DEF AddrInv, EndsInv
<1> QED BY <1>3, <1>4

\* sender() and checker() change neither end.
LEMMA ThreadsSame ==
  ASSUME TypeOK, NEW a \in Addrs, AddrInv(a), UNCHANGED receiverVars,
         \/ SenderThreadStep(a) \/ CheckerStep(a) \/ HandlerCleanup(a)
         \/ \E m \in toSender : HandlerBreak(a, m) \/ HandlerACLS(a, m)
  PROVE  SameEnds(a) /\ SameCall(a) /\ StartedInv(a)'
<1> USE DEF SameEnds, SameCall, bufferVars, ackVars, sendVars, senderLocal,
            threadVars, receiverVars
<1>0. /\ sender_thread \in [Addrs -> {"none", "run", "done"}]
      /\ last_sent_index \in [Addrs -> Int]
      /\ StartedInv(a)
  BY DEF TypeOK, SenderTypeOK, AddrInv, EndsInv
<1>1. CASE SenderExit(a)
  BY <1>0, <1>1 DEF SenderExit, StartedInv
<1>2. CASE SenderEmpty(a)
  BY <1>0, <1>2 DEF SenderEmpty, StartedInv
<1>3. CASE SenderData(a)
  BY <1>0, <1>3 DEF SenderData, StartedInv
<1>4. CASE CheckerStep(a) \/ HandlerCleanup(a)
  BY <1>0, <1>4
  DEF CheckerStep, CheckerTick, CheckerClose, HandlerCleanup, StartedInv
<1>5. CASE \E m \in toSender : HandlerBreak(a, m) \/ HandlerACLS(a, m)
  BY <1>0, <1>5 DEF HandlerBreak, HandlerACLS, StartedInv
<1> QED
  BY <1>1, <1>2, <1>3, <1>4, <1>5 DEF SenderThreadStep

\* Every step of a sender process preserves what is said of every stream.
LEMMA SenderStream ==
  ASSUME TypeOK, NEW a \in Addrs, NEW b \in Addrs, AddrInv(a), AddrInv(b),
         SenderStep(a), UNCHANGED receiverVars
  PROVE  AddrInv(b)'
<1>1. GoodFlight(b) /\ (NoNewRcls(b) \/ (b = a /\ disc_rcls(a)))
  BY SenderFlight
<1>2. CASE b # a BY <1>1, <1>2, SenderStepOther, OtherAddress
<1>3. CASE b = a
  <2>1. CASE AppControl(a)
    <3>1. SameEnds(a) BY <2>1, AppSameEnds
    <3>2. BufferInv(a)' /\ PositionInv(a)' /\ ContentInv(a)'
      BY <3>1, EndsFrame DEF AddrInv, EndsInv
    <3>3. StartedInv(a)' BY <2>1, AppStarted DEF AddrInv, EndsInv
    <3>4. FlightInv(a)' BY <1>1, <1>3, <3>1, FlightFrame DEF AddrInv
    <3>5. SendInv(a)' BY <2>1, AppSend DEF AddrInv
    <3>6. CloseInv(a)' BY <1>1, <1>3, <2>1, AppClose DEF AddrInv
    <3> QED BY <1>3, <3>2, <3>3, <3>4, <3>5, <3>6 DEF AddrInv, EndsInv
  <2>2. CASE ~AppControl(a)
    <3>1. ~disc_rcls(a)
      BY <2>2 DEF AppControl, AppStep, disc_rcls, send_copy
    <3>2. NoNewRcls(a) /\ GoodFlight(a) BY <1>1, <1>3, <3>1
    <3>3. CASE send_copy(a) BY <1>3, <3>2, <3>3, CopyStream
    <3>4. CASE \E m \in toSender : HandlerACON(a, m)
      BY <1>3, <3>2, <3>4, AconStream
    <3>5. CASE \E m \in toSender : HandlerADAT(a, m)
      BY <1>3, <3>2, <3>5, AdatStream
    <3>6. CASE \/ SenderThreadStep(a) \/ CheckerStep(a) \/ HandlerCleanup(a)
               \/ \E m \in toSender : HandlerBreak(a, m) \/ HandlerACLS(a, m)
      <4>1. SameEnds(a) /\ SameCall(a) /\ StartedInv(a)' BY <3>6, ThreadsSame
      <4> QED
        BY <1>3, <3>2, <4>1, EndsFrame, FlightFrame, SendFrame, CloseFrame
        DEF AddrInv, EndsInv
    <3> QED
      BY <2>2, <3>3, <3>4, <3>5, <3>6 DEF SenderStep, AppControl, HandlerStep
  <2> QED BY <2>1, <2>2
<1> QED BY <1>2, <1>3

-------------------------------------------------------------------------------
(* The steps of the receiver. *)

\* A step of the receiver is none of the call and the threads of a sender.
LEMMA ReceiverSameCall ==
  ASSUME NEW b, UNCHANGED senderVars
  PROVE  SameCall(b) /\ SameThreads(b)
  BY DEF senderVars, SameCall, SameThreads

\* A step that changes only the object at home of a, and what was delivered of
\* a, is none for another stream.
LEMMA ReceiverStepOther ==
  ASSUME QueueInv, NEW a \in Addrs, NEW b \in Addrs, a # b,
         home[a] # NULL, UNCHANGED <<senderVars, home>>,
         delivered'[b] = delivered[b],
         TypeOK,
         \A t \in SenderIds \ {home[a]} :
           buffer'[t] = buffer[t] /\ next_frag'[t] = next_frag[t]
  PROVE  SameEnds(b)
<1>1. home[b] # NULL => home[b] \in SenderIds \ {home[a]}
  BY HomeOneToOne DEF TypeOK, ReceiverTypeOK
<1> QED BY <1>1 DEF SameEnds, senderVars

\* receive1_data() moves bytes from the buffer to the application.
LEMMA ReadStream ==
  ASSUME TypeOK, QueueInv, NEW a \in Addrs, AddrInv(a), NEW s \in SenderIds,
         NEW len \in ReceiveLens, receive1_data(a, s, len), UNCHANGED senderVars
  PROVE  AddrInv(a)'
<1>1. PICK n : n = bytes_read(s, len) OBVIOUS
<1>2. /\ n \in Nat /\ n <= Len(buffer[s]) /\ buffer[s] \in Seq(Nat)
      /\ delivered[a] \in Seq(Nat)
  BY <1>1, ReceiverAssumption DEF bytes_read, TypeOK, ReceiverTypeOK
<1>3. s = home[a] /\ home[a] # NULL
  BY FoundIsHome DEF receive1_data, QueuesExist
<1>4. /\ delivered'[a] = delivered[a] \o SubSeq(buffer[s], 1, n)
      /\ buffer'[s] = SubSeq(buffer[s], n + 1, Len(buffer[s]))
      /\ UNCHANGED <<next_frag, home>>
  BY <1>1 DEF receive1_data, bytes_remaining, TypeOK, ReceiverTypeOK
<1>5. /\ Len(SubSeq(buffer[s], 1, n)) = n
      /\ \A i \in 1 .. n : SubSeq(buffer[s], 1, n)[i] = buffer[s][i]
      /\ SubSeq(buffer[s], 1, n) \in Seq(Nat)
  BY <1>2
<1>6. /\ Len(delivered'[a]) = Len(delivered[a]) + n
      /\ \A i \in 1 .. Len(delivered[a]) : delivered'[a][i] = delivered[a][i]
      /\ \A i \in 1 .. n : delivered'[a][Len(delivered[a]) + i] = buffer[s][i]
  <2>1. PICK e : e = SubSeq(buffer[s], 1, n) OBVIOUS
  <2>2. e \in Seq(Nat) /\ Len(e) = n /\ \A i \in 1 .. n : e[i] = buffer[s][i]
    BY <1>5, <2>1
  <2>3. delivered'[a] = delivered[a] \o e BY <1>4, <2>1
  <2>4. /\ Len(delivered'[a]) = Len(delivered[a]) + Len(e)
        /\ \A i \in 1 .. Len(delivered[a]) : delivered'[a][i] = delivered[a][i]
        /\ \A i \in 1 .. Len(e) : delivered'[a][Len(delivered[a]) + i] = e[i]
    <3>1. /\ Len(delivered[a] \o e) = Len(delivered[a]) + Len(e)
          /\ \A i \in 1 .. Len(delivered[a]) :
               (delivered[a] \o e)[i] = delivered[a][i]
          /\ \A i \in 1 .. Len(e) :
               (delivered[a] \o e)[Len(delivered[a]) + i] = e[i]
      BY <1>2, <2>2, ConcatBytes
    <3> QED BY <2>3, <3>1
  <2> QED BY <2>2, <2>4
<1>7. /\ Len(buffer'[s]) = Len(buffer[s]) - n
      /\ \A i \in 1 .. Len(buffer[s]) - n : buffer'[s][i] = buffer[s][n + i]
  BY <1>2, <1>4
<1>8. /\ Base(a)' = Base(a) /\ Taken(a)' = Taken(a)
      /\ \A f : Held(a, f)' = Held(a, f)
  BY <1>4 DEF Base, Taken, Held, senderVars
<1> DEFINE D == Len(delivered[a])
           B == Len(buffer[s])
<1>8a. D \in Nat /\ B \in Nat /\ D' = D + n /\ B' = B - n
  <2>1. D \in Nat /\ B \in Nat BY <1>2
  <2>2. D' = D + n BY <1>6
  <2>3. B' = B - n BY <1>7
  <2> QED BY <2>1, <2>2, <2>3
<1>9. Received(a)' = Received(a)
  <2>1. Received(a)' = D' + B' BY <1>3, <1>4 DEF Received
  <2>2. Received(a) = D + B BY <1>3 DEF Received
  <2> HIDE DEF D, B
  <2> QED BY <1>2, <1>8a, <2>1, <2>2
<1>10. ContentInv(a)'
  <2>0. /\ \A i \in 1 .. Len(delivered[a]) : delivered[a][i] = i
        /\ \A i \in 1 .. Len(buffer[s]) : buffer[s][i] = Len(delivered[a]) + i
    BY <1>3 DEF AddrInv, EndsInv, ContentInv
  <2>1. ASSUME NEW i \in 1 .. Len(delivered'[a]) PROVE delivered'[a][i] = i
    <3>1. CASE i \in 1 .. Len(delivered[a]) BY <1>6, <2>0, <3>1
    <3>2. CASE i \notin 1 .. Len(delivered[a])
      <4>1. /\ i - Len(delivered[a]) \in 1 .. n
            /\ i - Len(delivered[a]) \in 1 .. Len(buffer[s])
            /\ Len(delivered[a]) + (i - Len(delivered[a])) = i
        BY <1>2, <1>6, <3>2
      <4> QED BY <1>6, <2>0, <4>1
    <3> QED BY <3>1, <3>2
  <2>2. ASSUME NEW i \in 1 .. Len(buffer'[s])
        PROVE  buffer'[s][i] = Len(delivered'[a]) + i
    <3>1. n + i \in 1 .. Len(buffer[s]) /\ i \in 1 .. Len(buffer[s]) - n
      BY <1>2, <1>7
    <3>2. buffer'[s][i] = Len(delivered[a]) + (n + i)
      BY <1>7, <2>0, <3>1
    <3>3. buffer'[s][i] = D + (n + i) /\ i \in Int BY <3>2
    <3>4. D' = Len(delivered'[a]) OBVIOUS
    <3> HIDE DEF D
    <3>5. D + (n + i) = D' + i BY <1>2, <1>8a, <3>3
    <3> QED BY <3>3, <3>4, <3>5
  <2> QED BY <1>3, <1>4, <2>1, <2>2 DEF ContentInv
<1>11. StartedInv(a)' /\ BufferInv(a)'
  BY DEF AddrInv, EndsInv, StartedInv, BufferInv, senderVars
<1>12. PositionInv(a)'
  BY <1>8, <1>9 DEF AddrInv, EndsInv, PositionInv, senderVars
<1>13. FlightInv(a)'
  <2>1. UNCHANGED netVars BY DEF receive1_data
  <2> QED
    BY <1>8, <2>1 DEF AddrInv, FlightInv, DataOk, AdatOk, netVars, senderVars
<1>14. SendInv(a)'
  <2>1. FragsLeft(a)' = FragsLeft(a) /\ BytesLeft(a)' = BytesLeft(a)
    BY <1>8 DEF FragsLeft, BytesLeft, senderVars
  <2> QED BY <2>1 DEF AddrInv, SendInv, senderVars
<1>15. CloseInv(a)'
  BY DEF AddrInv, CloseInv, RclsOk, receive1_data, netVars, senderVars
<1> QED BY <1>10, <1>11, <1>12, <1>13, <1>14, <1>15 DEF AddrInv, EndsInv

\* DataAccept() takes the next payload of the stream.
LEMMA AcceptStream ==
  ASSUME TypeOK, QueueInv, NEW m \in toReceiver, NEW s \in SenderIds,
         NEW a \in Addrs, a = m.src, AddrInv(a), DataAccept(m, s),
         UNCHANGED senderVars
  PROVE  AddrInv(a)'
<1>1. m \in ToReceiverMsg /\ m.frag \in Int /\ m.len \in Int /\ m.lo \in Nat
  BY DEF TypeOK, NetTypeOK, ToReceiverMsg
<1>2. s = home[a] /\ home[a] # NULL
  BY FoundIsHome DEF DataAccept, MainReceives
<1>3. /\ m.type = "DATA" /\ m.frag = next_frag[s]
      /\ toReceiver' \subseteq toReceiver
  BY RecvfromTakes DEF DataAccept, MainReceives, Accepts
<1>4. /\ buffer[s] \in Seq(Nat) /\ next_frag[s] \in Int
      /\ delivered[a] \in Seq(Nat) /\ Base(a) \in Int /\ Taken(a) \in Int
      /\ last_acknowledged_frag[a] \in Int
      /\ sender_buffer[a] \in Seq(Payload) /\ written[a] \in Nat
  <2>1. /\ buffer[s] \in Seq(Nat) /\ next_frag[s] \in Int
        /\ delivered[a] \in Seq(Nat) /\ next_frag \in [SenderIds -> Int]
        /\ home[a] \in SenderIds \cup {NULL}
    BY DEF TypeOK, ReceiverTypeOK
  <2>2. /\ last_acknowledged_frag[a] \in Int
        /\ sender_buffer[a] \in Seq(Payload) /\ written[a] \in Nat
    BY DEF TypeOK, SenderTypeOK
  <2> QED BY <2>1, <2>2 DEF Base, Taken
<1>5. PICK n : n = Len(sender_buffer[a]) OBVIOUS
<1>6. PICK j : j = m.frag - Base(a) OBVIOUS
<1>7. BufferInv(a) /\ PositionInv(a) /\ ContentInv(a) /\ DataOk(m) /\ StartedInv(a)
  BY DEF AddrInv, EndsInv, FlightInv
<1>8. Taken(a) = m.frag - 1 /\ Base(a) <= Taken(a) /\ Taken(a) <= Base(a) + n
  BY <1>2, <1>3, <1>5, <1>7 DEF Taken, PositionInv
<1>9. Base(a) >= 0 BY <1>4, <1>7 DEF Base, StartedInv
<1>10. m.frag # -1 BY <1>1, <1>4, <1>8, <1>9
<1>11. /\ m.frag <= Base(a) + n
       /\ m.frag > Base(a) =>
            m.lo = Held(a, m.frag).lo /\ m.len = Held(a, m.frag).len
  BY <1>3, <1>5, <1>7, <1>10 DEF DataOk
<1>12. n \in Nat /\ j \in 1 .. n /\ m.frag > Base(a)
  BY SMTT(30), <1>1, <1>4, <1>5, <1>6, <1>8, <1>11
<1>13. m.lo = sender_buffer[a][j].lo /\ m.len = sender_buffer[a][j].len
  BY <1>6, <1>11, <1>12 DEF Held
<1>14. /\ 1 <= m.len
       /\ m.lo + m.len = IF j = n THEN written[a] ELSE sender_buffer[a][j + 1].lo
  BY SMTT(60), <1>5, <1>7, <1>12, <1>13 DEF BufferInv
<1>15. Received(a) = m.lo
  <2>1. Taken(a) # Base(a) + n /\ Taken(a) + 1 = m.frag
    BY SMTT(60), <1>1, <1>4, <1>8, <1>11, <1>12
  <2> QED BY <1>5, <1>7, <1>11, <1>12, <2>1 DEF PositionInv
<1>16. Received(a) = Len(delivered[a]) + Len(buffer[s]) BY <1>2 DEF Received
<1>17. PICK e : e = payload_bytes(m) OBVIOUS
<1>18. /\ e \in Seq(Nat) /\ Len(e) = m.len
       /\ \A i \in 1 .. m.len : e[i] = m.lo + i
  BY <1>1, <1>14, <1>17, PayloadBytesType
<1>19. /\ buffer'[s] = buffer[s] \o e /\ next_frag'[s] = next_frag[s] + 1
       /\ UNCHANGED <<home, delivered>>
  BY <1>17 DEF DataAccept, TypeOK, ReceiverTypeOK, callVars
<1>20. /\ Len(buffer'[s]) = Len(buffer[s]) + m.len
       /\ \A i \in 1 .. Len(buffer[s]) : buffer'[s][i] = buffer[s][i]
       /\ \A i \in 1 .. m.len : buffer'[s][Len(buffer[s]) + i] = m.lo + i
  <2>1. /\ Len(buffer'[s]) = Len(buffer[s]) + Len(e)
        /\ \A i \in 1 .. Len(buffer[s]) : buffer'[s][i] = buffer[s][i]
        /\ \A i \in 1 .. Len(e) : buffer'[s][Len(buffer[s]) + i] = e[i]
    <3>1. /\ Len(buffer[s] \o e) = Len(buffer[s]) + Len(e)
          /\ \A i \in 1 .. Len(buffer[s]) : (buffer[s] \o e)[i] = buffer[s][i]
          /\ \A i \in 1 .. Len(e) : (buffer[s] \o e)[Len(buffer[s]) + i] = e[i]
      BY <1>4, <1>18, ConcatBytes
    <3> QED BY <1>19, <3>1
  <2> QED BY <1>18, <2>1
<1>21. /\ Base(a)' = Base(a) /\ Taken(a)' = Taken(a) + 1
       /\ \A f : Held(a, f)' = Held(a, f)
  BY <1>2, <1>4, <1>19 DEF Base, Taken, Held, senderVars
<1> DEFINE D == Len(delivered[a])
           B == Len(buffer[s])
<1>21a. D \in Nat /\ B \in Nat /\ D' = D /\ B' = B + m.len
  BY <1>4, <1>19, <1>20
<1>21b. Received(a) = D + B BY <1>16
<1>22. Received(a)' = Received(a) + m.len
  <2>1. Received(a)' = D' + B' BY <1>2, <1>19 DEF Received
  <2> HIDE DEF D, B
  <2> QED BY <1>1, <1>21a, <1>21b, <2>1
<1>23. PositionInv(a)'
  <2>1. Base(a) <= Taken(a) + 1 /\ Taken(a) + 1 <= Base(a) + n
    BY <1>1, <1>4, <1>8, <1>11
  <2>2. Received(a)' = IF Taken(a) + 1 = Base(a) + n
                       THEN written[a] ELSE Held(a, Taken(a) + 1 + 1).lo
    <3>1. Taken(a) + 1 = Base(a) + n <=> j = n
      BY SMTT(60), <1>1, <1>4, <1>6, <1>8, <1>12
    <3>2. PICK f : f = Taken(a) + 1 + 1 OBVIOUS
    <3>3. Held(a, Taken(a) + 1 + 1) = sender_buffer[a][j + 1]
      <4>1. f - Base(a) = j + 1 BY SMTT(60), <1>1, <1>4, <1>6, <1>8, <3>2
      <4>2. Held(a, f) = sender_buffer[a][j + 1] BY <4>1 DEF Held
      <4> QED BY <3>2, <4>2
    <3> QED BY <1>14, <1>15, <1>22, <3>1, <3>3
  <2> QED BY <1>5, <1>21, <2>1, <2>2 DEF PositionInv, senderVars
<1>24. ContentInv(a)'
  <2>0. \A i \in 1 .. Len(buffer[s]) : buffer[s][i] = Len(delivered[a]) + i
    BY <1>2, <1>7 DEF ContentInv
  <2>1. ASSUME NEW i \in 1 .. Len(buffer'[s])
        PROVE  buffer'[s][i] = Len(delivered[a]) + i
    <3>0. Len(buffer[s]) \in Nat /\ Len(delivered[a]) \in Nat BY <1>4
    <3>1. CASE i \in 1 .. Len(buffer[s]) BY <1>20, <2>0, <3>1
    <3>2. CASE i \notin 1 .. Len(buffer[s])
      <4>1. Len(buffer'[s]) = Len(buffer[s]) + m.len BY <1>20
      <4>2. /\ i - Len(buffer[s]) \in 1 .. m.len
            /\ Len(buffer[s]) + (i - Len(buffer[s])) = i
        BY <1>1, <3>0, <3>2, <4>1
      <4>3. buffer'[s][i] = m.lo + (i - Len(buffer[s])) BY <1>20, <4>2
      <4>4. m.lo = D + B /\ D \in Nat /\ B \in Nat /\ i \in Int
        BY <1>15, <1>21a, <1>21b
      <4>5. buffer'[s][i] = m.lo + (i - B) BY <4>3
      <4>6. D = Len(delivered[a]) OBVIOUS
      <4> HIDE DEF D, B
      <4>7. m.lo + (i - B) = D + i BY <4>4
      <4> QED BY <4>5, <4>6, <4>7
    <3> QED BY <3>1, <3>2
  <2> QED BY <1>2, <1>7, <1>19, <2>1 DEF ContentInv
<1>25. StartedInv(a)' /\ BufferInv(a)'
  BY <1>7 DEF StartedInv, BufferInv, senderVars
<1>26. FlightInv(a)'
  <2>1. ASSUME NEW x, x.src = a, DataOk(x) PROVE DataOk(x)'
    BY <1>21, <2>1 DEF DataOk, senderVars
  <2>2. ASSUME NEW x \in ToSenderMsg, x.dst = a, AdatOk(x) PROVE AdatOk(x)'
    <3>1. x.frag \in Int BY DEF ToSenderMsg
    <3>2. x.frag <= Taken(a) => x.frag <= Taken(a) + 1 BY <1>4, <3>1
    <3> QED BY <1>21, <2>2, <3>2 DEF AdatOk, senderVars
  <2>3. PICK r : /\ r = build_adat(a, next_frag[s], curr_window_size(s) - m.len)
                 /\ toSender' = sendto(toSender, r)
    BY DEF DataAccept
  <2>4. AdatOk(r)'
    <3>1. r.dst = a /\ r.frag = next_frag[s] BY <2>3 DEF build_adat
    <3>2. next_frag[s] = Taken(a) + 1 BY <1>2, <1>4 DEF Taken
    <3>3. last_acknowledged_frag[a] >= 0 BY <1>3, <1>7 DEF DataOk
    <3>4. next_frag[s] <= Taken(a)' BY <1>4, <1>21, <3>2
    <3> QED BY <3>1, <3>3, <3>4 DEF AdatOk, senderVars
  <2>5. toSender \subseteq ToSenderMsg BY DEF TypeOK, NetTypeOK
  <2>6. \A x \in toSender' : x = r \/ x \in toSender BY <2>3, SendtoAdds
  <2> QED BY <1>3, <2>1, <2>2, <2>4, <2>5, <2>6 DEF AddrInv, FlightInv
<1>27. SendInv(a)'
  <2>1. FragsLeft(a)' = FragsLeft(a) /\ BytesLeft(a)' = BytesLeft(a)
    BY <1>21 DEF FragsLeft, BytesLeft, senderVars
  <2> QED BY <2>1 DEF AddrInv, SendInv, senderVars
<1>28. CloseInv(a)'
  BY <1>3 DEF AddrInv, CloseInv, RclsOk, senderVars
<1> QED BY <1>23, <1>24, <1>25, <1>26, <1>27, <1>28 DEF AddrInv, EndsInv

\* accept1_enq() makes the new object the home of its address.
LEMMA HomeStream ==
  ASSUME TypeOK, QueueInv, NEW a \in Addrs, AddrInv(a), accept1_enq,
         UNCHANGED senderVars
  PROVE  AddrInv(a)'
<1>1. /\ accepting \in SenderIds /\ accepting # NULL /\ Fresh(accepting)
      /\ home \in [Addrs -> SenderIds \cup {NULL}]
  BY DEF accept1_enq, QueueInv, AcceptingInv, TypeOK, ReceiverTypeOK
<1>2. UNCHANGED <<objectVars, delivered, toReceiver>>
  BY DEF accept1_enq, callVars
<1>3. GoodFlight(a) /\ NoNewRcls(a)
  BY <1>2, FlightOfReply DEF accept1_enq, build_acon, AdatOk
<1>4. SameCall(a) /\ SameThreads(a) BY ReceiverSameCall
<1>5. CASE home'[a] = home[a]
  <2>1. SameEnds(a) BY <1>2, <1>5 DEF SameEnds, senderVars, objectVars
  <2> QED BY <1>3, <1>4, <2>1, OtherAddress
<1>6. CASE home'[a] # home[a]
  <2>1. /\ addr[accepting] = a /\ home'[a] = accepting
        /\ Absent(connected_senders_q, a)
    BY <1>1, <1>6 DEF accept1_enq
  <2>2. home[a] = NULL
    <3>1. main_thread # "done" BY DEF accept1_enq, QueuesExist
    <3>2. connected_senders_q \in Seq(SenderIds) BY DEF TypeOK, ReceiverTypeOK
    <3>3. home[a] # NULL => Found(connected_senders_q, a, home[a])
      BY <3>1 DEF QueueInv, HomeInv
    <3> QED BY <2>1, <3>2, <3>3, FoundIsThere
  <2>3. buffer[accepting] = <<>> /\ next_frag[accepting] = 1
    BY <1>1 DEF Fresh
  <2>4. delivered[a] = <<>> BY <2>2 DEF AddrInv, EndsInv, ContentInv
  <2>5. Base(a)' = Base(a) /\ \A f : Held(a, f)' = Held(a, f)
    BY DEF Base, Held, senderVars
  <2>6. Taken(a) = 0 /\ Received(a) = 0 BY <2>2 DEF Taken, Received
  <2>7. Taken(a)' = 0 /\ Received(a)' = 0
    BY <1>1, <1>2, <2>1, <2>3, <2>4 DEF Taken, Received, objectVars
  <2>8. StartedInv(a)' /\ BufferInv(a)'
    BY DEF AddrInv, EndsInv, StartedInv, BufferInv, senderVars
  <2>9. PositionInv(a)'
    BY <2>5, <2>6, <2>7 DEF AddrInv, EndsInv, PositionInv, senderVars
  <2>10. ContentInv(a)'
    BY <1>1, <1>2, <2>1, <2>3, <2>4 DEF ContentInv, objectVars
  <2>11. FlightInv(a)'
    <3>1. ASSUME NEW x, x.src = a, DataOk(x) PROVE DataOk(x)'
      BY <2>5, <3>1 DEF DataOk, senderVars
    <3>2. ASSUME NEW x, x.dst = a, AdatOk(x) PROVE AdatOk(x)'
      BY <2>6, <2>7, <3>2 DEF AdatOk, senderVars
    <3> QED BY <1>3, <3>1, <3>2 DEF AddrInv, FlightInv, GoodFlight
  <2>12. SendInv(a)'
    <3>1. FragsLeft(a)' = FragsLeft(a) /\ BytesLeft(a)' = BytesLeft(a)
      BY <2>5 DEF FragsLeft, BytesLeft, senderVars
    <3> QED BY <3>1 DEF AddrInv, SendInv, senderVars
  <2>13. CloseInv(a)'
    BY <1>2 DEF AddrInv, CloseInv, RclsOk, senderVars
  <2> QED
    BY <2>8, <2>9, <2>10, <2>11, <2>12, <2>13 DEF AddrInv, EndsInv
<1> QED BY <1>5, <1>6

\* Every step of the receiver preserves what is said of every stream.
LEMMA ReceiverStream ==
  ASSUME TypeOK, QueueInv, NEW b \in Addrs, AddrInv(b),
         \A a \in Addrs : AddrInv(a), ReceiverStep, UNCHANGED senderVars
  PROVE  AddrInv(b)'
<1>0. SameCall(b) /\ SameThreads(b) BY ReceiverSameCall
<1>a. ASSUME SameEnds(b), toReceiver' \subseteq toReceiver,
             toSender' \subseteq toSender
      PROVE  AddrInv(b)'
  BY <1>0, <1>a, FlightOfRecvfrom, OtherAddress
<1>b. ASSUME SameEnds(b), toReceiver' \subseteq toReceiver,
             NEW m, toSender' = sendto(toSender, m), m.dst # b \/ AdatOk(m)
      PROVE  AddrInv(b)'
  BY <1>0, <1>b, FlightOfReply, OtherAddress
<1>c. ASSUME UNCHANGED <<buffer, next_frag, home, delivered>> PROVE SameEnds(b)
  BY <1>c DEF SameEnds, senderVars
<1>d. ASSUME NEW m, NEW type, MainReceives(m, type) \/ MainBreak(m)
      PROVE  toReceiver' \subseteq toReceiver
  BY <1>d, RecvfromTakes DEF MainReceives, MainBreak
<1> USE DEF objectVars, callVars, netVars
<1>1. CASE ReceiverAppStep
  <2>1. CASE accept1_enq BY <2>1, HomeStream
  <2>2. ASSUME NEW a \in Addrs, NEW s \in SenderIds, NEW len \in ReceiveLens,
               receive1_data(a, s, len)
        PROVE  AddrInv(b)'
    <3>1. CASE a = b BY <2>2, <3>1, ReadStream
    <3>2. CASE a # b
      <4>1. s = home[a] /\ home[a] # NULL
        BY <2>2, FoundIsHome DEF receive1_data, QueuesExist
      <4>2. /\ UNCHANGED <<home, next_frag, netVars>>
            /\ delivered'[b] = delivered[b]
            /\ \A t \in SenderIds \ {s} : buffer'[t] = buffer[t]
        BY <2>2, <3>2 DEF receive1_data, TypeOK, ReceiverTypeOK
      <4>3. SameEnds(b) BY <3>2, <4>1, <4>2, ReceiverStepOther
      <4> QED BY <1>a, <4>2, <4>3
    <3> QED BY <3>1, <3>2
  <2>3. CASE accept1_deq \/ mrt_open \/ mrt_close
    BY <1>a, <1>c, <2>3 DEF accept1_deq, mrt_open, mrt_close
  <2>4. ASSUME NEW a, NEW s, \/ receive1_spurious(a) \/ mrt_receive1(a) \/ receive1_dropped(a)
                             \/ receive1_timed_out(a, s)
        PROVE  AddrInv(b)'
    BY <1>a, <1>c, <2>4
    DEF receive1_spurious, mrt_receive1, receive1_timed_out, receive1_dropped
  <2> QED BY <1>1, <2>1, <2>2, <2>3, <2>4 DEF ReceiverAppStep
<1>2. CASE MainHandlerStep
  <2>1. ASSUME NEW m, NEW s, \/ MainBreak(m) \/ RconPending(m)
                             \/ DataUnknown(m) \/ RclsUnknown(m)
                             \/ RclsPending(m, s)
        PROVE  AddrInv(b)'
    BY <1>a, <1>c, <1>d, <2>1
    DEF MainBreak, RconPending, DataUnknown, RclsUnknown, RclsPending,
        receiverVars
  <2>2. ASSUME NEW m, RconConnected(m) PROVE AddrInv(b)'
    <3>1. AdatOk(build_acon(m.src, m.frag)) BY DEF AdatOk, build_acon
    <3> QED
      BY <1>b, <1>c, <1>d, <2>2, <3>1
      DEF RconConnected, duplicate_acon, receiverVars
  <2>3. ASSUME NEW m, NEW s, RclsConnected(m, s) PROVE AddrInv(b)'
    <3>1. AdatOk(build_acls(m.src)) BY DEF AdatOk, build_acls
    <3> QED BY <1>b, <1>c, <1>d, <2>3, <3>1 DEF RclsConnected
  <2>4. ASSUME NEW m \in toReceiver, NEW s \in SenderIds, DataReject(m, s)
        PROVE  AddrInv(b)'
    <3>1. m.src \in Addrs BY DEF TypeOK, NetTypeOK, ToReceiverMsg
    <3>2. s = home[m.src] /\ home[m.src] # NULL
      BY <2>4, <3>1, FoundIsHome DEF DataReject, MainReceives
    <3>3. /\ m.type = "DATA" /\ DataOk(m)
      BY <2>4, <3>1 DEF DataReject, MainReceives, AddrInv, FlightInv
    <3> DEFINE r == build_adat(m.src, adat_frag(s, m), curr_window_size(s))
    <3>4. adat_frag(s, m) = Taken(m.src) BY <3>2 DEF adat_frag, Taken
    <3>5. Taken(m.src) \in Int
      BY <3>1 DEF Taken, TypeOK, ReceiverTypeOK
    <3>6. AdatOk(r)
      BY <3>3, <3>4, <3>5 DEF AdatOk, DataOk, build_adat
    <3>7. toSender' = sendto(toSender, r) BY <2>4 DEF DataReject
    <3> HIDE DEF r
    <3> QED BY <1>b, <1>c, <1>d, <2>4, <3>6, <3>7 DEF DataReject
  <2>5. ASSUME NEW m \in toReceiver, NEW s \in SenderIds, DataAccept(m, s)
        PROVE  AddrInv(b)'
    <3>1. m.src \in Addrs BY DEF TypeOK, NetTypeOK, ToReceiverMsg
    <3>2. CASE m.src = b BY <2>5, <3>2, AcceptStream
    <3>3. CASE m.src # b
      <4>1. s = home[m.src] /\ home[m.src] # NULL
        BY <2>5, <3>1, FoundIsHome DEF DataAccept, MainReceives
      <4>2. /\ UNCHANGED <<home, delivered>>
            /\ \A t \in SenderIds \ {s} :
                 buffer'[t] = buffer[t] /\ next_frag'[t] = next_frag[t]
        BY <2>5 DEF DataAccept, TypeOK, ReceiverTypeOK
      <4>3. SameEnds(b) BY <3>1, <3>3, <4>1, <4>2, ReceiverStepOther
      <4>4. build_adat(m.src, next_frag[s], curr_window_size(s) - m.len).dst # b
        BY <3>3 DEF build_adat
      <4> QED BY <1>b, <1>d, <2>5, <4>3, <4>4 DEF DataAccept
    <3> QED BY <3>2, <3>3
  <2>6. ASSUME NEW m \in toReceiver, NEW s \in SenderIds, RconNew(m, s)
        PROVE  AddrInv(b)'
    <3>1. home[b] # s BY <2>6, NewIsNotHome
    <3>2. home[b] # NULL => home[b] \in SenderIds BY DEF TypeOK, ReceiverTypeOK
    <3>3. SameEnds(b)
      BY <2>6, <3>1, <3>2
      DEF SameEnds, RconNew, senderVars, TypeOK, ReceiverTypeOK
    <3> QED BY <1>a, <1>d, <2>6, <3>3 DEF RconNew
  <2>7. CASE MainCleanup BY <1>a, <1>c, <2>7 DEF MainCleanup
  <2> QED
    BY <1>2, <2>1, <2>2, <2>3, <2>4, <2>5, <2>6, <2>7 DEF MainHandlerStep
<1>3. CASE TimeoutStep
  BY <1>a, <1>c, <1>3 DEF TimeoutStep, TimeoutTick, CancelledTick
<1> QED BY <1>1, <1>2, <1>3 DEF ReceiverStep

====================================================================================
