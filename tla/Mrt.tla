---------------------------------- MODULE Mrt ----------------------------------
(***************************************************************************)
(* The MRT protocol: the sender processes of MrtSender, the receiver       *)
(* process of MrtReceiver, and the network between them.                   *)
(***************************************************************************)
EXTENDS MrtSender, MrtReceiver

vars == <<netVars, senderVars, receiverVars>>

Init == NetInit /\ SenderInit /\ ReceiverInit

NetLose == NetLoseToReceiver \/ NetLoseToSender

Next ==
  \/ \E a \in Addrs : SenderStep(a) /\ UNCHANGED receiverVars
  \/ ReceiverStep /\ UNCHANGED senderVars
  \/ NetLose /\ UNCHANGED <<senderVars, receiverVars>>

Spec == Init /\ [][Next]_vars

TypeOK == NetTypeOK /\ SenderTypeOK /\ ReceiverTypeOK

-------------------------------------------------------------------------------
(* The byte stream of a sender, as the two ends see it. *)

\* Bytes of a that the receiver has taken into its buffer.
Received(a) ==
  IF home[a] = NULL THEN 0 ELSE Len(delivered[a]) + Len(buffer[home[a]])

\* Bytes of a that the sender has dropped from its buffer as acknowledged.
Confirmed(a) ==
  IF sender_buffer[a] = <<>> THEN written[a] ELSE sender_buffer[a][1].lo

Stream == INSTANCE ReliableStream WITH
  Senders <- Addrs,
  Chunk <- MAX_MRT_PAYLOAD_LENGTH,
  SenderSpace <- MAX_PAYLOADS_BUFFERABLE * MAX_MRT_PAYLOAD_LENGTH,
  ReceiverSpace <- RECEIVER_MAX_WINDOW_SIZE,
  received <- [a \in Addrs |-> Received(a)],
  confirmed <- [a \in Addrs |-> Confirmed(a)]

\* MRT implements the reliable stream: whatever the network loses, repeats or
\* reorders, every step of the protocol is a step of the stream or none.
ImplementsStream == Stream!Spec

\* What mrt_receive1() hands over is the stream of the sender: no byte is
\* lost, repeated or out of order, whatever the network does (README.md:19,
\* Go-Back-N with a cumulative fragment number).
DeliveredInOrder ==
  \A a \in Addrs :
    /\ \A i \in DOMAIN delivered[a] : delivered[a][i] = i
    /\ Len(delivered[a]) <= written[a]

\* handler() frees a payload only when the receiver has buffered it, so that
\* every byte not received yet can still be resent (README.md:11).
ConfirmedWasReceived == \A a \in Addrs : Confirmed(a) <= Received(a)

\* handler() moves the buffer down by as many slots as an ADAT acknowledges:
\* that is never more than are in use (memmove() would be given a negative
\* size, mrt_sender.c:386-401), and last_payload_index never leaves the array.
AckWithinBuffer ==
  \A a \in Addrs :
    /\ last_payload_index[a] = Len(sender_buffer[a]) - 1
    /\ last_payload_index[a] < MAX_PAYLOADS_BUFFERABLE
    /\ \A m \in toSender :
         m.dst = a /\ m.type = "ADAT" =>
           frag_difference(a, m) <= last_payload_index[a] + 1

\* mrt_send() returns 1 only when every byte it was given has been copied
\* (the TODO at mrt_sender.c:246) and has reached the receiver.
SendReturnsSound ==
  \A a \in Addrs :
    pc[a] = "ready" /\ send_ret[a] = 1 =>
      num_bytes_copied[a] = send_len[a] /\ Received(a) = written[a]

\* mrt_send() reports a dropped connection, with 0 or -1, only when checker()
\* has dropped it and handler() has joined both other threads of the connection
\* before it freed it (mrt_sender.c:421-425).  That the receiver was silent is not
\* said: an ADAT between the decision of checker() and its flag (:513-516) comes
\* too late.
DropIsReal ==
  \A a \in Addrs :
    send_ret[a] \in {0, -1} =>
      /\ should_close[a] /\ a \notin connections_q
      /\ sender_thread[a] = "done" /\ checker_thread[a] = "done"

\* "RCLS is only sent upon receiving the final ADAT" (mrt_receiver.c:383):
\* the receiver, which does not look at its fragment number, has everything.
RclsMeansAllReceived ==
  \A m \in toReceiver : m.type = "RCLS" => Received(m.src) = written[m.src]

\* DATA never overruns the buffer array of a sender_t.
WindowNotOverrun ==
  \A s \in SenderIds : Len(buffer[s]) <= RECEIVER_MAX_WINDOW_SIZE

\* Neither end takes back an acknowledgement: old ADATs and old DATA that the
\* network delivers late do not move the windows.
AcksOnlyAdvance ==
  [][\A a \in Addrs :
       /\ last_acknowledged_frag'[a] >= last_acknowledged_frag[a]
       /\ Received(a)' >= Received(a)]_vars
===============================================================================
