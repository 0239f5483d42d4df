--------------------------------- MODULE MrtInv ---------------------------------
(***************************************************************************)
(* The inductive invariant behind the safety properties of Mrt.            *)
(*                                                                         *)
(* A fragment number ties the two ends together: the sender holds the      *)
(* payloads of fragments Base+1 .. Base+Len(buffer), the receiver has taken*)
(* fragments 1 .. Taken, and Taken lies between the two.  Every datagram   *)
(* in flight is consistent with that, however old it is.                   *)
(***************************************************************************)
EXTENDS Mrt, MrtReceiverInv

\* The newest fragment the sender knows to be acknowledged, counting the
\* initial one (last_acknowledged_frag is -1 before the first ACON).
Base(a) == IF last_acknowledged_frag[a] = -1 THEN 0 ELSE last_acknowledged_frag[a]

\* The newest fragment the receiver has taken from a.
Taken(a) == IF home[a] = NULL THEN 0 ELSE next_frag[home[a]] - 1

\* The payload of fragment f, one of those the sender still holds.
Held(a, f) == sender_buffer[a][f - Base(a)]

-------------------------------------------------------------------------------
(* The stream of a, at its two ends. *)

\* Threads and application only work on a connection that is established.
StartedInv(a) ==
  /\ last_acknowledged_frag[a] >= -1
  /\ last_acknowledged_frag[a] = -1 =>
       /\ sender_buffer[a] = <<>> /\ written[a] = 0
       /\ pc[a] \in {"start", "connecting"}
       /\ sender_thread[a] = "none"
  /\ last_sent_index[a] >= -1

\* The buffer holds the last bytes written, one payload after the other.
BufferInv(a) ==
  /\ last_payload_index[a] = Len(sender_buffer[a]) - 1
  /\ Len(sender_buffer[a]) <= MAX_PAYLOADS_BUFFERABLE
  /\ \A i \in 1 .. Len(sender_buffer[a]) :
       /\ 1 <= sender_buffer[a][i].len
       /\ sender_buffer[a][i].len <= MAX_MRT_PAYLOAD_LENGTH
       /\ sender_buffer[a][i].lo + sender_buffer[a][i].len
            = IF i = Len(sender_buffer[a]) THEN written[a]
              ELSE sender_buffer[a][i + 1].lo

\* The payloads held are in the order they were written, none beyond the end.
OrderInv(a) ==
  \A i \in 1 .. Len(sender_buffer[a]) :
    /\ sender_buffer[a][i].lo + sender_buffer[a][i].len <= written[a]
    /\ \A j \in 1 .. i - 1 : sender_buffer[a][j].lo <= sender_buffer[a][i].lo

\* The payload in slot i and those behind it fill no more than their slots.
\* Not needed for IInv: it bounds what ImplementsStream says of the buffer.
SpaceInv(a) ==
  \A i \in 1 .. Len(sender_buffer[a]) :
    written[a] - sender_buffer[a][i].lo
      <= (Len(sender_buffer[a]) - i + 1) * MAX_MRT_PAYLOAD_LENGTH

\* The receiver stands within what the sender holds.
PositionInv(a) ==
  /\ Base(a) <= Taken(a)
  /\ Taken(a) <= Base(a) + Len(sender_buffer[a])
  /\ Received(a) = IF Taken(a) = Base(a) + Len(sender_buffer[a])
                   THEN written[a] ELSE Held(a, Taken(a) + 1).lo

\* What was received is the stream, byte by byte.
ContentInv(a) ==
  /\ home[a] = NULL => delivered[a] = <<>>
  /\ \A i \in 1 .. Len(delivered[a]) : delivered[a][i] = i
  /\ home[a] # NULL =>
       \A i \in 1 .. Len(buffer[home[a]]) :
         buffer[home[a]][i] = Len(delivered[a]) + i

EndsInv(a) == StartedInv(a) /\ BufferInv(a) /\ PositionInv(a) /\ ContentInv(a)

-------------------------------------------------------------------------------
(* The datagrams of a in flight. *)

\* A DATA carries what the sender holds under its number, or is so old that
\* the receiver has taken that fragment long ago.
DataOk(m) ==
  m.type = "DATA" =>
    /\ last_acknowledged_frag[m.src] >= 0
    /\ m.frag # -1 =>
         /\ 1 <= m.frag /\ m.frag <= Base(m.src) + Len(sender_buffer[m.src])
         /\ m.frag > Base(m.src) =>
              /\ m.lo = Held(m.src, m.frag).lo
              /\ m.len = Held(m.src, m.frag).len

\* An ADAT acknowledges what was taken.
AdatOk(m) ==
  m.type = "ADAT" =>
    /\ last_acknowledged_frag[m.dst] >= 0
    /\ m.frag <= Taken(m.dst)

\* A RCLS is sent when nothing is left in the buffer and nothing will follow.
RclsOk(m) ==
  m.type = "RCLS" =>
    pc[m.src] \in {"disc_trick", "end"} /\ sender_buffer[m.src] = <<>>

FlightInv(a) ==
  /\ \A m \in toReceiver : m.src = a => DataOk(m)
  /\ \A m \in toSender : m.dst = a => AdatOk(m)

-------------------------------------------------------------------------------
(* The calls of the application behind a. *)

\* The fragments a mrt_send() still has to put into the buffer: as many as its
\* remaining bytes need.
FragsLeft(a) == final_frag[a] - Base(a) - Len(sender_buffer[a])
BytesLeft(a) == send_len[a] - num_bytes_copied[a]

SendInv(a) ==
  /\ pc[a] \in {"start", "connecting"} => send_ret[a] = NO_RESULT
  /\ pc[a] = "send_enter" => num_bytes_copied[a] = 0
  /\ pc[a] \in {"send_lookup", "send_check", "send_copy"} =>
       /\ num_bytes_copied[a] <= send_len[a]
       /\ FragsLeft(a) * MAX_MRT_PAYLOAD_LENGTH >= BytesLeft(a)
       /\ (FragsLeft(a) - 1) * MAX_MRT_PAYLOAD_LENGTH < BytesLeft(a)
  /\ pc[a] = "send_copy" => num_bytes_copied[a] < send_len[a]
  /\ pc[a] = "ready" /\ send_ret[a] = 1 =>
       num_bytes_copied[a] = send_len[a] /\ sender_buffer[a] = <<>>

CloseInv(a) ==
  /\ pc[a] \in {"disc_rcls", "disc_trick"} => sender_buffer[a] = <<>>
  /\ \A m \in toReceiver : m.src = a => RclsOk(m)

-------------------------------------------------------------------------------

StreamInv ==
  \A a \in Addrs : EndsInv(a) /\ FlightInv(a) /\ SendInv(a) /\ CloseInv(a)

\* The life of a connection: who started whom, and who waits for whom.
LifeInv(a) ==
  /\ pc[a] = "start" <=> handler_thread[a] = "none"
  /\ handler_thread[a] = "none" =>
       a \notin connections_q /\ sender_thread[a] = "none" /\ send_ret[a] = NO_RESULT
  /\ handler_thread[a] \in {"recv", "cleanup"} =>
       a \in connections_q /\ send_ret[a] \in {1, NO_RESULT}
  /\ handler_thread[a] = "done" =>
       /\ a \notin connections_q
       /\ sender_thread[a] \in {"none", "done"} /\ checker_thread[a] \in {"none", "done"}
  /\ sender_thread[a] = "none" <=> checker_thread[a] = "none"
  /\ sender_thread[a] # "none" => last_acknowledged_frag[a] >= 0
  /\ should_close[a] => checker_thread[a] = "done"
  /\ handler_thread[a] \in {"cleanup", "done"} => should_close[a]

\* The inductive invariant: true in every state that main_handler(), the
\* threads of a connection and the applications can produce together.
IInv ==
  /\ TypeOK /\ QueueInv /\ StreamInv /\ WindowNotOverrun
  /\ \A a \in Addrs : OrderInv(a)
===============================================================================
