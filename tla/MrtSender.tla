------------------------------- MODULE MrtSender -------------------------------
(***************************************************************************)
(* The MRT sender module, lab3/mrt_sender.c.                               *)
(*                                                                         *)
(* Every address a is a process that opens one connection, as sender.c     *)
(* does.  Four threads work on its connection_t: the application inside    *)
(* mrt_connect/mrt_send/mrt_disconnect, handler(), sender() and checker(). *)
(* An action is what one of them does between two points at which another  *)
(* thread can see or change what it uses (README, "Atomicity").            *)
(*                                                                         *)
(* connection_t is freed by handler() while the application may still hold *)
(* its pointer: the functions of connection_t keep their last value then,  *)
(* which is what the freed memory most often still holds.                  *)
(***************************************************************************)
EXTENDS MrtNetwork

CONSTANTS
  MAX_PAYLOADS_BUFFERABLE,    \* 10 in mrt_sender.c
  RESEND_TIMEOUT_THRESHOLD,   \* in EMPTY_DATA_PERIODs; 3 in mrt_sender.c
  CLOSE_TIMEOUT_THRESHOLD,    \* in CLOSE_TIMEOUT_INCREMENTs; 3 in mrt_sender.c
  SendLens,                   \* the lengths applications pass to mrt_send()
  MaxBytes                    \* bound: bytes one application sends in all

ASSUME SenderAssumption ==
  /\ MAX_PAYLOADS_BUFFERABLE \in Nat \ {0}
  /\ RESEND_TIMEOUT_THRESHOLD \in Nat
  /\ CLOSE_TIMEOUT_THRESHOLD \in Nat
  /\ SendLens \subseteq Nat
  /\ MaxBytes \in Nat

VARIABLES
  \* connection_t
  last_sent_index, last_payload_index,
  sender_buffer,            \* the valid slots, each with its num_bytes_buffered
  last_acknowledged_frag, receiver_window_size,
  inactive_time, should_close,
  \* the threads of the connection, and sender()'s local variable
  handler_thread, sender_thread, checker_thread, resend_time,
  connections_q,            \* the addresses whose connection is queued
  \* the application: where it is, and the local variables of mrt_send()
  pc, send_len, num_bytes_copied, final_frag,
  send_ret,                 \* what its last mrt_send() returned
  written                   \* history: bytes copied into the buffer so far

bufferVars  == <<last_payload_index, sender_buffer>>
ackVars     == <<last_acknowledged_frag, receiver_window_size>>
closeVars   == <<inactive_time, should_close>>
threadVars  == <<handler_thread, sender_thread, checker_thread>>
senderLocal == <<last_sent_index, resend_time>>
sendVars    == <<send_len, num_bytes_copied, final_frag, send_ret>>

senderVars == <<last_sent_index, last_payload_index, sender_buffer,
                last_acknowledged_frag, receiver_window_size, inactive_time,
                should_close, handler_thread, sender_thread, checker_thread,
                resend_time, connections_q, pc, send_len, num_bytes_copied,
                final_frag, send_ret, written>>

NO_RESULT == 2     \* mrt_send() has not returned yet

Payload == [lo : Nat, len : Nat]

SenderPC == {"start", "connecting", "ready",
             "send_enter", "send_lookup", "send_check", "send_copy",
             "disc_lookup", "disc_check", "disc_rcls", "disc_trick", "end"}

SenderTypeOK ==
  /\ last_sent_index \in [Addrs -> Int]
  /\ last_payload_index \in [Addrs -> Int]
  /\ sender_buffer \in [Addrs -> Seq(Payload)]
  /\ last_acknowledged_frag \in [Addrs -> Int]
  /\ receiver_window_size \in [Addrs -> Int]
  /\ inactive_time \in [Addrs -> Nat]
  /\ should_close \in [Addrs -> BOOLEAN]
  /\ handler_thread \in [Addrs -> {"none", "recv", "cleanup", "done"}]
  /\ sender_thread \in [Addrs -> {"none", "run", "done"}]
  /\ checker_thread \in [Addrs -> {"none", "run", "closing", "done"}]
  /\ resend_time \in [Addrs -> Nat]
  /\ connections_q \subseteq Addrs
  /\ pc \in [Addrs -> SenderPC]
  /\ send_len \in [Addrs -> Nat]
  /\ num_bytes_copied \in [Addrs -> Nat]
  /\ final_frag \in [Addrs -> Int]
  /\ send_ret \in [Addrs -> {-1, 0, 1, NO_RESULT}]
  /\ written \in [Addrs -> Nat]

\* The values connection_t_init() gives the fields, before any thread runs.
SenderInit ==
  /\ last_sent_index = [a \in Addrs |-> -1]
  /\ last_payload_index = [a \in Addrs |-> -1]
  /\ sender_buffer = [a \in Addrs |-> <<>>]
  /\ last_acknowledged_frag = [a \in Addrs |-> -1]
  /\ receiver_window_size = [a \in Addrs |-> 0]
  /\ inactive_time = [a \in Addrs |-> 0]
  /\ should_close = [a \in Addrs |-> FALSE]
  /\ handler_thread = [a \in Addrs |-> "none"]
  /\ sender_thread = [a \in Addrs |-> "none"]
  /\ checker_thread = [a \in Addrs |-> "none"]
  /\ resend_time = [a \in Addrs |-> 0]
  /\ connections_q = {}
  /\ pc = [a \in Addrs |-> "start"]
  /\ send_len = [a \in Addrs |-> 0]
  /\ num_bytes_copied = [a \in Addrs |-> 0]
  /\ final_frag = [a \in Addrs |-> 0]
  /\ send_ret = [a \in Addrs |-> NO_RESULT]
  /\ written = [a \in Addrs |-> 0]

goto(a, there) == pc' = [pc EXCEPT ![a] = there]

-------------------------------------------------------------------------------
(* mrt_connect() *)

mrt_connect(a) ==
  /\ pc[a] = "start"
  /\ connections_q' = connections_q \cup {a}
  /\ handler_thread' = [handler_thread EXCEPT ![a] = "recv"]
  /\ goto(a, "connecting")
  /\ UNCHANGED <<netVars, bufferVars, ackVars, closeVars, senderLocal,
                 sender_thread, checker_thread, sendVars, written>>

connect_rcon(a) ==
  /\ pc[a] = "connecting" /\ last_acknowledged_frag[a] = -1
  /\ toReceiver' = sendto(toReceiver, build_rcon(a))
  /\ UNCHANGED <<toSender, senderVars>>

connect_return(a) ==
  /\ pc[a] = "connecting" /\ last_acknowledged_frag[a] # -1
  /\ goto(a, "ready")
  /\ UNCHANGED <<netVars, bufferVars, ackVars, closeVars, senderLocal,
                 threadVars, connections_q, sendVars, written>>

-------------------------------------------------------------------------------
(* mrt_send() *)

mrt_send(a, n) ==
  /\ pc[a] = "ready" /\ a \in connections_q
  /\ written[a] + n <= MaxBytes
  /\ send_len' = [send_len EXCEPT ![a] = n]
  /\ num_bytes_copied' = [num_bytes_copied EXCEPT ![a] = 0]
  /\ send_ret' = [send_ret EXCEPT ![a] = NO_RESULT]
  /\ goto(a, "send_enter")
  /\ UNCHANGED <<netVars, bufferVars, ackVars, closeVars, senderLocal,
                 threadVars, connections_q, final_frag, written>>

send_spurious(a) ==
  /\ pc[a] = "ready" /\ a \notin connections_q
  /\ send_ret' = [send_ret EXCEPT ![a] = -1]
  /\ UNCHANGED <<netVars, bufferVars, ackVars, closeVars, senderLocal,
                 threadVars, connections_q, pc, send_len, num_bytes_copied,
                 final_frag, written>>

frags_needed_RoundedDown(n) == n \div MAX_MRT_PAYLOAD_LENGTH

\* "magic ceiling division"
frags_needed(n) ==
  n \div MAX_MRT_PAYLOAD_LENGTH
    + (IF n % MAX_MRT_PAYLOAD_LENGTH # 0 THEN 1 ELSE 0)

send_enter(a) ==
  /\ pc[a] = "send_enter"
  /\ final_frag' = [final_frag EXCEPT ![a] =
       last_payload_index[a] + last_acknowledged_frag[a] + 1
         + frags_needed(send_len[a])]
  /\ goto(a, "send_lookup")
  /\ UNCHANGED <<netVars, bufferVars, ackVars, closeVars, senderLocal,
                 threadVars, connections_q, send_len, num_bytes_copied,
                 send_ret, written>>

send_lookup(a) ==
  /\ pc[a] = "send_lookup" /\ a \in connections_q
  /\ goto(a, "send_check")
  /\ UNCHANGED <<netVars, bufferVars, ackVars, closeVars, senderLocal,
                 threadVars, connections_q, sendVars, written>>

send_dropped(a) ==
  /\ pc[a] = "send_lookup" /\ a \notin connections_q
  /\ send_ret' = [send_ret EXCEPT ![a] = 0]
  /\ goto(a, "ready")
  /\ UNCHANGED <<netVars, bufferVars, ackVars, closeVars, senderLocal,
                 threadVars, connections_q, send_len, num_bytes_copied,
                 final_frag, written>>

send_acked(a) ==
  /\ pc[a] = "send_check" /\ last_acknowledged_frag[a] >= final_frag[a]
  /\ send_ret' = [send_ret EXCEPT ![a] = 1]
  /\ goto(a, "ready")
  /\ UNCHANGED <<netVars, bufferVars, ackVars, closeVars, senderLocal,
                 threadVars, connections_q, send_len, num_bytes_copied,
                 final_frag, written>>

\* Not acknowledged yet: copy what is left, or sleep and look again.
send_not_acked(a) ==
  /\ pc[a] = "send_check" /\ last_acknowledged_frag[a] < final_frag[a]
  /\ goto(a, IF num_bytes_copied[a] < send_len[a]
             THEN "send_copy" ELSE "send_lookup")
  /\ UNCHANGED <<netVars, bufferVars, ackVars, closeVars, senderLocal,
                 threadVars, connections_q, sendVars, written>>

free_payload_spaces(a) == MAX_PAYLOADS_BUFFERABLE - (last_payload_index[a] + 1)

num_bytes_to_copy(a) ==
  LET remaining == send_len[a] - num_bytes_copied[a]
  IN  IF remaining > MAX_MRT_PAYLOAD_LENGTH
      THEN MAX_MRT_PAYLOAD_LENGTH ELSE remaining

\* One payload into the first free slot.
send_copy(a) ==
  /\ pc[a] = "send_copy" /\ free_payload_spaces(a) > 0
  /\ sender_buffer' = [sender_buffer EXCEPT ![a] =
       Append(@, [lo |-> written[a], len |-> num_bytes_to_copy(a)])]
  /\ last_payload_index' = [last_payload_index EXCEPT ![a] = @ + 1]
  /\ num_bytes_copied' = [num_bytes_copied EXCEPT ![a] = @ + num_bytes_to_copy(a)]
  /\ written' = [written EXCEPT ![a] = @ + num_bytes_to_copy(a)]
  /\ goto(a, "send_lookup")
  /\ UNCHANGED <<netVars, ackVars, closeVars, senderLocal, threadVars,
                 connections_q, send_len, final_frag, send_ret>>

send_no_space(a) ==
  /\ pc[a] = "send_copy" /\ free_payload_spaces(a) <= 0
  /\ goto(a, "send_lookup")
  /\ UNCHANGED <<netVars, bufferVars, ackVars, closeVars, senderLocal,
                 threadVars, connections_q, sendVars, written>>

-------------------------------------------------------------------------------
(* mrt_disconnect() *)

mrt_disconnect(a) ==
  /\ pc[a] = "ready"
  /\ goto(a, IF a \in connections_q THEN "disc_lookup" ELSE "end")
  /\ UNCHANGED <<netVars, bufferVars, ackVars, closeVars, senderLocal,
                 threadVars, connections_q, sendVars, written>>

disc_lookup(a) ==
  /\ pc[a] = "disc_lookup"
  /\ goto(a, IF a \in connections_q THEN "disc_check" ELSE "end")
  /\ UNCHANGED <<netVars, bufferVars, ackVars, closeVars, senderLocal,
                 threadVars, connections_q, sendVars, written>>

\* No more data buffered: go on to the RCLS.  Otherwise sleep and look again.
disc_check(a) ==
  /\ pc[a] = "disc_check"
  /\ goto(a, IF last_payload_index[a] < 0 THEN "disc_rcls" ELSE "disc_lookup")
  /\ UNCHANGED <<netVars, bufferVars, ackVars, closeVars, senderLocal,
                 threadVars, connections_q, sendVars, written>>

\* On a connection freed meanwhile the socket is closed and sendto() fails.
disc_rcls(a) ==
  /\ pc[a] = "disc_rcls"
  /\ toReceiver' = IF a \in connections_q
                   THEN sendto(toReceiver, build_rcls(a)) ELSE toReceiver
  /\ goto(a, "disc_trick")
  /\ UNCHANGED <<toSender, bufferVars, ackVars, closeVars, senderLocal,
                 threadVars, connections_q, sendVars, written>>

disc_trick(a) ==
  /\ pc[a] = "disc_trick"
  /\ inactive_time' = [inactive_time EXCEPT ![a] = CLOSE_TIMEOUT_THRESHOLD + 1]
  /\ goto(a, "end")
  /\ UNCHANGED <<netVars, bufferVars, ackVars, should_close, senderLocal,
                 threadVars, connections_q, sendVars, written>>

-------------------------------------------------------------------------------
(* handler() *)

\* recvfrom() returned m, and should_close is not set.
HandlerReceives(a, m, type) ==
  /\ handler_thread[a] = "recv" /\ ~should_close[a]
  /\ m.dst = a /\ m.type = type
  /\ toSender' \in recvfrom(toSender, m)
  /\ UNCHANGED toReceiver

\* The close flag is only looked at when a datagram arrives.
HandlerBreak(a, m) ==
  /\ handler_thread[a] = "recv" /\ should_close[a]
  /\ m.dst = a
  /\ toSender' \in recvfrom(toSender, m)
  /\ handler_thread' = [handler_thread EXCEPT ![a] = "cleanup"]
  /\ UNCHANGED <<toReceiver, bufferVars, ackVars, closeVars, senderLocal,
                 sender_thread, checker_thread, connections_q, pc, sendVars,
                 written>>

\* The first ACON starts the two other threads; the window it advertises is
\* not used, and duplicates are ignored.
HandlerACON(a, m) ==
  /\ HandlerReceives(a, m, "ACON")
  /\ IF last_acknowledged_frag[a] = -1
     THEN /\ sender_thread' = [sender_thread EXCEPT ![a] = "run"]
          /\ checker_thread' = [checker_thread EXCEPT ![a] = "run"]
          /\ last_acknowledged_frag' = [last_acknowledged_frag EXCEPT ![a] = 0]
     ELSE UNCHANGED <<sender_thread, checker_thread, last_acknowledged_frag>>
  /\ UNCHANGED <<bufferVars, receiver_window_size, closeVars, senderLocal,
                 handler_thread, connections_q, pc, sendVars, written>>

frag_difference(a, m) == m.frag - last_acknowledged_frag[a]

IsNews_Always(a, m) == TRUE

IsNews_Strict(a, m) == frag_difference(a, m) > 0

\* "if the ADAT is at least as new as the last one"
IsNews(a, m) == frag_difference(a, m) >= 0

num_payloads_freed_OneTooFew(a, m) == frag_difference(a, m) - 1

\* how far the buffer is moved down
num_payloads_freed(a, m) == frag_difference(a, m)

HandlerADAT(a, m) ==
  /\ HandlerReceives(a, m, "ADAT")
  /\ inactive_time' = [inactive_time EXCEPT ![a] = 0]
  /\ IF IsNews(a, m)
     THEN /\ last_acknowledged_frag' =
               [last_acknowledged_frag EXCEPT ![a] = m.frag]
          /\ receiver_window_size' = [receiver_window_size EXCEPT ![a] =
               IF @ < m.win THEN m.win ELSE @]
     ELSE UNCHANGED ackVars
  /\ IF frag_difference(a, m) > 0
     THEN /\ sender_buffer' = [sender_buffer EXCEPT ![a] =
               SubSeq(@, num_payloads_freed(a, m) + 1, Len(@))]
          /\ last_payload_index' = [last_payload_index EXCEPT ![a] =
               @ - num_payloads_freed(a, m)]
     ELSE UNCHANGED bufferVars
  /\ UNCHANGED <<should_close, senderLocal, threadVars, connections_q, pc,
                 sendVars, written>>

HandlerACLS(a, m) ==
  /\ HandlerReceives(a, m, "ACLS")
  /\ inactive_time' = [inactive_time EXCEPT ![a] = CLOSE_TIMEOUT_THRESHOLD + 1]
  /\ UNCHANGED <<bufferVars, ackVars, should_close, senderLocal, threadVars,
                 connections_q, pc, sendVars, written>>

HandlerCleanup_JoinsCheckerOnly(a) ==
  /\ handler_thread[a] = "cleanup"
  /\ checker_thread[a] \in {"none", "done"}
  /\ connections_q' = connections_q \ {a}
  /\ handler_thread' = [handler_thread EXCEPT ![a] = "done"]
  /\ UNCHANGED <<netVars, bufferVars, ackVars, closeVars, senderLocal,
                 sender_thread, checker_thread, pc, sendVars, written>>

\* Join the two threads, take the connection out of the queue, free it.
HandlerCleanup(a) ==
  /\ handler_thread[a] = "cleanup"
  /\ checker_thread[a] \in {"none", "done"}
  /\ sender_thread[a] \in {"none", "done"}
  /\ connections_q' = connections_q \ {a}
  /\ handler_thread' = [handler_thread EXCEPT ![a] = "done"]
  /\ UNCHANGED <<netVars, bufferVars, ackVars, closeVars, senderLocal,
                 sender_thread, checker_thread, pc, sendVars, written>>

-------------------------------------------------------------------------------
(* sender() *)

next_payload_index(a) == last_sent_index[a] + 1
NothingToSend(a) == next_payload_index(a) > last_payload_index[a]
WindowTooSmall(a) == receiver_window_size[a] < MAX_MRT_PAYLOAD_LENGTH

SenderExit(a) ==
  /\ sender_thread[a] = "run" /\ should_close[a]
  /\ sender_thread' = [sender_thread EXCEPT ![a] = "done"]
  /\ UNCHANGED <<netVars, bufferVars, ackVars, closeVars, senderLocal,
                 handler_thread, checker_thread, connections_q, pc, sendVars,
                 written>>

TimeToResend(a) == resend_time[a] > RESEND_TIMEOUT_THRESHOLD

\* Nothing to send, or no room for it: an empty DATA.  With nothing to send
\* the resend timer runs, and in the end all payloads are marked as unsent.
SenderEmpty(a) ==
  /\ sender_thread[a] = "run" /\ ~should_close[a]
  /\ WindowTooSmall(a) \/ NothingToSend(a)
  /\ resend_time' = [resend_time EXCEPT ![a] =
       IF NothingToSend(a) /\ ~TimeToResend(a) THEN @ + 1 ELSE 0]
  /\ last_sent_index' = [last_sent_index EXCEPT ![a] =
       IF NothingToSend(a) /\ TimeToResend(a) THEN -1 ELSE @]
  /\ toReceiver' = sendto(toReceiver, build_data_empty(a))
  /\ UNCHANGED <<toSender, bufferVars, ackVars, closeVars, threadVars,
                 connections_q, pc, sendVars, written>>

sending_frag_OffByOne(a) == last_acknowledged_frag[a] + next_payload_index(a)

sending_frag(a) == last_acknowledged_frag[a] + next_payload_index(a) + 1

SenderData(a) ==
  /\ sender_thread[a] = "run" /\ ~should_close[a]
  /\ ~WindowTooSmall(a) /\ ~NothingToSend(a)
  /\ resend_time' = [resend_time EXCEPT ![a] = 0]
  /\ toReceiver' = sendto(toReceiver,
       build_data(a, sending_frag(a), sender_buffer[a][next_payload_index(a) + 1]))
  /\ last_sent_index' = [last_sent_index EXCEPT ![a] = @ + 1]
  /\ UNCHANGED <<toSender, bufferVars, ackVars, closeVars, threadVars,
                 connections_q, pc, sendVars, written>>

-------------------------------------------------------------------------------
(* checker() *)

CheckerTick(a) ==
  /\ checker_thread[a] = "run"
  /\ inactive_time' = [inactive_time EXCEPT ![a] = @ + 1]
  /\ checker_thread' = [checker_thread EXCEPT ![a] =
       IF inactive_time[a] + 1 > CLOSE_TIMEOUT_THRESHOLD THEN "closing" ELSE @]
  /\ UNCHANGED <<netVars, bufferVars, ackVars, should_close, senderLocal,
                 handler_thread, sender_thread, connections_q, pc, sendVars,
                 written>>

CheckerClose(a) ==
  /\ checker_thread[a] = "closing"
  /\ should_close' = [should_close EXCEPT ![a] = TRUE]
  /\ checker_thread' = [checker_thread EXCEPT ![a] = "done"]
  /\ UNCHANGED <<netVars, bufferVars, ackVars, inactive_time, senderLocal,
                 handler_thread, sender_thread, connections_q, pc, sendVars,
                 written>>

-------------------------------------------------------------------------------

AppStep(a) ==
  \/ mrt_connect(a) \/ connect_rcon(a) \/ connect_return(a)
  \/ \E n \in SendLens : mrt_send(a, n)
  \/ send_spurious(a) \/ send_enter(a) \/ send_lookup(a) \/ send_dropped(a)
  \/ send_acked(a) \/ send_not_acked(a) \/ send_copy(a) \/ send_no_space(a)
  \/ mrt_disconnect(a) \/ disc_lookup(a) \/ disc_check(a)
  \/ disc_rcls(a) \/ disc_trick(a)

HandlerStep(a) ==
  \/ \E m \in toSender :
       HandlerBreak(a, m) \/ HandlerACON(a, m) \/ HandlerADAT(a, m)
         \/ HandlerACLS(a, m)
  \/ HandlerCleanup(a)

SenderThreadStep(a) == SenderExit(a) \/ SenderEmpty(a) \/ SenderData(a)

CheckerStep(a) == CheckerTick(a) \/ CheckerClose(a)

SenderStep(a) ==
  AppStep(a) \/ HandlerStep(a) \/ SenderThreadStep(a) \/ CheckerStep(a)
===============================================================================
