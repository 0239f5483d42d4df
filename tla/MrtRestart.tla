------------------------------- MODULE MrtRestart -------------------------------
(***************************************************************************)
(* Mrt with sender processes that end and are started again on the same    *)
(* port, as the test_sender targets of lab3/makefile do.                   *)
(*                                                                         *)
(* The new process has a connection_t of its own.  The receiver identifies *)
(* a sender by its address alone, and its checker() no longer takes a      *)
(* connection out of connected_senders_q when it ends: the new process     *)
(* meets the sender_t of the old one.                                      *)
(***************************************************************************)
EXTENDS Mrt

VARIABLES
  restarts,         \* how often the process at an address was started again
  received_before   \* history: Received(a) when it last was

restartVars == <<vars, restarts, received_before>>

MaxRestarts == 1    \* bound

RestartInit ==
  /\ Init
  /\ restarts = [a \in Addrs |-> 0]
  /\ received_before = [a \in Addrs |-> 0]

\* main() of sender.c returns after mrt_disconnect(), which ends every thread
\* of the process; the next process starts from the initial values.
Restart(a) ==
  /\ pc[a] = "end" /\ restarts[a] < MaxRestarts
  /\ restarts' = [restarts EXCEPT ![a] = @ + 1]
  /\ received_before' = [received_before EXCEPT ![a] = Received(a)]
  /\ last_sent_index' = [last_sent_index EXCEPT ![a] = -1]
  /\ last_payload_index' = [last_payload_index EXCEPT ![a] = -1]
  /\ sender_buffer' = [sender_buffer EXCEPT ![a] = <<>>]
  /\ last_acknowledged_frag' = [last_acknowledged_frag EXCEPT ![a] = -1]
  /\ receiver_window_size' = [receiver_window_size EXCEPT ![a] = 0]
  /\ inactive_time' = [inactive_time EXCEPT ![a] = 0]
  /\ should_close' = [should_close EXCEPT ![a] = FALSE]
  /\ handler_thread' = [handler_thread EXCEPT ![a] = "none"]
  /\ sender_thread' = [sender_thread EXCEPT ![a] = "none"]
  /\ checker_thread' = [checker_thread EXCEPT ![a] = "none"]
  /\ resend_time' = [resend_time EXCEPT ![a] = 0]
  /\ connections_q' = connections_q \ {a}
  /\ pc' = [pc EXCEPT ![a] = "start"]
  /\ send_len' = [send_len EXCEPT ![a] = 0]
  /\ num_bytes_copied' = [num_bytes_copied EXCEPT ![a] = 0]
  /\ final_frag' = [final_frag EXCEPT ![a] = 0]
  /\ send_ret' = [send_ret EXCEPT ![a] = NO_RESULT]
  /\ written' = [written EXCEPT ![a] = 0]
  /\ UNCHANGED <<netVars, receiverVars>>

RestartNext ==
  \/ Next /\ UNCHANGED <<restarts, received_before>>
  \/ \E a \in Addrs : Restart(a)

RestartSpec == RestartInit /\ [][RestartNext]_restartVars

\* "Returns 1 if all bytes are successfully sent (acknowledged)"
\* (mrt_sender.h:21): of a process that was started again, too.
RestartedSendIsReceived ==
  \A a \in Addrs :
    restarts[a] > 0 /\ pc[a] = "ready" /\ send_ret[a] = 1 =>
      Received(a) >= received_before[a] + written[a]
===============================================================================
