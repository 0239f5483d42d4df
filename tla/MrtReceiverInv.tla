----------------------------- MODULE MrtReceiverInv -----------------------------
(***************************************************************************)
(* What holds of the queues of the receiver between two critical sections  *)
(* of q_lock, whatever the senders send.                                   *)
(***************************************************************************)
EXTENDS MrtReceiver

\* A sender_t nobody has connected yet: nothing received.
Fresh(s) ==
  /\ s \in allocated /\ addr[s] \in Addrs
  /\ buffer[s] = <<>> /\ next_frag[s] = 1

PendingInv ==
  /\ \A i \in DOMAIN pending_senders_q : Fresh(pending_senders_q[i])
  /\ \A i, j \in DOMAIN pending_senders_q :
       pending_senders_q[i] = pending_senders_q[j] => i = j
  /\ \A i \in DOMAIN pending_senders_q, j \in DOMAIN connected_senders_q :
       pending_senders_q[i] # connected_senders_q[j]

AcceptingInv ==
  accepting # NULL =>
    /\ Fresh(accepting)
    /\ \A i \in DOMAIN pending_senders_q : pending_senders_q[i] # accepting
    /\ \A j \in DOMAIN connected_senders_q : connected_senders_q[j] # accepting

ConnectedInv ==
  \A j \in DOMAIN connected_senders_q :
    /\ connected_senders_q[j] \in allocated
    /\ addr[connected_senders_q[j]] \in Addrs

\* Every lookup of a in the connected queue ends at home[a].
HomeInv(a) ==
  IF home[a] = NULL THEN Absent(connected_senders_q, a)
  ELSE /\ addr[home[a]] = a
       /\ main_thread # "done" => Found(connected_senders_q, a, home[a])
       /\ home[a] # accepting
       /\ \A i \in DOMAIN pending_senders_q : pending_senders_q[i] # home[a]

\* The queues are empty before mrt_open() and after the cleanup.
ThreadInv == main_thread \in {"none", "done"} => connected_senders_q = <<>>

RconInv == \A m \in toReceiver : m.type = "RCON" => m.frag = 0

QueueInv ==
  /\ PendingInv /\ AcceptingInv /\ ConnectedInv /\ ThreadInv /\ RconInv
  /\ \A a \in Addrs : HomeInv(a)
===============================================================================
