----------------------------- MODULE MrtReceiverEnv -----------------------------
(***************************************************************************)
(* The receiver module on its own, under every order of datagrams that MRT *)
(* senders can produce.                                                    *)
(*                                                                         *)
(* In Mrt a sender process follows its own protocol, so the receiver meets *)
(* only some orders.  A sender that crashed and came back on the same      *)
(* port, or one that was connected before the receiver itself restarted,   *)
(* makes others possible: DATA or RCLS from an address that is pending or  *)
(* unknown, RCON from one that is connected.  Each address sends fragments *)
(* 1 .. MaxFrag of one stream, every one MAX_MRT_PAYLOAD_LENGTH long.      *)
(***************************************************************************)
EXTENDS MrtReceiver

CONSTANT MaxFrag     \* bound: fragments of one stream

ASSUME EnvAssumption == MaxFrag \in Nat

vars == <<netVars, receiverVars>>

FragPayload(f) ==
  [lo |-> (f - 1) * MAX_MRT_PAYLOAD_LENGTH, len |-> MAX_MRT_PAYLOAD_LENGTH]

EnvMsgs ==
  (UNION {{build_rcon(a), build_data_empty(a), build_rcls(a)} : a \in Addrs})
    \cup {build_data(a, f, FragPayload(f)) : a \in Addrs, f \in 1 .. MaxFrag}

EnvSends ==
  \E m \in EnvMsgs :
    /\ toReceiver' = sendto(toReceiver, m)
    /\ UNCHANGED <<toSender, receiverVars>>

\* Answers reach nobody: what the senders make of them is the subject of Mrt.
AnswersTaken == NetLoseToSender /\ UNCHANGED receiverVars

Init == NetInit /\ ReceiverInit

Next == EnvSends \/ AnswersTaken \/ ReceiverStep

Spec == Init /\ [][Next]_vars

TypeOK == NetTypeOK /\ ReceiverTypeOK

-------------------------------------------------------------------------------

Distinct(q) == \A i, j \in DOMAIN q : q[i] = q[j] => i = j

\* Every sender_t is reachable in exactly one place, which is what makes every
\* malloc() meet one free() and every pointer in a queue a valid one: it is
\* pending once, or held by mrt_accept1(), or connected once.
OneOwner ==
  /\ Distinct(pending_senders_q) /\ Distinct(connected_senders_q)
  /\ InQueue(pending_senders_q) \cap InQueue(connected_senders_q) = {}
  /\ accepting \notin
       InQueue(pending_senders_q) \cup InQueue(connected_senders_q)
  /\ main_thread # "done" =>
       allocated = InQueue(pending_senders_q) \cup InQueue(connected_senders_q)
                     \cup ({accepting} \ {NULL})

\* A checker() is started with the ACON and works on a connected object, which
\* nobody frees, whatever RCON and RCLS come, until main_handler() frees them
\* all.  From then on there are only those that pthread_cancel() could not stop,
\* as they wait for q_lock (mrt_receiver.c:413-417): each of them writes to freed
\* memory once (434), and no other one is left to go on doing so.
CheckersOutliveOnlyClose ==
  \A s \in SenderIds :
    timeout_thread[s] \in {"run", "cancelled"} =>
      IF main_thread = "done" THEN timeout_thread[s] = "cancelled"
      ELSE s \in InQueue(connected_senders_q)

\* Nothing is taken from an address before mrt_accept1() has connected it, and
\* what is buffered then is the stream from its first byte, without a gap.
BufferIsStream ==
  \A s \in SenderIds :
    /\ s \in InQueue(pending_senders_q) \cup {accepting} =>
         buffer[s] = <<>> /\ next_frag[s] = initial_frag + 1
    /\ s \in InQueue(connected_senders_q) /\ s = home[addr[s]] =>
         delivered[addr[s]] \o buffer[s]
           = [i \in 1 .. (next_frag[s] - 1) * MAX_MRT_PAYLOAD_LENGTH |-> i]

\* Of the objects connected for one address only the first one is ever served:
\* no byte is buffered where mrt_receive1() cannot find it.
OnlyHomeIsServed ==
  \A s \in InQueue(connected_senders_q) :
    s # home[addr[s]] => buffer[s] = <<>>

\* An answer never promises room that is not there: the fragment an ADAT asks
\* for next fits the window it advertises when that ADAT is the newest.
AnswersAreTrue ==
  \A m \in toSender :
    m.type = "ADAT" /\ home[m.dst] # NULL =>
      /\ m.frag < next_frag[home[m.dst]]
      /\ m.frag = next_frag[home[m.dst]] - 1 =>
           m.win <= curr_window_size(home[m.dst])

-------------------------------------------------------------------------------
(* Liveness: the threads are scheduled, and the application waits. *)

ReceiveRound(a) ==
  \E s \in SenderIds :
    receive1_timed_out(a, s) \/ \E len \in ReceiveLens : receive1_data(a, s, len)

FairSpec ==
  /\ Spec
  /\ \A a \in Addrs : WF_vars(ReceiveRound(a))
  /\ \A s \in SenderIds : WF_vars(TimeoutTick(s))
  /\ WF_vars(MainHandlerStep)

\* "Returns 0 if ... the connection times out without having received any
\* bytes yet" (mrt_receiver.h:43-44): once checker() has given a connection up,
\* a call that waits for it returns, as long as the receiver stays open.
TimedOutReceiveReturns ==
  \A a \in Addrs :
    (a \in receiving /\ \E s \in SenderIds :
        Found(connected_senders_q, a, s) /\ timeout_thread[s] = "done")
      ~> (a \notin receiving \/ rece_should_close)
===============================================================================
