-------------------------------- MODULE MrtLive --------------------------------
(***************************************************************************)
(* What eventually happens in Mrt, and the fairness it rests on.           *)
(*                                                                         *)
(* Threads: every thread of the two processes is scheduled again and       *)
(* again, and usleep() returns (weak fairness).  The applications wait for *)
(* a call they have made and do what receiver.c does: open, accept, read.  *)
(* Nothing obliges them to start another mrt_send() or to disconnect.      *)
(*                                                                         *)
(* Network: a datagram that is sent again and again is in the end both     *)
(* taken by the network and handed over (strong fairness).  Nothing more   *)
(* can be assumed of UDP, and nothing less would let Go-Back-N succeed.    *)
(***************************************************************************)
EXTENDS Mrt

InSend == {"send_enter", "send_lookup", "send_check", "send_copy"}

\* The steps of a call of the sending application that is under way.
CallStep(a) == AppStep(a) /\ pc[a] \notin {"start", "ready", "end"}

SenderThreadsRun ==
  \A a \in Addrs :
    /\ WF_vars(CallStep(a) /\ UNCHANGED receiverVars)
    /\ WF_vars(HandlerStep(a) /\ UNCHANGED receiverVars)
    /\ WF_vars(SenderThreadStep(a) /\ UNCHANGED receiverVars)

ReceiverReads(a) ==
  \/ mrt_receive1(a)
  \/ \E s \in SenderIds, len \in ReceiveLens : receive1_data(a, s, len)

ReceiverThreadsRun ==
  /\ WF_vars(mrt_open /\ UNCHANGED senderVars)
  /\ WF_vars(accept1_deq /\ UNCHANGED senderVars)
  /\ WF_vars(accept1_enq /\ UNCHANGED senderVars)
  /\ WF_vars(MainHandlerStep /\ UNCHANGED senderVars)
  /\ \A a \in Addrs : WF_vars(ReceiverReads(a) /\ UNCHANGED senderVars)

-------------------------------------------------------------------------------
(* With timeouts that do not expire, which is what the thresholds are chosen *)
(* for, and a receiver that stays open.                                      *)

NoTimeouts ==
  /\ \A a \in Addrs : inactive_time[a] \in {0, CLOSE_TIMEOUT_THRESHOLD + 1}
  /\ \A s \in SenderIds : idle_time[s] \in {0, TIMEOUT_THRESHOLD}

PatientNext == Next /\ NoTimeouts' /\ ~rece_should_close'

\* sender() sends fragment f, or an empty DATA (f = -1); the receiver gets one.
DataSent(a, f) ==
  /\ \/ f = -1 /\ SenderEmpty(a)
     \/ SenderData(a) /\ sending_frag(a) = f
  /\ UNCHANGED receiverVars

DataHanded(a, f) ==
  \E m \in toReceiver, s \in SenderIds :
    /\ m.src = a /\ m.frag = f
    /\ DataAccept(m, s) \/ DataReject(m, s)
    /\ UNCHANGED senderVars

\* The receiver acknowledges fragment f, and handler() gets that ADAT.
AdatSent(a, f) ==
  \E m \in toReceiver, s \in SenderIds :
    /\ m.src = a
    /\ DataAccept(m, s) \/ DataReject(m, s)
    /\ UNCHANGED senderVars
    /\ next_frag'[s] - 1 = f

AdatHanded(a, f) ==
  \E m \in toSender :
    HandlerADAT(a, m) /\ UNCHANGED receiverVars /\ m.frag = f

RconTaken(a) ==
  connect_rcon(a) /\ UNCHANGED receiverVars /\ toReceiver' # toReceiver

RconHanded(a) ==
  \E m \in toReceiver :
    /\ m.src = a
    /\ RconConnected(m) \/ \E s \in SenderIds : RconNew(m, s)
    /\ UNCHANGED senderVars

AconSent(a) ==
  \E m \in toReceiver :
    /\ m.src = a /\ RconConnected(m) /\ UNCHANGED senderVars
    /\ \E answer \in toSender' : answer.dst = a /\ answer.type = "ACON"

AconHanded(a) ==
  \E m \in toSender : HandlerACON(a, m) /\ UNCHANGED receiverVars

\* Copies of one datagram come to an end.
LastCopyToReceiver ==
  \E m \in toReceiver :
    MainHandlerStep /\ UNCHANGED senderVars /\ m \notin toReceiver'

LastCopyToSender(a) ==
  \E m \in toSender :
    HandlerStep(a) /\ UNCHANGED receiverVars /\ m \notin toSender'

NetworkDelivers ==
  /\ WF_vars(LastCopyToReceiver)
  /\ \A a \in Addrs :
    /\ WF_vars(LastCopyToSender(a))
    /\ \A f \in {-1} \cup 1 .. MaxBytes :
         []<><<DataSent(a, f)>>_vars => []<><<DataHanded(a, f)>>_vars
    /\ \A f \in 0 .. MaxBytes :
         []<><<AdatSent(a, f)>>_vars => []<><<AdatHanded(a, f)>>_vars
    /\ SF_vars(RconTaken(a)) /\ SF_vars(RconHanded(a))
    /\ []<><<AconSent(a)>>_vars => []<><<AconHanded(a)>>_vars

PatientSpec ==
  /\ Init /\ [][PatientNext]_vars
  /\ SenderThreadsRun /\ ReceiverThreadsRun
  /\ NetworkDelivers

\* mrt_connect() returns, however many RCONs and ACONs are lost.
ConnectReturns == \A a \in Addrs : pc[a] = "connecting" ~> pc[a] = "ready"

\* mrt_send() returns 1: Go-Back-N gets every payload across and every
\* acknowledgement back, though handler() can make sender() skip payloads,
\* and though the last ADAT of a call may be lost any number of times.
SendSucceeds ==
  \A a \in Addrs :
    pc[a] \in InSend ~> (pc[a] = "ready" /\ send_ret[a] = 1)

\* Every byte written is delivered, if the receiving application keeps reading
\* and the sending one stays connected.
WrittenIsDelivered ==
  \A a \in Addrs :
    Len(delivered[a]) < written[a]
      ~> (Len(delivered[a]) = written[a])
===============================================================================
