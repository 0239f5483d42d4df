--------------------------------- MODULE MCMrt ---------------------------------
(* Instances of Mrt for TLC. *)
EXTENDS MrtInv, TLC

\* No checker ticks: inactive_time is only written by ADAT, ACLS and
\* mrt_disconnect(), and the receiver's by DATA and RCLS.
NoTimeouts ==
  /\ \A a \in Addrs : inactive_time[a] \in {0, CLOSE_TIMEOUT_THRESHOLD + 1}
  /\ \A s \in SenderIds : idle_time[s] \in {0, TIMEOUT_THRESHOLD}

ReceiverStaysOpen == ~rece_should_close

DataPath == NoTimeouts /\ ReceiverStaysOpen
===============================================================================
