------------------------------ MODULE MrtNetwork ------------------------------
(***************************************************************************)
(* UDP as lab3 uses it, and the datagrams of the MRT protocol.             *)
(*                                                                         *)
(* The kernel, the link and UDP are not in the repository: they are        *)
(* modelled from how mrt_sender.c and mrt_receiver.c call sendto() and     *)
(* recvfrom().  A datagram in flight can be lost, delivered twice, or      *)
(* overtaken by a later one.  A datagram whose corruption hash() detects   *)
(* is dropped on arrival, which is a loss.                                 *)
(*                                                                         *)
(* A payload is the interval of the sender's byte stream it carries: bytes *)
(* lo+1 .. lo+len of all the bytes the application behind `src' has handed *)
(* to mrt_send().  The value of a byte is its position in that stream, so  *)
(* "the right bytes in the right order" can be stated exactly.             *)
(***************************************************************************)
EXTENDS Integers, FiniteSets, Sequences

CONSTANTS
  Addrs,                    \* the addresses senders are bound to
  MAX_MRT_PAYLOAD_LENGTH,   \* bytes of application data in one DATA
  WINDOW_PAYLOADS,          \* 5 in mrt_receiver.h
  MaxInFlight               \* bound: datagrams in flight in one direction

ASSUME NetworkAssumption ==
  /\ MAX_MRT_PAYLOAD_LENGTH \in Nat \ {0}
  /\ WINDOW_PAYLOADS \in Nat \ {0}
  /\ MaxInFlight \in Nat \ {0}

VARIABLES
  toReceiver,   \* the datagrams on their way to the receiver
  toSender      \* the datagrams on their way to the senders

netVars == <<toReceiver, toSender>>

RECEIVER_MAX_WINDOW_SIZE == MAX_MRT_PAYLOAD_LENGTH * WINDOW_PAYLOADS
MRT_WINDOWSIZE_LENGTH == 4
initial_frag == 0

ToReceiverMsg == [src : Addrs, type : {"RCON", "DATA", "RCLS"},
                  frag : Int, lo : Nat, len : Int]
ToSenderMsg == [dst : Addrs, type : {"ACON", "ADAT", "ACLS"},
                frag : Int, win : Int]

build_rcon(a) ==
  [src |-> a, type |-> "RCON", frag |-> initial_frag, lo |-> 0, len |-> 0]

\* Only 16 bytes are sent: the receiver computes the payload size by
\* subtracting the 20 bytes of MRT_HEADER_LENGTH.
build_data_empty(a) ==
  [src |-> a, type |-> "DATA", frag |-> -1, lo |-> 0,
   len |-> -MRT_WINDOWSIZE_LENGTH]

build_data(a, sending_frag, payload) ==
  [src |-> a, type |-> "DATA", frag |-> sending_frag,
   lo |-> payload.lo, len |-> payload.len]

build_rcls(a) ==
  [src |-> a, type |-> "RCLS", frag |-> 0, lo |-> 0, len |-> 0]

build_acon(a, frag) ==
  [dst |-> a, type |-> "ACON", frag |-> frag, win |-> RECEIVER_MAX_WINDOW_SIZE]

build_adat(a, received_frag, curr_window_size) ==
  [dst |-> a, type |-> "ADAT", frag |-> received_frag, win |-> curr_window_size]

build_acls_WrongType(a) ==
  [dst |-> a, type |-> "RCLS", frag |-> 0, win |-> 0]

build_acls(a) ==
  [dst |-> a, type |-> "ACLS", frag |-> 0, win |-> 0]

-------------------------------------------------------------------------------

\* sendto(): a full network drops the datagram, as a full socket buffer does.
sendto(net, m) == IF Cardinality(net) < MaxInFlight THEN net \cup {m} ELSE net

\* recvfrom(): the network after m was handed over; another copy of m may
\* still be on its way.
recvfrom(net, m) == {net, net \ {m}}

NetInit == toReceiver = {} /\ toSender = {}

NetLoseToReceiver ==
  \E m \in toReceiver : toReceiver' = toReceiver \ {m} /\ UNCHANGED toSender

NetLoseToSender ==
  \E m \in toSender : toSender' = toSender \ {m} /\ UNCHANGED toReceiver

NetTypeOK ==
  /\ toReceiver \subseteq ToReceiverMsg
  /\ toSender \subseteq ToSenderMsg
===============================================================================
