---------------------------- MODULE ReliableStream ----------------------------
(***************************************************************************)
(* What MRT promises its users, without datagrams, threads or timers: for  *)
(* every sender a stream of bytes that reaches the receiving application   *)
(* in order and without gaps, through a buffer of bounded size at each     *)
(* end, and confirmations that never run ahead of what was received.       *)
(***************************************************************************)
EXTENDS Integers, Sequences

CONSTANTS
  Senders,
  Chunk,          \* the bytes one step can add to a buffer
  SenderSpace,    \* how many bytes can be written and not confirmed
  ReceiverSpace   \* how many bytes can be received and not delivered

VARIABLES
  written,        \* bytes the sending application has handed over
  received,       \* bytes the receiver has buffered
  confirmed,      \* bytes the sender knows to be received
  delivered       \* the bytes the receiving application got, by position

streamVars == <<written, received, confirmed, delivered>>

Init ==
  /\ written = [a \in Senders |-> 0]
  /\ received = [a \in Senders |-> 0]
  /\ confirmed = [a \in Senders |-> 0]
  /\ delivered = [a \in Senders |-> <<>>]

Write(a) ==
  /\ \E n \in 1 .. Chunk :
       /\ written[a] + n - confirmed[a] <= SenderSpace
       /\ written' = [written EXCEPT ![a] = @ + n]
  /\ UNCHANGED <<received, confirmed, delivered>>

Receive(a) ==
  /\ \E n \in 1 .. Chunk :
       /\ received[a] + n <= written[a]
       /\ received[a] + n - Len(delivered[a]) <= ReceiverSpace
       /\ received' = [received EXCEPT ![a] = @ + n]
  /\ UNCHANGED <<written, confirmed, delivered>>

Confirm(a) ==
  /\ \E n \in 1 .. received[a] - confirmed[a] :
       confirmed' = [confirmed EXCEPT ![a] = @ + n]
  /\ UNCHANGED <<written, received, delivered>>

Deliver(a) ==
  /\ \E n \in 1 .. received[a] - Len(delivered[a]) :
       delivered' = [delivered EXCEPT ![a] =
                       @ \o [i \in 1 .. n |-> Len(delivered[a]) + i]]
  /\ UNCHANGED <<written, received, confirmed>>

Next == \E a \in Senders : Write(a) \/ Receive(a) \/ Confirm(a) \/ Deliver(a)

Spec == Init /\ [][Next]_streamVars
===============================================================================
