-------------------------------- MODULE ChatTcp --------------------------------
(***************************************************************************)
(* TCP as server.c and client.c of lab2 use it (external).  One connection *)
(* per client and two streams of words with bounded buffers.  recv() takes *)
(* any part from the front that ends before a word of CutBefore: with the  *)
(* three types it may join transmissions, with other words it may cut them *)
(* in two.  send() waits for room.  A send() to a peer that is gone        *)
(* succeeds or raises SIGPIPE, which ends the process.                     *)
(***************************************************************************)
EXTENDS Dpp

CONSTANTS Clients, Capacity, CutBefore

ASSUME TcpAssumption ==
  /\ Capacity \in Nat \ {0}
  /\ Types \subseteq CutBefore
  /\ NULL \notin Clients
  /\ Clients \cap (Types \cup {Delimiter, Text, "accept", "killed"}) = {}

VARIABLES
  toServer, toClient,  \* the streams of a connection
  clientEnd,           \* "none", "open" or "closed"
  serverEnd            \* "none" (not accepted), "open", "shut" or "closed"

tcpVars == <<toServer, toClient, clientEnd, serverEnd>>

TcpInit ==
  /\ toServer = [c \in Clients |-> <<>>]
  /\ toClient = [c \in Clients |-> <<>>]
  /\ clientEnd = [c \in Clients |-> "none"]
  /\ serverEnd = [c \in Clients |-> "none"]

HasRoom(stream, text) == Len(stream) + Len(text) <= Capacity

\* What recv() may return of a stream: how many words.
Cuts(stream) ==
  {k \in 1 .. Len(stream) : k = Len(stream) \/ stream[k + 1] \in CutBefore}

Taken(stream, k) == SubSeq(stream, 1, k)
Left(stream, k) == SubSeq(stream, k + 1, Len(stream))
===============================================================================
