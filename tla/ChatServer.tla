------------------------------- MODULE ChatServer -------------------------------
(***************************************************************************)
(* server.c of lab2: main() accepts and queues descriptors, and one thread *)
(* per client broadcasts what it receives.  An element of the queue is the *)
(* int main() allocated for a client, named by that client; fd[c] is its   *)
(* value.  The lookup by value is what makes a reused descriptor matter.   *)
(***************************************************************************)
EXTENDS ChatTcp, FiniteSets

VARIABLES
  server_main,        \* "accept", the client to be queued, or "killed"
  fd,                 \* fd[c]: the descriptor of c's connection, 0 before
  accepted_sockfd_q,
  thread,             \* where server_receiver() for c is
  accepted_sockfd,    \* its local copy of the descriptor, 0 for garbage
  receiver_buffer,    \* its buffer
  q_lock,             \* the thread that broadcasts, or NULL
  broadcast_buffer,
  position,           \* how many entries iterate_q() has passed
  missed              \* history: broadcasts begun since c was queued and not sent to it

mainVars == <<server_main, fd>>
localVars == <<accepted_sockfd, receiver_buffer>>
broadcastVars == <<q_lock, broadcast_buffer, position, missed>>
serverVars == <<mainVars, accepted_sockfd_q, thread, localVars, broadcastVars>>

ServerInit ==
  /\ server_main = "accept"
  /\ fd = [c \in Clients |-> 0]
  /\ accepted_sockfd_q = <<>>
  /\ thread = [c \in Clients |-> "none"]
  /\ accepted_sockfd = [c \in Clients |-> 0]
  /\ receiver_buffer = [c \in Clients |-> <<>>]
  /\ q_lock = NULL
  /\ broadcast_buffer = <<>>
  /\ position = 0
  /\ missed = [c \in Clients |-> 0]

Descriptors == 1 .. Cardinality(Clients)

\* The descriptor is in use until close(), and the kernel hands out the least
\* one that is free.
HoldsDescriptor(c) == serverEnd[c] \in {"open", "shut"}
Holders(d) == {c \in Clients : HoldsDescriptor(c) /\ fd[c] = d}
Unused == {d \in Descriptors : Holders(d) = {}}
LeastUnused == CHOOSE d \in Unused : \A e \in Unused : d <= e

LockFree_Ignored == TRUE
LockFree == q_lock = NULL

accept(c) ==
  /\ server_main = "accept"
  /\ clientEnd[c] # "none" /\ serverEnd[c] = "none"
  /\ serverEnd' = [serverEnd EXCEPT ![c] = "open"]
  /\ fd' = [fd EXCEPT ![c] = LeastUnused]
  /\ server_main' = c
  /\ UNCHANGED <<toServer, toClient, clientEnd, accepted_sockfd_q, thread, localVars,
                 broadcastVars>>

\* enq_q() under q_lock, then pthread_create().
accept_enq(c) ==
  /\ server_main = c
  /\ LockFree
  /\ accepted_sockfd_q' = Append(accepted_sockfd_q, c)
  /\ thread' = [thread EXCEPT ![c] = "created"]
  /\ server_main' = "accept"
  /\ missed' = [missed EXCEPT ![c] = 0]
  /\ UNCHANGED <<tcpVars, fd, localVars, q_lock, broadcast_buffer, position>>

Queued(c) == \E k \in DOMAIN accepted_sockfd_q : accepted_sockfd_q[k] = c

-------------------------------------------------------------------------------
Goes(c, from, to) == thread[c] = from /\ thread' = [thread EXCEPT ![c] = to]

\* What the thread reads from its int.  If the entry was deleted, the int is
\* freed: it may still have its value, be garbage, or be the memory that main()
\* got for the int of another client.
ReadableFrom(c) == IF Queued(c) THEN {fd[c]} ELSE {0} \cup {fd[h] : h \in Clients}

server_receiver(c) ==
  /\ Goes(c, "created", "recv")
  /\ \E d \in ReadableFrom(c) : accepted_sockfd' = [accepted_sockfd EXCEPT ![c] = d]
  /\ UNCHANGED <<tcpVars, mainVars, accepted_sockfd_q, receiver_buffer, broadcastVars>>

\* The connection is that of whoever has the descriptor, h.
server_recv(c, h, k) ==
  /\ Goes(c, "recv", "broadcast")
  /\ receiver_buffer' = [receiver_buffer EXCEPT ![c] = Taken(toServer[h], k)]
  /\ toServer' = [toServer EXCEPT ![h] = Left(@, k)]
  /\ UNCHANGED <<toClient, clientEnd, serverEnd, mainVars, accepted_sockfd_q,
                 accepted_sockfd, broadcastVars>>

\* recv() returns 0 or -1: nobody has the descriptor, or the connection was shut
\* down, or the client is gone (at once, if it left data unread).
Over(h) ==
  \/ serverEnd[h] = "shut" /\ toServer[h] = <<>>
  \/ clientEnd[h] = "closed" /\ (toServer[h] = <<>> \/ toClient[h] # <<>>)

server_recv_end(c) ==
  /\ Goes(c, "recv", "shutdown")
  /\ \A h \in Holders(accepted_sockfd[c]) : Over(h)
  /\ UNCHANGED <<tcpVars, mainVars, accepted_sockfd_q, localVars, broadcastVars>>

broadcast(c) ==
  /\ Goes(c, "broadcast", "iterate")
  /\ LockFree
  /\ q_lock' = c
  /\ broadcast_buffer' = receiver_buffer[c]
  /\ position' = 0
  /\ missed' = [h \in Clients |-> IF Queued(h) THEN missed[h] + 1 ELSE missed[h]]
  /\ UNCHANGED <<tcpVars, mainVars, accepted_sockfd_q, localVars>>

\* One send() of the iteration: to whoever holds the descriptor now.
broadcast_callback(c) ==
  /\ thread[c] = "iterate" /\ position < Len(accepted_sockfd_q)
  /\ position' = position + 1
  /\ LET holders == Holders(fd[accepted_sockfd_q[position + 1]])
     IN  /\ \A h \in holders : /\ serverEnd[h] = "open"
                               /\ clientEnd[h] = "open" => HasRoom(toClient[h], broadcast_buffer)
         /\ toClient' = [h \in Clients |->
                           IF h \in holders /\ clientEnd[h] = "open"
                           THEN toClient[h] \o broadcast_buffer ELSE toClient[h]]
         /\ missed' = [h \in Clients |->
                         IF h \in holders /\ missed[h] > 0 THEN missed[h] - 1 ELSE missed[h]]
  /\ UNCHANGED <<toServer, clientEnd, serverEnd, mainVars, accepted_sockfd_q, thread,
                 localVars, q_lock, broadcast_buffer>>

\* SIGPIPE, after shutdown() by the thread of that client or the end of the
\* client: the whole server ends, its memory is gone, and the kernel closes its
\* connections.
broadcast_sigpipe(c) ==
  /\ thread[c] = "iterate" /\ position < Len(accepted_sockfd_q)
  /\ \E h \in Holders(fd[accepted_sockfd_q[position + 1]]) :
       serverEnd[h] = "shut" \/ clientEnd[h] = "closed"
  /\ server_main' = "killed"
  /\ thread' = [h \in Clients |-> "killed"]
  /\ serverEnd' = [h \in Clients |-> "closed"]
  /\ fd' = [h \in Clients |-> 0] /\ accepted_sockfd' = fd'
  /\ receiver_buffer' = [h \in Clients |-> <<>>]
  /\ accepted_sockfd_q' = <<>>
  /\ q_lock' = NULL /\ broadcast_buffer' = <<>> /\ position' = 0
  /\ missed' = [h \in Clients |-> 0]
  /\ UNCHANGED <<toServer, toClient, clientEnd>>

Unlocked_NotAtQuit(c) == IF is_quit(receiver_buffer[c]) THEN c ELSE NULL
Unlocked(c) == NULL

\* Unlock; then the thread goes on or ends.  What stays in the buffers is not
\* read again.
broadcast_end(c) ==
  /\ Goes(c, "iterate", IF is_quit(receiver_buffer[c]) THEN "shutdown" ELSE "recv")
  /\ position = Len(accepted_sockfd_q)
  /\ position' = 0
  /\ q_lock' = Unlocked(c)
  /\ receiver_buffer' = [receiver_buffer EXCEPT ![c] = <<>>]
  /\ broadcast_buffer' = <<>>
  /\ UNCHANGED <<tcpVars, mainVars, accepted_sockfd_q, accepted_sockfd, missed>>

\* The two calls on the descriptor, whoever has it.
SetEnd(c, end) ==
  /\ serverEnd' = [h \in Clients |-> IF h \in Holders(accepted_sockfd[c]) THEN end
                                    ELSE serverEnd[h]]
  /\ UNCHANGED <<toServer, toClient, clientEnd, mainVars, accepted_sockfd_q,
                 localVars, broadcastVars>>

server_shutdown(c) == Goes(c, "shutdown", "close") /\ SetEnd(c, "shut")
server_close(c) == Goes(c, "close", "delete") /\ SetEnd(c, "closed")

remaining_Others(c) == accepted_sockfd_q
remaining(c) ==
  LET queue == accepted_sockfd_q
      kept[k \in 0 .. Len(queue)] ==   \* of the first k entries
        IF k = 0 THEN <<>>
        ELSE IF fd[queue[k]] = accepted_sockfd[c] THEN kept[k - 1] ELSE Append(kept[k - 1], queue[k])
  IN  kept[Len(queue)]

\* Every entry with this number goes, whoever it belongs to by now.
server_delete(c) ==
  /\ Goes(c, "delete", "ended")
  /\ LockFree
  /\ accepted_sockfd_q' = remaining(c)
  /\ UNCHANGED <<tcpVars, mainVars, localVars, broadcastVars>>

-------------------------------------------------------------------------------
ServerThreadStep(c) ==
  \/ server_receiver(c) \/ server_recv_end(c)
  \/ \E h \in Holders(accepted_sockfd[c]) : \E k \in Cuts(toServer[h]) : server_recv(c, h, k)
  \/ broadcast(c) \/ broadcast_callback(c) \/ broadcast_sigpipe(c) \/ broadcast_end(c)
  \/ server_shutdown(c) \/ server_close(c) \/ server_delete(c)

ServerStep(c) == accept(c) \/ accept_enq(c) \/ ServerThreadStep(c)
===============================================================================
