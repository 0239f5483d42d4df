---------------------------------- MODULE Chat ----------------------------------
(***************************************************************************)
(* The chat room of lab2: one server, and clients that come and go.        *)
(***************************************************************************)
EXTENDS ChatServer, ChatClient

vars == <<tcpVars, serverVars, clientVars>>

Init == TcpInit /\ ServerInit /\ ClientInit

Next ==
  \E c \in Clients :
    \/ ServerStep(c) /\ UNCHANGED clientVars
    \/ ClientStep(c) /\ UNCHANGED serverVars

Spec == Init /\ [][Next]_vars

-------------------------------------------------------------------------------
(* Safety. *)

\* Nobody is left out and nothing overtakes: a client whose entry is queued and
\* whose connection is up has been sent every broadcast since it was queued; in
\* the middle of one, those in front of `position' have been sent this one, too.
QueuedHearAll ==
  \A k \in DOMAIN accepted_sockfd_q :
    LET c == accepted_sockfd_q[k]
    IN  serverEnd[c] = "open" =>
          \/ missed[c] = 0
          \/ q_lock # NULL /\ k > position /\ missed[c] = 1

\* No entry stays behind.  Threads delete by number, and a number may be closed,
\* reused and deleted by somebody else's thread: still, whoever is queued has a
\* thread of its own that has not made its last step, the removal, and that
\* looks for the very number of the entry.
StaleEntriesGo ==
  \A c \in Clients :
    Queued(c) =>
      /\ thread[c] \notin {"none", "ended"}
      /\ thread[c] = "created" \/ accepted_sockfd[c] = fd[c]

\* "the user is only allowed to start sending messages once its join request is
\* acknowledged" (src/lab2/README.md:58), also with spurious wakeups and although
\* quit_necessary ends the wait, too.  What is taken for the acknowledgement is a
\* HELO of the client's name, and names need not differ (line 77): so the server
\* has accepted a client of that name by then, this one if no other has the name.
TalksOnlyWhenJoined ==
  \A c \in Clients :
    /\ client_sender[c] \in {"fgets", "send"} => join_acknowledged[c]
    /\ join_acknowledged[c] =>
         \E h \in Clients : username[h] = username[c] /\ serverEnd[h] # "none"

\* "each thread, upon receiving a message, will iterate through all the
\* connected clients" (README of lab2): a client that has joined and whose
\* thread is receiving is in the queue.
ConnectedIsQueued ==
  \A c \in Clients :
    (thread[c] = "recv" /\ clientEnd[c] = "open" /\ join_acknowledged[c]) => Queued(c)

-------------------------------------------------------------------------------
(* Liveness.  As long as a thread can go on, some thread does.  Behaviours   *)
(* end, since users type MaxLines lines at most, so nothing more has to be   *)
(* asked of the scheduler.  Nobody has to connect or to type, unless the     *)
(* client has printed that the connection is terminated and asks for it, and *)
(* no spurious wakeup has to happen.                                         *)

PromptedStep(c) ==
  /\ client_sender[c] # "fgets" \/ Disconnected(c)
  /\ ClientSenderStep(c)

ThreadStep(c) ==
  \/ (accept(c) \/ accept_enq(c) \/ ServerThreadStep(c)) /\ UNCHANGED clientVars
  \/ (ClientMainStep(c) \/ PromptedStep(c)) /\ UNCHANGED serverVars

FairSpec == Spec /\ WF_vars(\E c \in Clients : ThreadStep(c))

Broadcasting == \E c \in Clients : thread[c] \in {"broadcast", "iterate"}

\* A circle in which nobody can go on.  A user has entered EOF: main() of the
\* client has stopped receiving and waits for client_sender(), which waits in
\* send() for room to the server; the thread of this client waits for q_lock,
\* or has it; and whoever has q_lock waits in send() for room to this client.
WaitsInCircle(c) ==
  /\ client_main[c] = "join" /\ client_sender[c] = "send"
  /\ ~HasRoom(toServer[c], sender_buffer[c])
  /\ thread[c] \in {"broadcast", "iterate"}
  /\ q_lock # NULL /\ position < Len(accepted_sockfd_q)
  /\ c \in Holders(fd[accepted_sockfd_q[position + 1]])
  /\ ~HasRoom(toClient[c], broadcast_buffer)

CircularWait == \E c \in Clients : WaitsInCircle(c)

\* The entry of a client that has a connection was deleted by another thread, see
\* ConnectedIsQueued: nobody sends anything to it any more.
Forgotten(c) == thread[c] = "recv" /\ ~Queued(c)

\* All broadcasts come to an end, though send() waits under q_lock for clients
\* whose buffers are full, and they themselves send: a client receives in one
\* thread and sends in another.  It is only the client that quits that does not,
\* and the circle around it is the only way for a broadcast to go on for ever.
BroadcastEnds == Broadcasting ~> (~Broadcasting \/ CircularWait)

===============================================================================
