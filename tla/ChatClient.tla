------------------------------- MODULE ChatClient -------------------------------
(***************************************************************************)
(* client.c of lab2: main() interprets what it receives, client_sender()   *)
(* joins and then sends what the user types.  They share join_acknowledged *)
(* with its condition variable, and quit_necessary, which is written under *)
(* quit_lock and also read under join_lock.                                *)
(***************************************************************************)
EXTENDS ChatTcp

CONSTANTS
  Names,
  Usernames, \* how the clients may be named; two may have the same name
  MaxLines   \* how many lines all users type together, at most

ASSUME NamesAssumption ==
  /\ Names \cap (Types \cup {Delimiter, Text}) = {}
  /\ Usernames \subseteq [Clients -> Names]

VARIABLES
  client_main,        \* "start", "recv", "signal", "join" or "ended"
  client_sender,      \* where client_sender() is
  join_acknowledged,
  quit_necessary,
  sender_buffer,
  username,           \* the argument of the program
  lines               \* how many lines were typed

flags == <<join_acknowledged, quit_necessary>>
input == <<sender_buffer, username, lines>>
clientVars == <<client_main, client_sender, flags, input>>

ClientInit ==
  /\ client_main = [c \in Clients |-> "start"]
  /\ client_sender = [c \in Clients |-> "start"]
  /\ join_acknowledged = [c \in Clients |-> FALSE]
  /\ quit_necessary = [c \in Clients |-> FALSE]
  /\ sender_buffer = [c \in Clients |-> <<>>]
  /\ username \in Usernames
  /\ lines = 0

Disconnected(c) == serverEnd[c] \in {"shut", "closed"}

\* The process ends, by return, exit() or a signal, and its memory with it.
Exit(c) ==
  /\ client_main' = [client_main EXCEPT ![c] = "ended"]
  /\ client_sender' = [client_sender EXCEPT ![c] = "ended"]
  /\ clientEnd' = [clientEnd EXCEPT ![c] = "closed"]
  /\ join_acknowledged' = [join_acknowledged EXCEPT ![c] = FALSE]
  /\ quit_necessary' = [quit_necessary EXCEPT ![c] = FALSE]
  /\ sender_buffer' = [sender_buffer EXCEPT ![c] = <<>>]
  /\ UNCHANGED <<toServer, toClient, serverEnd, username, lines>>

\* connect() and pthread_create(); client_sender() begins with the join request,
\* which finds room in the empty stream.
client_connect(c) ==
  /\ client_main[c] = "start" /\ serverEnd[c] = "none"
  /\ clientEnd' = [clientEnd EXCEPT ![c] = "open"]
  /\ client_main' = [client_main EXCEPT ![c] = "recv"]
  /\ client_sender' = [client_sender EXCEPT ![c] = "wait"]
  /\ toServer' = [toServer EXCEPT ![c] = build_join(username[c])]
  /\ UNCHANGED <<toClient, serverEnd, flags, input>>

-------------------------------------------------------------------------------
(* main() *)

Signalled(c) ==
  IF client_sender[c] = "asleep" THEN [client_sender EXCEPT ![c] = "wait"] ELSE client_sender

QuitSeen(c) == quit_necessary[c]

\* recv() returns data.  If the user has asked to quit, it is not looked at.  A
\* message pointer of NULL + 2 is printed, which is undefined and ends the process.
\* A HELO is taken for the answer if it has the username, whoever has sent it.
client_recv(c, k) ==
  LET parsed == parse_transmission(Taken(toClient[c], k))
      joined == parsed.type = "HELO" /\ parsed.username = <<username[c]>>
  IN  /\ client_main[c] = "recv"
      /\ IF QuitSeen(c) \/ parsed.valid
         THEN /\ toClient' = [toClient EXCEPT ![c] = Left(@, k)]
              /\ client_main' = [client_main EXCEPT ![c] = IF QuitSeen(c) THEN "join" ELSE @]
              /\ join_acknowledged' =
                   [join_acknowledged EXCEPT ![c] = @ \/ (joined /\ ~QuitSeen(c))]
              /\ client_sender' = IF joined /\ ~QuitSeen(c) THEN Signalled(c) ELSE client_sender
              /\ UNCHANGED <<toServer, clientEnd, serverEnd, quit_necessary, input>>
         ELSE Exit(c)

\* recv() returns 0.
client_recv_end(c) ==
  /\ client_main[c] = "recv"
  /\ Disconnected(c) /\ toClient[c] = <<>>
  /\ quit_necessary' = [quit_necessary EXCEPT ![c] = TRUE]
  /\ client_main' = [client_main EXCEPT ![c] = "signal"]
  /\ UNCHANGED <<tcpVars, client_sender, join_acknowledged, input>>

\* recv() returns -1: the server closed with data unread.
client_recv_error(c) ==
  /\ client_main[c] = "recv"
  /\ serverEnd[c] = "closed" /\ toServer[c] # <<>>
  /\ Exit(c)

client_signal(c) ==
  /\ client_main[c] = "signal"
  /\ client_main' = [client_main EXCEPT ![c] = "join"]
  /\ client_sender' = Signalled(c)
  /\ UNCHANGED <<tcpVars, flags, input>>

\* pthread_join(), and return from main().
client_join(c) ==
  /\ client_main[c] = "join" /\ client_sender[c] = "returned"
  /\ Exit(c)

-------------------------------------------------------------------------------
(* client_sender() *)

\* The condition of the loop around fgets(), tested as soon as it is reached: if
\* main() sets the flag before the test, it may as well have set it earlier.
Onward(c) == IF quit_necessary[c] THEN "returned" ELSE "fgets"

Sends(c, from, to) ==
  /\ client_sender[c] = from
  /\ client_sender' = [client_sender EXCEPT ![c] = to]
  /\ UNCHANGED <<client_main, join_acknowledged>>

\* send() of a line or of BYE; a closed connection takes it, too.
client_send(c) ==
  /\ Sends(c, "send", Onward(c))
  /\ HasRoom(toServer[c], sender_buffer[c]) \/ Disconnected(c)
  /\ toServer' = [toServer EXCEPT ![c] =
                    IF HasRoom(@, sender_buffer[c]) THEN @ \o sender_buffer[c] ELSE @]
  /\ sender_buffer' = [sender_buffer EXCEPT ![c] = <<>>]
  /\ UNCHANGED <<toClient, clientEnd, serverEnd, quit_necessary, username, lines>>

\* SIGPIPE, or send() returns -1 and the process exits.
client_send_fails(c) ==
  /\ client_sender[c] = "send"
  /\ Disconnected(c)
  /\ Exit(c)

\* The condition of the loop, and pthread_cond_wait().
Awaited(c) == join_acknowledged[c] \/ quit_necessary[c]

client_wait(c) ==
  /\ Sends(c, "wait", IF Awaited(c) THEN Onward(c) ELSE "asleep")
  /\ UNCHANGED <<tcpVars, quit_necessary, input>>

\* pthread_cond_wait() may return without a signal; then, too, the loop tests
\* its condition, and goes back to sleep if it does not hold.
WakeupTest_None(c) == TRUE
WakeupTest(c) == Awaited(c)

client_wakeup(c) ==
  /\ WakeupTest(c)
  /\ Sends(c, "asleep", Onward(c))
  /\ UNCHANGED <<tcpVars, quit_necessary, input>>

fgets_line(c) ==
  /\ lines < MaxLines
  /\ Sends(c, "fgets", "send")
  /\ lines' = lines + 1
  /\ sender_buffer' = [sender_buffer EXCEPT ![c] = build_message(username[c])]
  /\ UNCHANGED <<tcpVars, quit_necessary, username>>

fgets_eof(c) ==
  /\ Sends(c, "fgets", "send")
  /\ quit_necessary' = [quit_necessary EXCEPT ![c] = TRUE]
  /\ sender_buffer' = [sender_buffer EXCEPT ![c] = build_quit(username[c])]
  /\ UNCHANGED <<tcpVars, username, lines>>

-------------------------------------------------------------------------------
ClientMainStep(c) ==
  \/ \E k \in Cuts(toClient[c]) : client_recv(c, k)
  \/ client_recv_end(c) \/ client_recv_error(c)
  \/ client_signal(c) \/ client_join(c)

ClientSenderStep(c) ==
  \/ client_send(c) \/ client_send_fails(c)
  \/ client_wait(c) \/ fgets_line(c) \/ fgets_eof(c)

ClientStep(c) ==
  client_connect(c) \/ ClientMainStep(c) \/ ClientSenderStep(c) \/ client_wakeup(c)
===============================================================================
