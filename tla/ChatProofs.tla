---------------------------------- MODULE ChatProofs ----------------------------------
(***************************************************************************)
(* Proofs about Chat: its three safety properties, for any set of clients  *)
(* and any usernames, any capacity of TCP's buffers and any places where   *)
(* TCP cuts a stream.  Inv is inductive.  It says which entries are queued *)
(* while their threads are where, whose words can be in which buffer, and  *)
(* what client_sender() and the flags it shares with main() have to do     *)
(* with each other.                                                        *)
(***************************************************************************)
EXTENDS Chat, NaturalsInduction, WellFoundedInduction, TLAPS

-------------------------------------------------------------------------------
(* The inductive invariant. *)

Plain == Types \cup {Delimiter, Text}
Word  == Plain \cup Names

TypeOK ==
  /\ toServer \in [Clients -> Seq(Word)] /\ toClient \in [Clients -> Seq(Word)]
  /\ clientEnd \in [Clients -> {"none", "open", "closed"}]
  /\ serverEnd \in [Clients -> {"none", "open", "shut", "closed"}]
  /\ server_main \in Clients \cup {"accept", "killed"}
  /\ fd = [c \in Clients |-> fd[c]]
  /\ accepted_sockfd_q \in Seq(Clients)
  /\ thread \in [Clients -> {"none", "created", "recv", "broadcast", "iterate", "shutdown", "close",
                             "delete", "ended", "killed"}]
  /\ accepted_sockfd = [c \in Clients |-> accepted_sockfd[c]]
  /\ receiver_buffer \in [Clients -> Seq(Word)]
  /\ q_lock \in Clients \cup {NULL}
  /\ broadcast_buffer \in Seq(Word)
  /\ position \in Nat
  /\ missed \in [Clients -> Nat]
  /\ client_main \in [Clients -> {"start", "recv", "signal", "join", "ended"}]
  /\ client_sender \in [Clients -> {"start", "wait", "asleep", "fgets", "send", "returned", "ended"}]
  /\ join_acknowledged \in [Clients -> BOOLEAN] /\ quit_necessary \in [Clients -> BOOLEAN]
  /\ sender_buffer \in [Clients -> Seq(Word)]
  /\ username \in [Clients -> Names]
  /\ lines \in Nat

\* main() and the threads: a descriptor is queued before there is a thread for it,
\* the thread has the number of its entry, and the entry goes in its last step.
EntryInv(c) ==
  /\ serverEnd[c] = "none" => thread[c] = "none"
  /\ server_main = c => thread[c] = "none" /\ serverEnd[c] # "none"
  /\ Queued(c) => thread[c] \notin {"none", "ended"}
  /\ Queued(c) /\ thread[c] # "created" => accepted_sockfd[c] = fd[c]

\* A client sends no other name than its own, and nobody, the server included,
\* hears of a name before the server has accepted a client of that name.
Heard == Plain \cup {name \in Names : \E c \in Clients : username[c] = name /\ serverEnd[c] # "none"}

WordsInv(c) ==
  /\ toServer[c] \in Seq(Plain \cup {username[c]})
  /\ sender_buffer[c] \in Seq(Plain \cup {username[c]})
  /\ receiver_buffer[c] \in Seq(Heard)
  /\ toClient[c] \in Seq(Heard)

\* What a queued client missed is what is still to come.
HearsInv(c) ==
  \A k \in DOMAIN accepted_sockfd_q :
    accepted_sockfd_q[k] = c /\ serverEnd[c] = "open" =>
      \/ missed[c] = 0
      \/ q_lock # NULL /\ k > position /\ missed[c] = 1

JoinInv(c) ==
  /\ client_sender[c] \in {"fgets", "send"} => join_acknowledged[c]
  /\ join_acknowledged[c] =>
       \E h \in Clients : username[h] = username[c] /\ serverEnd[h] # "none"

Inv ==
  /\ TypeOK
  /\ broadcast_buffer \in Seq(Heard)
  /\ \A c \in Clients : EntryInv(c) /\ WordsInv(c) /\ HearsInv(c) /\ JoinInv(c)

-------------------------------------------------------------------------------
(* Sequences. *)

\* A set of numbers that is not empty has a least element.
LEMMA LeastElement ==
  ASSUME NEW S \in SUBSET Nat, S # {}
  PROVE  \E x \in S : \A y \in S : x <= y
<1> DEFINE R == OpToRel(<, Nat)
<1>1. IsWellFoundedOn(R, Nat) BY NatLessThanWellFounded
<1> HIDE DEF R
<1>2. PICK x \in S : \A y \in S : ~ (<<y, x>> \in R) BY <1>1, WFMin
<1>3. ASSUME NEW y \in S PROVE x <= y
  <2>1. y < x => <<y, x>> \in R BY DEF R, OpToRel
  <2> QED BY <1>2, <2>1
<1> QED BY <1>3

\* Induction, in terms of the set of the numbers that have the property.
LEMMA SetInduction ==
  ASSUME NEW S, 0 \in S, \A n \in Nat : n \in S => n + 1 \in S
  PROVE  Nat \subseteq S
<1> SUFFICES ASSUME Nat \ S # {} PROVE FALSE OBVIOUS
<1>1. PICK x \in Nat \ S : \A y \in Nat \ S : x <= y BY LeastElement
<1>2. x - 1 \in Nat /\ x - 1 \in S BY <1>1
<1> QED BY <1>1, <1>2

\* Seq is monotonic.
LEMMA SeqMonotonic ==
  ASSUME NEW S, NEW T, S \subseteq T
  PROVE  Seq(S) \subseteq Seq(T)
OBVIOUS

\* What recv() takes from a stream, and what it leaves, has the words of the stream.
LEMMA CutWords ==
  ASSUME NEW S, NEW s \in Seq(S), NEW k \in Cuts(s)
  PROVE  Taken(s, k) \in Seq(S) /\ Left(s, k) \in Seq(S)
<1>1. k \in 1 .. Len(s) BY DEF Cuts
<1> QED BY <1>1 DEF Taken, Left

\* What a client builds has its own name and no other one.
LEMMA BuiltWords ==
  ASSUME NEW name \in Names
  PROVE  /\ build_message(name) \in Seq(Plain \cup {name})
         /\ build_join(name) \in Seq(Plain \cup {name})
         /\ build_quit(name) \in Seq(Plain \cup {name})
         /\ Seq(Plain \cup {name}) \subseteq Seq(Word)
<1>1. Plain \cup {name} \subseteq Word BY DEF Word
<1>2. Seq(Plain \cup {name}) \subseteq Seq(Word) BY <1>1, SeqMonotonic
<1> QED BY <1>2 DEF build_message, build_join, build_quit, Plain, Types

\* The position that strstr() finds is one of the text.
LEMMA strstrRange ==
  ASSUME NEW S, NEW text \in Seq(S)
  PROVE  strstr(text) \in 0 .. Len(text)
<1> DEFINE I == {i \in 1 .. Len(text) : text[i] = Delimiter}
<1>1. strstr(text) = IF I # {} THEN Min(I) ELSE 0 BY DEF strstr, SelectInSeq
<1>2. ASSUME I # {} PROVE Min(I) \in I
  <2>1. I \in SUBSET Nat BY DEF I
  <2>2. \E x \in I : \A y \in I : x <= y BY <1>2, <2>1, LeastElement
  <2> HIDE DEF I
  <2> QED BY <2>2 DEF Min
<1>3. Len(text) \in Nat OBVIOUS
<1> QED BY <1>1, <1>2, <1>3

\* The username that a client reads is a word of what it has received.
LEMMA UsernameIsHeard ==
  ASSUME NEW S, NEW text \in Seq(S), NEW name,
         parse_transmission(text).username = <<name>>
  PROVE  name \in S
<1>1. strstr(text) \in 0 .. Len(text) BY strstrRange
<1>2. Behind(text) \in Seq(S) BY <1>1 DEF Behind
<1>3. strstr(Behind(text)) \in 0 .. Len(Behind(text)) BY <1>2, strstrRange
<1>4. Before(Behind(text)) \in Seq(S) BY <1>2, <1>3 DEF Before
<1>5. Before(Behind(text)) = <<name>> BY DEF parse_transmission
<1> QED BY <1>4, <1>5

\* delete_integer_targets_q() leaves entries that were queued and have another number.
LEMMA RemainingIs ==
  ASSUME TypeOK, NEW c \in Clients
  PROVE  remaining(c) \in Seq({e \in Clients : Queued(e) /\ fd[e] # accepted_sockfd[c]})
<1> DEFINE q == accepted_sockfd_q
           n == Len(q)
           S == {e \in Clients : Queued(e) /\ fd[e] # accepted_sockfd[c]}
           Def(g, k) == IF k = 0 THEN <<>>
                        ELSE IF fd[q[k]] = accepted_sockfd[c] THEN g[k - 1]
                        ELSE Append(g[k - 1], q[k])
           Is(g, m) == g = [k \in 0 .. m |-> Def(g, k)]
           N == {m \in Nat : \E g : Is(g, m)}
<1>1. n \in Nat BY DEF TypeOK
<1>2. Nat \subseteq N
  <2>1. Is([k \in 0 .. 0 |-> <<>>], 0) OBVIOUS
  <2>2. ASSUME NEW m \in Nat, m \in N PROVE m + 1 \in N
    <3>1. PICK g : Is(g, m) BY <2>2
    <3> DEFINE h == [k \in 0 .. m + 1 |-> IF k = m + 1 THEN Def(g, m + 1) ELSE g[k]]
    <3>2. ASSUME NEW k \in 0 .. m + 1 PROVE h[k] = Def(h, k)
      <4>1. CASE k = m + 1
        <5>1. k - 1 \in 0 .. m + 1 /\ k - 1 # m + 1 /\ k # 0 /\ k - 1 = m BY <4>1
        <5>2. h[k - 1] = g[k - 1] BY <5>1
        <5>3. h[k] = Def(g, m + 1) BY <4>1
        <5> HIDE DEF h
        <5> QED BY <4>1, <5>1, <5>2, <5>3
      <4>2. CASE k # m + 1
        <5>1. k \in 0 .. m BY <4>2
        <5>2. h[k] = g[k] /\ g[k] = Def(g, k) BY <3>1, <4>2, <5>1
        <5>3. k # 0 => k - 1 \in 0 .. m + 1 /\ k - 1 # m + 1 BY <5>1
        <5>4. k # 0 => h[k - 1] = g[k - 1] BY <5>3
        <5> HIDE DEF h
        <5> QED BY <5>2, <5>4
      <4> QED BY <4>1, <4>2
    <3>3. h = [k \in 0 .. m + 1 |-> h[k]] OBVIOUS
    <3> HIDE DEF h
    <3>4. [k \in 0 .. m + 1 |-> h[k]] = [k \in 0 .. m + 1 |-> Def(h, k)] BY <3>2
    <3>5. Is(h, m + 1) BY <3>3, <3>4
    <3> QED BY <3>5
  <2>3. 0 \in N BY <2>1
  <2> HIDE DEF N
  <2> QED BY <2>2, <2>3, SetInduction
<1> DEFINE kept == CHOOSE g : Is(g, n)
<1>3. Is(kept, n) BY <1>1, <1>2
<1>4. remaining(c) = kept[n] BY DEF remaining
<1>5. \A k \in 0 .. n : kept[k] = Def(kept, k)
  <2> HIDE DEF kept
  <2> QED BY <1>3
<1> HIDE DEF kept
<1> DEFINE M == {m \in Nat : m <= n => kept[m] \in Seq(S)}
<1>6. Nat \subseteq M
  <2>1. 0 \in M
    <3>1. 0 \in 0 .. n BY <1>1
    <3>2. kept[0] = <<>> BY <1>5, <3>1
    <3>3. <<>> \in Seq(S) OBVIOUS
    <3> HIDE DEF S
    <3> QED BY <3>2, <3>3
  <2>2. ASSUME NEW m \in Nat, m \in M PROVE m + 1 \in M
    <3> SUFFICES ASSUME m + 1 <= n PROVE kept[m + 1] \in Seq(S) OBVIOUS
    <3>0. m + 1 \in 1 .. n
      <4> HIDE DEF n
      <4> QED BY <1>1
    <3>1. m + 1 \in 0 .. n /\ m + 1 \in DOMAIN q /\ m + 1 # 0 /\ m + 1 - 1 = m
      <4>1. DOMAIN q = 1 .. n BY DEF TypeOK
      <4> HIDE DEF n, q
      <4> QED BY <1>1, <3>0, <4>1
    <3>2. kept[m] \in Seq(S) BY <1>1, <2>2, <3>1
    <3>3. kept[m + 1] = Def(kept, m + 1) BY <1>5, <3>1
    <3>4. q[m + 1] \in Clients /\ Queued(q[m + 1]) BY <3>1 DEF TypeOK, Queued
    <3>5. CASE fd[q[m + 1]] = accepted_sockfd[c] BY <3>1, <3>2, <3>3, <3>5
    <3>6. CASE fd[q[m + 1]] # accepted_sockfd[c]
      <4>1. q[m + 1] \in S BY <3>4, <3>6
      <4>2. kept[m + 1] = Append(kept[m], q[m + 1]) BY <3>1, <3>3, <3>6
      <4> HIDE DEF S, q
      <4> QED BY <3>2, <4>1, <4>2
    <3> QED BY <3>5, <3>6
  <2> HIDE DEF M
  <2> QED BY <2>1, <2>2, SetInduction
<1> QED BY <1>1, <1>4, <1>6

\* What remains in sender_queue when c is deleted are queued clients with another
\* descriptor.
LEMMA RemainingEntries ==
  ASSUME TypeOK, NEW c \in Clients
  PROVE  /\ remaining(c) \in Seq(Clients)
         /\ \A k \in DOMAIN remaining(c) :
              Queued(remaining(c)[k]) /\ fd[remaining(c)[k]] # accepted_sockfd[c]
<1> DEFINE S == {e \in Clients : Queued(e) /\ fd[e] # accepted_sockfd[c]}
           r == remaining(c)
<1>1. r \in Seq(S) BY RemainingIs
<1>2. S \subseteq Clients OBVIOUS
<1> HIDE DEF r
<1>3. r \in Seq(Clients)
  <2> HIDE DEF S
  <2> QED BY <1>1, <1>2, SeqMonotonic
<1>4. \A k \in DOMAIN r : r[k] \in S
  <2> HIDE DEF S
  <2> QED BY <1>1
<1> QED BY <1>3, <1>4 DEF r

-------------------------------------------------------------------------------
(* Inv is inductive. *)

\* Steps of the server leave the variables well typed.
LEMMA ServerTypeStep ==
  ASSUME TypeOK, NEW c \in Clients, ServerStep(c), UNCHANGED clientVars
  PROVE  TypeOK'
<1> USE DEF TypeOK, clientVars, flags, input, tcpVars, mainVars, localVars, broadcastVars, Goes, SetEnd, LockFree, Unlocked
<1>1. CASE accept(c)
  BY <1>1 DEF accept
<1>2. CASE accept_enq(c)
  BY <1>2 DEF accept_enq
<1>3. CASE server_receiver(c)
  BY <1>3 DEF server_receiver
<1>4. ASSUME NEW b \in Holders(accepted_sockfd[c]), NEW k \in Cuts(toServer[b]), server_recv(c, b, k) PROVE TypeOK'
  <2>1. b \in Clients /\ toServer[b] \in Seq(Word) BY DEF Holders
  <2>2. Taken(toServer[b], k) \in Seq(Word) /\ Left(toServer[b], k) \in Seq(Word)
    BY <1>4, <2>1, CutWords
  <2>3. /\ toServer' = [toServer EXCEPT ![b] = Left(toServer[b], k)]
        /\ receiver_buffer' = [receiver_buffer EXCEPT ![c] = Taken(toServer[b], k)]
    BY <1>4 DEF server_recv
  <2>4. toServer' \in [Clients -> Seq(Word)] /\ receiver_buffer' \in [Clients -> Seq(Word)]
    BY <2>2, <2>3
  <2> QED BY <1>4, <2>4 DEF server_recv
<1>5. CASE server_recv_end(c)
  BY <1>5 DEF server_recv_end
<1>6. CASE broadcast(c)
  BY <1>6 DEF broadcast
<1>7. CASE broadcast_callback(c)
  <2> DEFINE holders == Holders(fd[accepted_sockfd_q[position + 1]])
  <2>1. /\ position' = position + 1
        /\ toClient' = [h \in Clients |->
                          IF h \in holders /\ clientEnd[h] = "open"
                          THEN toClient[h] \o broadcast_buffer ELSE toClient[h]]
        /\ missed' = [h \in Clients |->
                        IF h \in holders /\ missed[h] > 0 THEN missed[h] - 1 ELSE missed[h]]
        /\ UNCHANGED <<toServer, clientEnd, serverEnd, mainVars, accepted_sockfd_q, thread,
                       localVars, q_lock, broadcast_buffer>>
    BY <1>7 DEF broadcast_callback
  <2> HIDE DEF holders
  <2>2. toClient' \in [Clients -> Seq(Word)]
    <3>1. \A h \in Clients : toClient[h] \o broadcast_buffer \in Seq(Word) OBVIOUS
    <3> QED BY <2>1, <3>1
  <2>3. missed' \in [Clients -> Nat]
    <3>1. \A h \in Clients : missed[h] \in Nat OBVIOUS
    <3>2. ASSUME NEW h \in Clients PROVE missed'[h] \in Nat
      <4>1. missed[h] \in Nat /\ (missed'[h] = missed[h] \/ (missed[h] > 0 /\ missed'[h] = missed[h] - 1))
        BY <2>1, <3>1
      <4> QED BY <4>1
    <3>3. missed' = [h \in Clients |-> missed'[h]] BY <2>1
    <3> QED BY <3>2, <3>3
  <2>4. position' \in Nat BY SMTT(30), <2>1
  <2> QED BY <2>1, <2>2, <2>3, <2>4
<1>8. CASE broadcast_sigpipe(c)
  <2>1. /\ server_main' = "killed" /\ thread' = [h \in Clients |-> "killed"]
        /\ serverEnd' = [h \in Clients |-> "closed"]
        /\ fd' = [h \in Clients |-> 0] /\ accepted_sockfd' = [h \in Clients |-> 0]
        /\ receiver_buffer' = [h \in Clients |-> <<>>]
        /\ accepted_sockfd_q' = <<>> /\ q_lock' = NULL /\ broadcast_buffer' = <<>>
        /\ position' = 0 /\ missed' = [h \in Clients |-> 0]
        /\ UNCHANGED <<toServer, toClient, clientEnd>>
    BY <1>8 DEF broadcast_sigpipe
  <2>2. /\ <<>> \in Seq(Word) /\ <<>> \in Seq(Clients) OBVIOUS
  <2>3. receiver_buffer' \in [Clients -> Seq(Word)] /\ missed' \in [Clients -> Nat] BY <2>1, <2>2
  <2>4. /\ fd' = [h \in Clients |-> fd'[h]] /\ accepted_sockfd' = [h \in Clients |-> accepted_sockfd'[h]]
    BY <2>1
  <2> QED BY <2>1, <2>2, <2>3, <2>4
<1>9. CASE broadcast_end(c)
  <2>1. /\ thread' = [thread EXCEPT ![c] = IF is_quit(receiver_buffer[c]) THEN "shutdown" ELSE "recv"]
        /\ position' = 0 /\ q_lock' = NULL /\ broadcast_buffer' = <<>>
        /\ receiver_buffer' = [receiver_buffer EXCEPT ![c] = <<>>]
        /\ UNCHANGED <<tcpVars, mainVars, accepted_sockfd_q, accepted_sockfd, missed>>
    BY <1>9 DEF broadcast_end
  <2>2. <<>> \in Seq(Word) OBVIOUS
  <2>3. receiver_buffer' \in [Clients -> Seq(Word)] BY <2>1, <2>2
  <2> QED BY <2>1, <2>2, <2>3
<1>10. CASE server_shutdown(c)
  BY <1>10 DEF server_shutdown
<1>11. CASE server_close(c)
  BY <1>11 DEF server_close
<1>12. CASE server_delete(c)
  <2>1. remaining(c) \in Seq(Clients) BY RemainingEntries DEF Inv
  <2> QED BY <1>12, <2>1 DEF server_delete
<1> QED BY <1>1, <1>2, <1>3, <1>4, <1>5, <1>6, <1>7, <1>8, <1>9, <1>10, <1>11, <1>12 DEF ServerStep, ServerThreadStep

\* Steps of a client leave the variables well typed.
LEMMA ClientTypeStep ==
  ASSUME TypeOK, NEW c \in Clients, ClientStep(c), UNCHANGED serverVars
  PROVE  TypeOK'
<1>a. username[c] \in Names BY DEF TypeOK
<1>b. /\ build_message(username[c]) \in Seq(Word) /\ build_join(username[c]) \in Seq(Word)
      /\ build_quit(username[c]) \in Seq(Word)
  BY <1>a, BuiltWords
<1> USE DEF TypeOK, serverVars, mainVars, localVars, broadcastVars, tcpVars, flags, input, Exit, Sends, Onward, Signalled, QuitSeen, Awaited, WakeupTest, Disconnected
<1>1. CASE client_connect(c)
  BY <1>b, <1>1 DEF client_connect
<1>2. ASSUME NEW k \in Cuts(toClient[c]), client_recv(c, k) PROVE TypeOK'
  <2> DEFINE parsed == parse_transmission(Taken(toClient[c], k))
             joined == parsed.type = "HELO" /\ parsed.username = <<username[c]>>
  <2>1. CASE QuitSeen(c) \/ parsed.valid
    <3>1. /\ toClient' = [toClient EXCEPT ![c] = Left(toClient[c], k)]
          /\ client_main' = [client_main EXCEPT ![c] = IF quit_necessary[c] THEN "join" ELSE @]
          /\ join_acknowledged' = [join_acknowledged EXCEPT ![c] = @ \/ (joined /\ ~QuitSeen(c))]
          /\ client_sender' = IF joined /\ ~QuitSeen(c) THEN Signalled(c) ELSE client_sender
          /\ UNCHANGED <<toServer, clientEnd, serverEnd, quit_necessary, input>>
      BY <1>2, <2>1 DEF client_recv
    <3> HIDE DEF parsed, joined
    <3>2. Left(toClient[c], k) \in Seq(Word) BY <1>2, CutWords
    <3>3. toClient' \in [Clients -> Seq(Word)] BY <3>1, <3>2
    <3>4. join_acknowledged' \in [Clients -> BOOLEAN] BY <3>1
    <3>5. client_sender' \in [Clients -> {"start", "wait", "asleep", "fgets", "send", "returned", "ended"}]
      BY <3>1
    <3>6. client_main' \in [Clients -> {"start", "recv", "signal", "join", "ended"}] BY <3>1
    <3>7. UNCHANGED <<toServer, clientEnd, serverEnd, quit_necessary, input>> BY <3>1
    <3> QED BY <3>3, <3>4, <3>5, <3>6, <3>7
  <2>2. CASE ~ (QuitSeen(c) \/ parsed.valid)
    <3>1. Exit(c) BY <1>2, <2>2 DEF client_recv
    <3> HIDE DEF parsed, joined
    <3> QED BY <3>1
  <2> QED BY <2>1, <2>2
<1>3. CASE client_recv_end(c)
  BY <1>3 DEF client_recv_end
<1>4. CASE client_recv_error(c)
  BY <1>4 DEF client_recv_error
<1>5. CASE client_signal(c)
  BY <1>5 DEF client_signal
<1>6. CASE client_join(c)
  BY SMTT(30), <1>6 DEF client_join
<1>7. CASE client_send(c)
  BY <1>7 DEF client_send
<1>8. CASE client_send_fails(c)
  BY <1>8 DEF client_send_fails
<1>9. CASE client_wait(c)
  BY <1>9 DEF client_wait
<1>10. CASE client_wakeup(c)
  BY <1>10 DEF client_wakeup
<1>11. CASE fgets_line(c)
  BY <1>b, <1>11 DEF fgets_line
<1>12. CASE fgets_eof(c)
  BY <1>b, <1>12 DEF fgets_eof
<1> QED BY <1>1, <1>2, <1>3, <1>4, <1>5, <1>6, <1>7, <1>8, <1>9, <1>10, <1>11, <1>12 DEF ClientStep, ClientMainStep, ClientSenderStep

\* The server does not forget that it has accepted a client, and names stay.
LEMMA HeardGrows ==
  ASSUME TypeOK, NEW c \in Clients,
         (ServerStep(c) /\ UNCHANGED clientVars) \/ (ClientStep(c) /\ UNCHANGED serverVars)
  PROVE  /\ username' = username
         /\ \A h \in Clients : serverEnd[h] # "none" => serverEnd'[h] # "none"
         /\ Heard \subseteq Heard'
<1>1. username' = username
  <2>1. CASE UNCHANGED clientVars BY <2>1 DEF clientVars, input
  <2>2. CASE ClientStep(c)
    BY <2>2 DEF ClientStep, ClientMainStep, ClientSenderStep, client_connect, client_recv, client_recv_end,
       client_recv_error, client_signal, client_join, client_send, client_send_fails, client_wait,
       client_wakeup, fgets_line, fgets_eof, Exit, input
  <2> QED BY <2>1, <2>2
<1>2. ASSUME NEW h \in Clients, serverEnd[h] # "none" PROVE serverEnd'[h] # "none"
  <2>1. CASE ClientStep(c)
    <3>1. UNCHANGED serverEnd
      BY <2>1 DEF ClientStep, ClientMainStep, ClientSenderStep, client_connect, client_recv, client_recv_end,
         client_recv_error, client_signal, client_join, client_send, client_send_fails, client_wait,
         client_wakeup, fgets_line, fgets_eof, Exit, tcpVars
    <3> QED BY <1>2, <3>1
  <2>2. CASE ServerStep(c)
    <3> USE <1>2, <2>2 DEF TypeOK, tcpVars
    <3>1. CASE accept(c) \/ accept_enq(c) BY <3>1 DEF accept, accept_enq
    <3>2. CASE server_receiver(c) \/ server_recv_end(c)
      BY <3>2 DEF server_receiver, server_recv_end
    <3>3. ASSUME NEW b \in Holders(accepted_sockfd[c]), NEW k \in Cuts(toServer[b]), server_recv(c, b, k)
          PROVE  serverEnd'[h] # "none"
      BY <3>3 DEF server_recv
    <3>4. CASE broadcast(c) \/ broadcast_callback(c) \/ broadcast_sigpipe(c)
      BY <3>4 DEF broadcast, broadcast_callback, broadcast_sigpipe
    <3>5. CASE broadcast_end(c) BY <3>5 DEF broadcast_end
    <3>6. CASE server_shutdown(c) \/ server_close(c) \/ server_delete(c)
      BY <3>6 DEF server_shutdown, server_close, server_delete, SetEnd
    <3> QED BY <3>1, <3>2, <3>3, <3>4, <3>5, <3>6 DEF ServerStep, ServerThreadStep
  <2> QED BY <2>1, <2>2
<1> QED BY <1>1, <1>2 DEF Heard

\* Steps of the server keep entries and threads together.
LEMMA ServerEntryStep ==
  ASSUME Inv, NEW c \in Clients, ServerStep(c), UNCHANGED clientVars, NEW h \in Clients
  PROVE  EntryInv(h)'
<1>0. /\ EntryInv(h) /\ EntryInv(c)
      /\ serverEnd = [b \in Clients |-> serverEnd[b]] /\ thread = [b \in Clients |-> thread[b]]
      /\ fd = [b \in Clients |-> fd[b]] /\ accepted_sockfd = [b \in Clients |-> accepted_sockfd[b]]
      /\ accepted_sockfd_q \in Seq(Clients) /\ Clients \cap {"accept", "killed"} = {}
  BY TcpAssumption DEF Inv, TypeOK
<1> USE <1>0 DEF EntryInv, Queued, tcpVars, mainVars, localVars, broadcastVars, Goes, SetEnd, LockFree, Unlocked
<1>1. CASE accept(c)
  BY <1>1 DEF accept
<1>2. CASE accept_enq(c)
  BY <1>2 DEF accept_enq
<1>3. CASE server_receiver(c)
  <2>1. PICK d \in ReadableFrom(c) : accepted_sockfd' = [accepted_sockfd EXCEPT ![c] = d]
    BY <1>3 DEF server_receiver
  <2>2. Queued(c) => d = fd[c] BY DEF ReadableFrom
  <2>3. /\ thread[c] = "created" /\ thread' = [thread EXCEPT ![c] = "recv"]
        /\ UNCHANGED <<serverEnd, server_main, fd, accepted_sockfd_q>>
    BY <1>3 DEF server_receiver
  <2> QED BY <2>1, <2>2, <2>3
<1>4. ASSUME NEW b \in Holders(accepted_sockfd[c]), NEW k \in Cuts(toServer[b]), server_recv(c, b, k) PROVE EntryInv(h)'
  BY <1>4 DEF server_recv
<1>5. CASE server_recv_end(c)
  BY <1>5 DEF server_recv_end
<1>6. CASE broadcast(c)
  BY <1>6 DEF broadcast
<1>7. CASE broadcast_callback(c)
  BY <1>7 DEF broadcast_callback
<1>8. CASE broadcast_sigpipe(c)
  BY <1>8 DEF broadcast_sigpipe
<1>9. CASE broadcast_end(c)
  BY <1>9 DEF broadcast_end
<1>10. CASE server_shutdown(c)
  BY <1>10 DEF server_shutdown
<1>11. CASE server_close(c)
  BY <1>11 DEF server_close
<1>12. CASE server_delete(c)
  <2>1. \A k \in DOMAIN remaining(c) :
           Queued(remaining(c)[k]) /\ fd[remaining(c)[k]] # accepted_sockfd[c]
    BY RemainingEntries DEF Inv
  <2>2. Queued(h)' => Queued(h) /\ fd[h] # accepted_sockfd[c]
    <3>1. accepted_sockfd_q' = remaining(c) BY <1>12 DEF server_delete
    <3> SUFFICES ASSUME Queued(h)' PROVE Queued(h) /\ fd[h] # accepted_sockfd[c] OBVIOUS
    <3>2. PICK k \in DOMAIN remaining(c) : remaining(c)[k] = h BY <3>1
    <3> HIDE DEF Queued
    <3> QED BY <2>1, <3>2
  <2>3. /\ thread[c] = "delete" /\ thread' = [thread EXCEPT ![c] = "ended"]
        /\ UNCHANGED <<serverEnd, server_main, fd, accepted_sockfd>>
    BY <1>12 DEF server_delete
  <2>4. ~ Queued(c)' \/ h # c BY <2>2, <2>3
  <2> HIDE DEF Queued
  <2> QED BY <2>2, <2>3, <2>4
<1> QED BY <1>1, <1>2, <1>3, <1>4, <1>5, <1>6, <1>7, <1>8, <1>9, <1>10, <1>11, <1>12 DEF ServerStep, ServerThreadStep

\* Steps of the server keep what queued clients have heard.
LEMMA ServerHearsStep ==
  ASSUME Inv, NEW c \in Clients, ServerStep(c), UNCHANGED clientVars, NEW h \in Clients
  PROVE  HearsInv(h)'
<1>0. /\ HearsInv(h) /\ EntryInv(h) /\ EntryInv(c)
      /\ serverEnd = [b \in Clients |-> serverEnd[b]] /\ missed = [b \in Clients |-> missed[b]]
      /\ \A b \in Clients : missed[b] \in Nat
      /\ fd = [b \in Clients |-> fd[b]]
      /\ accepted_sockfd_q \in Seq(Clients) /\ position \in Nat
      /\ q_lock \in Clients \cup {NULL} /\ NULL \notin Clients
  BY TcpAssumption DEF Inv, TypeOK
<1> USE <1>0 DEF HearsInv, Queued, tcpVars, mainVars, localVars, broadcastVars, Goes, SetEnd, LockFree, Unlocked
<1>1. CASE accept(c)
  BY <1>1 DEF accept, EntryInv
<1>2. CASE accept_enq(c)
  BY <1>2 DEF accept_enq
<1>3. CASE server_receiver(c)
  BY <1>3 DEF server_receiver
<1>4. ASSUME NEW b \in Holders(accepted_sockfd[c]), NEW k \in Cuts(toServer[b]), server_recv(c, b, k) PROVE HearsInv(h)'
  BY <1>4 DEF server_recv
<1>5. CASE server_recv_end(c)
  BY <1>5 DEF server_recv_end
<1>6. CASE broadcast(c)
  BY <1>6 DEF broadcast
<1>7. CASE broadcast_callback(c)
  <2> DEFINE holders == Holders(fd[accepted_sockfd_q[position + 1]])
  <2>1. /\ position' = position + 1
        /\ missed'[h] = IF h \in holders /\ missed[h] > 0 THEN missed[h] - 1 ELSE missed[h]
        /\ UNCHANGED <<serverEnd, accepted_sockfd_q, q_lock>>
    BY <1>7 DEF broadcast_callback
  <2> SUFFICES ASSUME NEW k \in DOMAIN accepted_sockfd_q, accepted_sockfd_q[k] = h, serverEnd[h] = "open"
               PROVE  missed'[h] = 0 \/ (q_lock # NULL /\ k > position + 1 /\ missed'[h] = 1)
    BY <2>1
  <2>2. missed[h] = 0 \/ (q_lock # NULL /\ k > position /\ missed[h] = 1)
    BY <1>0 DEF HearsInv
  <2>3. k = position + 1 => h \in holders BY DEF Holders, HoldsDescriptor
  <2>4. k \in Nat /\ position \in Nat /\ missed[h] \in Nat BY <1>0
  <2>5. missed'[h] = IF h \in holders /\ missed[h] > 0 THEN missed[h] - 1 ELSE missed[h] BY <2>1
  <2> HIDE DEF holders
  <2>6. CASE missed[h] = 0 BY <2>5, <2>6
  <2>7. CASE q_lock # NULL /\ k > position /\ missed[h] = 1
    <3>1. CASE h \in holders BY <2>5, <2>7, <3>1
    <3>2. CASE h \notin holders
      <4>1. missed'[h] = 1 BY <2>5, <2>7, <3>2
      <4>2. k > position + 1 BY <2>3, <2>4, <2>7, <3>2
      <4> QED BY <2>7, <4>1, <4>2
    <3> QED BY <3>1, <3>2
  <2> QED BY <2>2, <2>6, <2>7
<1>8. CASE broadcast_sigpipe(c)
  BY <1>8 DEF broadcast_sigpipe
<1>9. CASE broadcast_end(c)
  BY <1>9 DEF broadcast_end
<1>10. CASE server_shutdown(c)
  BY <1>10 DEF server_shutdown
<1>11. CASE server_close(c)
  BY <1>11 DEF server_close
<1>12. CASE server_delete(c)
  <2>1. \A k \in DOMAIN remaining(c) : Queued(remaining(c)[k])
    BY RemainingEntries DEF Inv
  <2>2. Queued(h)' => Queued(h)
    <3>1. accepted_sockfd_q' = remaining(c) BY <1>12 DEF server_delete
    <3> QED BY <2>1, <3>1
  <2>3. q_lock = NULL /\ UNCHANGED <<serverEnd, missed>> BY <1>12 DEF server_delete
  <2>4. Queued(h) /\ serverEnd[h] = "open" => missed[h] = 0 BY <2>3
  <2> QED BY <2>2, <2>3, <2>4
<1> QED BY <1>1, <1>2, <1>3, <1>4, <1>5, <1>6, <1>7, <1>8, <1>9, <1>10, <1>11, <1>12 DEF ServerStep, ServerThreadStep

\* Steps of a client keep its flags and its sender together.
LEMMA ClientJoinStep ==
  ASSUME Inv, NEW c \in Clients, ClientStep(c), UNCHANGED serverVars, NEW h \in Clients
  PROVE  JoinInv(h)'
<1>0. /\ JoinInv(h) /\ JoinInv(c)
      /\ client_sender = [b \in Clients |-> client_sender[b]]
      /\ join_acknowledged = [b \in Clients |-> join_acknowledged[b]]
      /\ quit_necessary = [b \in Clients |-> quit_necessary[b]]
      /\ username' = username
      /\ \A b \in Clients : serverEnd[b] # "none" => serverEnd'[b] # "none"
  BY HeardGrows DEF Inv, TypeOK
<1> USE <1>0 DEF JoinInv, serverVars, mainVars, localVars, broadcastVars, tcpVars, flags, input, Exit, Sends, Onward, Signalled, QuitSeen, Awaited, WakeupTest, Disconnected
<1>1. CASE client_connect(c)
  BY <1>1 DEF client_connect
<1>2. ASSUME NEW k \in Cuts(toClient[c]), client_recv(c, k) PROVE JoinInv(h)'
  <2> DEFINE parsed == parse_transmission(Taken(toClient[c], k))
             joined == parsed.type = "HELO" /\ parsed.username = <<username[c]>>
  <2>1. joined => \E b \in Clients : username[b] = username[c] /\ serverEnd[b] # "none"
    <3>1. Taken(toClient[c], k) \in Seq(Heard) BY <1>2, CutWords DEF Inv, WordsInv
    <3>2. joined => username[c] \in Heard BY <3>1, UsernameIsHeard
    <3>3. username[c] \notin Plain BY NamesAssumption DEF Plain, Inv, TypeOK
    <3> QED BY <3>2, <3>3 DEF Heard
  <2>2. CASE QuitSeen(c) \/ parsed.valid
    <3>1. /\ join_acknowledged' = [join_acknowledged EXCEPT ![c] = @ \/ (joined /\ ~QuitSeen(c))]
          /\ client_sender' = IF joined /\ ~QuitSeen(c) THEN Signalled(c) ELSE client_sender
      BY <1>2, <2>2 DEF client_recv
    <3> HIDE DEF parsed, joined
    <3> QED BY <2>1, <3>1
  <2>3. CASE ~ (QuitSeen(c) \/ parsed.valid)
    <3>1. Exit(c) BY <1>2, <2>3 DEF client_recv
    <3> HIDE DEF parsed, joined
    <3> QED BY <3>1
  <2> QED BY <2>2, <2>3
<1>3. CASE client_recv_end(c)
  BY <1>3 DEF client_recv_end
<1>4. CASE client_recv_error(c)
  BY <1>4 DEF client_recv_error
<1>5. CASE client_signal(c)
  BY <1>5 DEF client_signal
<1>6. CASE client_join(c)
  BY <1>6 DEF client_join
<1>7. CASE client_send(c)
  BY <1>7 DEF client_send
<1>8. CASE client_send_fails(c)
  BY <1>8 DEF client_send_fails
<1>9. CASE client_wait(c)
  BY <1>9 DEF client_wait
<1>10. CASE client_wakeup(c)
  BY <1>10 DEF client_wakeup
<1>11. CASE fgets_line(c)
  BY <1>11 DEF fgets_line
<1>12. CASE fgets_eof(c)
  BY <1>12 DEF fgets_eof
<1> QED BY <1>1, <1>2, <1>3, <1>4, <1>5, <1>6, <1>7, <1>8, <1>9, <1>10, <1>11, <1>12 DEF ClientStep, ClientMainStep, ClientSenderStep

\* Steps of the server pass words on, and no other ones.
LEMMA ServerWordsStep ==
  ASSUME Inv, NEW c \in Clients, ServerStep(c), UNCHANGED clientVars, NEW h \in Clients
  PROVE  WordsInv(h)' /\ (broadcast_buffer \in Seq(Heard))'
<1>0. /\ WordsInv(h) /\ WordsInv(c) /\ broadcast_buffer \in Seq(Heard)
      /\ toServer = [b \in Clients |-> toServer[b]] /\ toClient = [b \in Clients |-> toClient[b]]
      /\ receiver_buffer = [b \in Clients |-> receiver_buffer[b]]
      /\ sender_buffer = [b \in Clients |-> sender_buffer[b]]
  BY DEF Inv, TypeOK
<1>a. /\ Seq(Heard) \subseteq Seq(Heard')
      /\ \A text \in Seq(Heard) : text \in Seq(Heard')
  BY HeardGrows, SeqMonotonic DEF Inv
<1>b. <<>> \in Seq(Heard') /\ <<>> \in Seq(Plain \cup {username[h]}) /\ username' = username
  BY HeardGrows DEF Inv
<1> USE <1>0, <1>a, <1>b DEF WordsInv, clientVars, flags, input, tcpVars, mainVars, localVars, broadcastVars, Goes, SetEnd, LockFree, Unlocked
<1>1. CASE accept(c)
  BY <1>1 DEF accept
<1>2. CASE accept_enq(c)
  BY <1>2 DEF accept_enq
<1>3. CASE server_receiver(c)
  BY <1>3 DEF server_receiver
<1>4. ASSUME NEW b \in Holders(accepted_sockfd[c]), NEW k \in Cuts(toServer[b]), server_recv(c, b, k) PROVE WordsInv(h)' /\ (broadcast_buffer \in Seq(Heard))'
  <2>1. b \in Clients /\ serverEnd[b] # "none" BY DEF Holders, HoldsDescriptor
  <2>2. toServer[b] \in Seq(Plain \cup {username[b]}) BY <2>1 DEF Inv
  <2>3. username[b] \in Heard BY <2>1 DEF Heard, Inv, TypeOK
  <2>4. Plain \cup {username[b]} \subseteq Heard BY <2>3 DEF Heard
  <2>5. Seq(Plain \cup {username[b]}) \subseteq Seq(Heard) BY <2>4, SeqMonotonic
  <2>6. /\ Taken(toServer[b], k) \in Seq(Plain \cup {username[b]})
        /\ Left(toServer[b], k) \in Seq(Plain \cup {username[b]})
    BY <1>4, <2>2, CutWords
  <2>7. /\ toServer' = [toServer EXCEPT ![b] = Left(toServer[b], k)]
        /\ receiver_buffer' = [receiver_buffer EXCEPT ![c] = Taken(toServer[b], k)]
        /\ UNCHANGED <<toClient, broadcast_buffer, sender_buffer, username>>
    BY <1>4 DEF server_recv
  <2>8. toServer'[h] \in Seq(Plain \cup {username[h]}) BY <2>1, <2>6, <2>7
  <2>9. receiver_buffer'[h] \in Seq(Heard') BY <2>5, <2>6, <2>7
  <2> QED BY <2>7, <2>8, <2>9
<1>5. CASE server_recv_end(c)
  BY <1>5 DEF server_recv_end
<1>6. CASE broadcast(c)
  BY <1>6 DEF broadcast
<1>7. CASE broadcast_callback(c)
  <2>1. /\ toClient'[h] \in {toClient[h], toClient[h] \o broadcast_buffer}
        /\ UNCHANGED <<toServer, receiver_buffer, broadcast_buffer>>
    BY <1>7 DEF broadcast_callback
  <2>2. toClient[h] \o broadcast_buffer \in Seq(Heard) BY <1>0
  <2>3. toClient'[h] \in Seq(Heard) BY <2>1, <2>2
  <2> QED BY <2>1, <2>3
<1>8. CASE broadcast_sigpipe(c)
  BY <1>8 DEF broadcast_sigpipe
<1>9. CASE broadcast_end(c)
  BY <1>9 DEF broadcast_end
<1>10. CASE server_shutdown(c)
  BY <1>10 DEF server_shutdown
<1>11. CASE server_close(c)
  BY <1>11 DEF server_close
<1>12. CASE server_delete(c)
  BY <1>12 DEF server_delete
<1> QED BY <1>1, <1>2, <1>3, <1>4, <1>5, <1>6, <1>7, <1>8, <1>9, <1>10, <1>11, <1>12 DEF ServerStep, ServerThreadStep

\* Steps of a client send words of its own and take others.
LEMMA ClientWordsStep ==
  ASSUME Inv, NEW c \in Clients, ClientStep(c), UNCHANGED serverVars, NEW h \in Clients
  PROVE  WordsInv(h)' /\ (broadcast_buffer \in Seq(Heard))'
<1>0. /\ WordsInv(h) /\ WordsInv(c) /\ broadcast_buffer \in Seq(Heard)
      /\ toServer = [b \in Clients |-> toServer[b]] /\ toClient = [b \in Clients |-> toClient[b]]
      /\ receiver_buffer = [b \in Clients |-> receiver_buffer[b]]
      /\ sender_buffer = [b \in Clients |-> sender_buffer[b]]
      /\ username[c] \in Names
  BY DEF Inv, TypeOK
<1>a. /\ Seq(Heard) \subseteq Seq(Heard')
      /\ \A text \in Seq(Heard) : text \in Seq(Heard')
  BY HeardGrows, SeqMonotonic DEF Inv
<1>b. <<>> \in Seq(Heard') /\ <<>> \in Seq(Plain \cup {username[h]}) /\ username' = username
  BY HeardGrows DEF Inv
<1> USE <1>0, <1>a, <1>b DEF WordsInv, serverVars, mainVars, localVars, broadcastVars, tcpVars, flags, input, Exit, Sends, Onward, Signalled, QuitSeen, Awaited, WakeupTest, Disconnected
<1>1. CASE client_connect(c)
  BY <1>0, <1>1, BuiltWords DEF client_connect
<1>2. ASSUME NEW k \in Cuts(toClient[c]), client_recv(c, k) PROVE WordsInv(h)' /\ (broadcast_buffer \in Seq(Heard))'
  <2>1. /\ UNCHANGED <<toServer, receiver_buffer, broadcast_buffer>>
        /\ toClient' = toClient \/ toClient' = [toClient EXCEPT ![c] = Left(toClient[c], k)]
        /\ sender_buffer'[h] \in {sender_buffer[h], <<>>}
    <3> HIDE DEF WordsInv
    <3>1. CASE QuitSeen(c) \/ parse_transmission(Taken(toClient[c], k)).valid
      BY <1>2, <3>1 DEF client_recv
    <3>2. CASE ~(QuitSeen(c) \/ parse_transmission(Taken(toClient[c], k)).valid)
      <4>1. Exit(c) BY <1>2, <3>2 DEF client_recv
      <4> QED BY <4>1
    <3> QED BY <3>1, <3>2
  <2>2. Left(toClient[c], k) \in Seq(Heard)
    BY <1>2, CutWords
  <2>3. toClient'[h] \in Seq(Heard) BY <2>1, <2>2
  <2> QED BY <2>1, <2>3
<1>3. CASE client_recv_end(c)
  BY <1>3 DEF client_recv_end
<1>4. CASE client_recv_error(c)
  BY <1>4 DEF client_recv_error
<1>5. CASE client_signal(c)
  BY <1>5 DEF client_signal
<1>6. CASE client_join(c)
  BY <1>6 DEF client_join
<1>7. CASE client_send(c)
  BY <1>7 DEF client_send
<1>8. CASE client_send_fails(c)
  BY <1>8 DEF client_send_fails
<1>9. CASE client_wait(c)
  BY <1>9 DEF client_wait
<1>10. CASE client_wakeup(c)
  BY <1>10 DEF client_wakeup
<1>11. CASE fgets_line(c)
  BY <1>11, BuiltWords DEF fgets_line
<1>12. CASE fgets_eof(c)
  BY <1>12, BuiltWords DEF fgets_eof
<1> QED BY <1>1, <1>2, <1>3, <1>4, <1>5, <1>6, <1>7, <1>8, <1>9, <1>10, <1>11, <1>12 DEF ClientStep, ClientMainStep, ClientSenderStep

\* Steps of the server keep the flags of the clients.
LEMMA ServerJoinStep ==
  ASSUME Inv, NEW c \in Clients, ServerStep(c), UNCHANGED clientVars, NEW h \in Clients
  PROVE  JoinInv(h)'
<1>1. JoinInv(h) BY DEF Inv
<1>2. username' = username /\ \A b \in Clients : serverEnd[b] # "none" => serverEnd'[b] # "none"
  BY HeardGrows DEF Inv
<1> QED BY <1>1, <1>2 DEF JoinInv, clientVars, flags

\* Steps of a client leave the server's entries alone.
LEMMA ClientEntryStep ==
  ASSUME Inv, NEW c \in Clients, ClientStep(c), UNCHANGED serverVars, NEW h \in Clients
  PROVE  EntryInv(h)' /\ HearsInv(h)'
<1>1. UNCHANGED serverEnd
  BY DEF ClientStep, ClientMainStep, ClientSenderStep, client_connect, client_recv, client_recv_end,
     client_recv_error, client_signal, client_join, client_send, client_send_fails, client_wait,
     client_wakeup, fgets_line, fgets_eof, Exit, tcpVars
<1> QED BY <1>1 DEF Inv, EntryInv, HearsInv, Queued, serverVars, mainVars, localVars, broadcastVars

\* Nobody has connected and nothing was sent: Inv holds initially.
LEMMA InvInit == Init => Inv
<1> SUFFICES ASSUME Init PROVE Inv OBVIOUS
<1> USE DEF Init, TcpInit, ServerInit, ClientInit
<1>1. \A S : <<>> \in Seq(S) OBVIOUS
<1>2. TypeOK BY <1>1, NamesAssumption DEF TypeOK
<1>3. broadcast_buffer \in Seq(Heard) BY <1>1
<1>4. ASSUME NEW c \in Clients PROVE EntryInv(c) /\ WordsInv(c) /\ HearsInv(c) /\ JoinInv(c)
  <2>1. EntryInv(c) BY TcpAssumption DEF EntryInv, Queued
  <2>2. WordsInv(c) BY <1>1 DEF WordsInv
  <2>3. HearsInv(c) BY DEF HearsInv
  <2>4. JoinInv(c) BY DEF JoinInv
  <2> QED BY <2>1, <2>2, <2>3, <2>4
<1> QED BY <1>2, <1>3, <1>4 DEF Inv

\* A thread of the server, a client or TCP keeps every part of Inv.
LEMMA InvStep == Inv /\ [Next]_vars => Inv'
<1> SUFFICES ASSUME Inv, [Next]_vars PROVE Inv' OBVIOUS
<1>1. ASSUME NEW c \in Clients, ServerStep(c), UNCHANGED clientVars PROVE Inv'
  <2>1. TypeOK' BY <1>1, ServerTypeStep DEF Inv
  <2>2. ASSUME NEW h \in Clients
        PROVE  (EntryInv(h) /\ WordsInv(h) /\ HearsInv(h) /\ JoinInv(h))' /\ (broadcast_buffer \in Seq(Heard))'
    BY <1>1, ServerEntryStep, ServerWordsStep, ServerHearsStep, ServerJoinStep
  <2> QED BY <1>1, <2>1, <2>2 DEF Inv
<1>2. ASSUME NEW c \in Clients, ClientStep(c), UNCHANGED serverVars PROVE Inv'
  <2>1. TypeOK' BY <1>2, ClientTypeStep DEF Inv
  <2>2. ASSUME NEW h \in Clients
        PROVE  (EntryInv(h) /\ WordsInv(h) /\ HearsInv(h) /\ JoinInv(h))' /\ (broadcast_buffer \in Seq(Heard))'
    BY <1>2, ClientEntryStep, ClientWordsStep, ClientJoinStep
  <2> QED BY <1>2, <2>1, <2>2 DEF Inv
<1>3. CASE UNCHANGED vars
  <2> USE <1>3 DEF vars, tcpVars, serverVars, clientVars, mainVars, localVars, broadcastVars, flags, input
  <2>1. TypeOK' BY DEF Inv, TypeOK
  <2>2. Heard' = Heard BY DEF Heard
  <2>3. ASSUME NEW h \in Clients PROVE (EntryInv(h) /\ WordsInv(h) /\ HearsInv(h) /\ JoinInv(h))'
    BY <2>2 DEF Inv, EntryInv, WordsInv, HearsInv, JoinInv, Queued
  <2> QED BY <2>1, <2>2, <2>3 DEF Inv
<1> QED BY <1>1, <1>2, <1>3 DEF Next

\* The reachable states of the chat room satisfy Inv.
THEOREM ChatInv == Spec => []Inv
<1> QED BY InvInit, InvStep, PTL DEF Spec

-------------------------------------------------------------------------------
(* The properties of Chat. *)

\* Every broadcast goes to every client that is queued and connected, whatever
\* entries are added, deleted or given a reused descriptor between two of them.
THEOREM ChatQueuedHearAll == Spec => []QueuedHearAll
<1>1. Inv => QueuedHearAll
  BY DEF Inv, TypeOK, HearsInv, QueuedHearAll
<1> QED BY <1>1, ChatInv, PTL

\* Whoever is queued has a thread of its own that still has to delete the number of
\* the entry, whatever other threads do with the same number.
THEOREM ChatStaleEntriesGo == Spec => []StaleEntriesGo
<1>1. Inv => StaleEntriesGo BY DEF Inv, EntryInv, StaleEntriesGo
<1> QED BY <1>1, ChatInv, PTL

\* client_sender() asks the user for a line after main() has received a HELO of the
\* client's name, for any names, equal ones included: the server has accepted a
\* client of that name before.
THEOREM ChatTalksOnlyWhenJoined == Spec => []TalksOnlyWhenJoined
<1>1. Inv => TalksOnlyWhenJoined BY DEF Inv, JoinInv, TalksOnlyWhenJoined
<1> QED BY <1>1, ChatInv, PTL

=============================================================================
