----------------------------- MODULE MrtConnections -----------------------------
(***************************************************************************)
(* The mutexes of lab3/mrt_sender.c, and several connections in one        *)
(* process.  MrtSender takes every critical section as one step; here the  *)
(* nested locks are taken one by one, connection_t objects are allocated   *)
(* and freed, and the applications' threads, each with one connection,     *)
(* meet at connections_q.                                                  *)
(*                                                                         *)
(* A section in which no other lock is taken is one step, possible when    *)
(* its lock is free: q_lock, timeout_lock, close_lock and outgoing_lock    *)
(* are taken in such sections only, or innermost.  Lengths are in          *)
(* payloads; the receiver is outside and may answer anything that its      *)
(* window and what it has been sent allow.  No two applications are inside *)
(* connection_t_init() at the same time, since next_id has no lock.        *)
(***************************************************************************)
EXTENDS Integers, Sequences, FiniteSets, SequencesExt

CONSTANTS Apps,                      \* the threads that use the module
          SendsOf,                   \* SendsOf[a]: the lengths that it calls mrt_send() with
          MAX_PAYLOADS_BUFFERABLE,
          CLOSE_TIMEOUT_THRESHOLD,   \* in CLOSE_TIMEOUT_INCREMENTs
          NULL

ASSUME ConnectionsAssumption ==
  /\ SendsOf \in [Apps -> Seq(Nat)]
  /\ MAX_PAYLOADS_BUFFERABLE \in Nat \ {0}
  /\ CLOSE_TIMEOUT_THRESHOLD \in Nat
  /\ NULL \notin Apps \X {"app", "handler", "sender", "checker"}
  /\ NULL \notin Seq(Apps)

VARIABLES
  connections_q,       \* NULL, or the connections queued
  object,              \* of each connection_t: "none", "allocated" or "freed"
  receiver_lock, buffer_lock,      \* the thread that holds it, or NULL
  last_acknowledged_frag,
  buffer,              \* sender_buffer: which payloads of the stream it holds
  last_sent_index,
  inactive_time, should_close,
  app, sends, copied, final_frag,  \* the application: where it is, and mrt_send()'s locals
  handler, frag_holder,            \* (0 when they have no use any more)
  sender, checker,
  written,             \* history: payloads copied so far
  wire,                \* history: the DATA sent, as <<fragment number, payload>>
  orphans              \* history: the connections that had no queue to be put in

queueVars   == <<connections_q, object, orphans>>
lockVars    == <<receiver_lock, buffer_lock>>
dataVars    == <<last_acknowledged_frag, buffer, last_sent_index, written, wire>>
closeVars   == <<inactive_time, should_close>>
appVars     == <<app, sends, copied, final_frag>>
handlerVars == <<handler, frag_holder>>
threadVars  == <<handlerVars, sender, checker>>
vars == <<queueVars, lockVars, dataVars, closeVars, appVars, threadVars>>

Init ==
  /\ connections_q = NULL /\ orphans = {}
  /\ object = [a \in Apps |-> "none"]
  /\ receiver_lock = [a \in Apps |-> NULL] /\ buffer_lock = [a \in Apps |-> NULL]
  /\ last_acknowledged_frag = [a \in Apps |-> -1]
  /\ buffer = [a \in Apps |-> <<>>]
  /\ last_sent_index = [a \in Apps |-> -1]
  /\ inactive_time = [a \in Apps |-> 0] /\ should_close = [a \in Apps |-> FALSE]
  /\ app = [a \in Apps |-> "start"] /\ sends = [a \in Apps |-> 0]
  /\ copied = [a \in Apps |-> 0] /\ final_frag = [a \in Apps |-> 0]
  /\ handler = [a \in Apps |-> "none"] /\ frag_holder = [a \in Apps |-> 0]
  /\ sender = [a \in Apps |-> "none"] /\ checker = [a \in Apps |-> "none"]
  /\ written = [a \in Apps |-> 0] /\ wire = [a \in Apps |-> {}]

last_payload_index(a) == Len(buffer[a]) - 1

InQueue(a) == connections_q # NULL /\ \E k \in DOMAIN connections_q : connections_q[k] = a

\* get_item_q(connections_q, connection_matcher, &id) finds the connection.
Found(a) == InQueue(a)

AppGoes(a, from, to) == app[a] = from /\ app' = [app EXCEPT ![a] = to]

\* A call has looked the connection up under q_lock, or made it, and uses it
\* after that.  In freed memory anything can happen, and the model does not
\* follow the thread any further.
undefined(a) ==
  /\ app[a] \in {"connect", "send_receiver", "send_buffer", "send_final", "send_check", "send_copy",
                 "disc_check", "disc_rcls"}
  /\ object[a] = "freed"
  /\ app' = [app EXCEPT ![a] = "undefined"]
  /\ UNCHANGED <<queueVars, lockVars, dataVars, closeVars, sends, copied, final_frag, threadVars>>

Uses(a, from, to) == object[a] = "allocated" /\ AppGoes(a, from, to)

-------------------------------------------------------------------------------
(* mrt_connect() *)

\* make_q() if there is no queue, under q_lock.
connect_make(a) ==
  /\ \A b \in Apps : app[b] # "enq"
  /\ AppGoes(a, "start", "enq")
  /\ connections_q' = IF connections_q = NULL THEN <<>> ELSE connections_q
  /\ UNCHANGED <<object, orphans, lockVars, dataVars, closeVars, sends, copied, final_frag, threadVars>>

\* connection_t_init(), enq_q() under q_lock, and the thread of handler().  What
\* enq_q() returns is not looked at: it fails when handler() of another
\* connection has deleted the queue in between.
connect_enq(a) ==
  /\ AppGoes(a, "enq", "connect")
  /\ object' = [object EXCEPT ![a] = "allocated"]
  /\ connections_q' = IF connections_q = NULL THEN NULL ELSE Append(connections_q, a)
  /\ orphans' = IF connections_q = NULL THEN orphans \cup {a} ELSE orphans
  /\ handler' = [handler EXCEPT ![a] = "recv"]
  /\ UNCHANGED <<lockVars, dataVars, closeVars, sends, copied, final_frag, frag_holder, sender, checker>>

\* mrt_connect() sends RCON until the ACON has come.
connect_return(a) ==
  /\ Uses(a, "connect", "ready")
  /\ receiver_lock[a] = NULL
  /\ last_acknowledged_frag[a] # -1
  /\ UNCHANGED <<queueVars, lockVars, dataVars, closeVars, sends, copied, final_frag, threadVars>>

-------------------------------------------------------------------------------
(* mrt_send() and mrt_disconnect() *)

\* The length of the call under way.
len(a) == SendsOf[a][sends[a] + 1]

send_lookup(a) ==
  /\ sends[a] < Len(SendsOf[a])
  /\ AppGoes(a, "ready", IF Found(a) THEN "send_receiver" ELSE "done")
  /\ UNCHANGED <<queueVars, lockVars, dataVars, closeVars, sends, copied, final_frag, threadVars>>

send_receiver_lock(a) ==
  /\ Uses(a, "send_receiver", "send_buffer")
  /\ receiver_lock[a] = NULL
  /\ receiver_lock' = [receiver_lock EXCEPT ![a] = <<a, "app">>]
  /\ UNCHANGED <<queueVars, buffer_lock, dataVars, closeVars, sends, copied, final_frag, threadVars>>

send_buffer_lock(a) ==
  /\ Uses(a, "send_buffer", "send_final")
  /\ buffer_lock[a] = NULL
  /\ buffer_lock' = [buffer_lock EXCEPT ![a] = <<a, "app">>]
  /\ UNCHANGED <<queueVars, receiver_lock, dataVars, closeVars, sends, copied, final_frag, threadVars>>

\* final_frag is as many fragments behind the last one buffered as the call sends.
send_final(a) ==
  /\ Uses(a, "send_final", "send_loop")
  /\ final_frag' = [final_frag EXCEPT ![a] = last_payload_index(a) + last_acknowledged_frag[a] + 1 + len(a)]
  /\ receiver_lock' = [receiver_lock EXCEPT ![a] = NULL]
  /\ buffer_lock' = [buffer_lock EXCEPT ![a] = NULL]
  /\ UNCHANGED <<queueVars, dataVars, closeVars, sends, copied, threadVars>>

send_loop(a) ==
  /\ AppGoes(a, "send_loop", IF Found(a) THEN "send_check" ELSE "done")
  /\ UNCHANGED <<queueVars, lockVars, dataVars, closeVars, sends, copied, final_frag, threadVars>>

\* Returns 1 when the final fragment is acknowledged.
send_check(a) ==
  /\ receiver_lock[a] = NULL
  /\ IF last_acknowledged_frag[a] >= final_frag[a]
     THEN /\ Uses(a, "send_check", "ready")
          /\ sends' = [sends EXCEPT ![a] = @ + 1]
          /\ copied' = [copied EXCEPT ![a] = 0] /\ final_frag' = [final_frag EXCEPT ![a] = 0]
     ELSE /\ Uses(a, "send_check", IF copied[a] < len(a) THEN "send_copy" ELSE "send_loop")
          /\ UNCHANGED <<sends, copied, final_frag>>
  /\ UNCHANGED <<queueVars, lockVars, dataVars, closeVars, threadVars>>

send_copy(a) ==
  /\ Uses(a, "send_copy", "send_loop")
  /\ buffer_lock[a] = NULL
  /\ IF Len(buffer[a]) < MAX_PAYLOADS_BUFFERABLE
     THEN /\ buffer' = [buffer EXCEPT ![a] = Append(@, written[a] + 1)]
          /\ written' = [written EXCEPT ![a] = @ + 1]
          /\ copied' = [copied EXCEPT ![a] = @ + 1]
     ELSE UNCHANGED <<buffer, written, copied>>
  /\ UNCHANGED <<queueVars, lockVars, last_acknowledged_frag, last_sent_index, wire, closeVars, sends, final_frag, threadVars>>

disconnect_lookup(a) ==
  /\ \/ AppGoes(a, "ready", IF Found(a) THEN "disc_loop" ELSE "done")
     \/ AppGoes(a, "disc_loop", IF Found(a) THEN "disc_check" ELSE "done")
  /\ UNCHANGED <<queueVars, lockVars, dataVars, closeVars, sends, copied, final_frag, threadVars>>

disconnect_check(a) ==
  /\ Uses(a, "disc_check", IF buffer[a] = <<>> THEN "disc_rcls" ELSE "disc_loop")
  /\ buffer_lock[a] = NULL
  /\ UNCHANGED <<queueVars, lockVars, dataVars, closeVars, sends, copied, final_frag, threadVars>>

\* The RCLS, and the counter goes past the threshold.
disconnect_rcls(a) ==
  /\ Uses(a, "disc_rcls", "done")
  /\ inactive_time' = [inactive_time EXCEPT ![a] = CLOSE_TIMEOUT_THRESHOLD + 1]
  /\ UNCHANGED <<queueVars, lockVars, dataVars, should_close, sends, copied, final_frag, threadVars>>

AppStep(a) ==
  \/ connect_make(a) \/ connect_enq(a) \/ connect_return(a)
  \/ send_lookup(a) \/ send_receiver_lock(a) \/ send_buffer_lock(a) \/ send_final(a)
  \/ send_loop(a) \/ send_check(a) \/ send_copy(a)
  \/ disconnect_lookup(a) \/ disconnect_check(a) \/ disconnect_rcls(a)
  \/ undefined(a)

-------------------------------------------------------------------------------
(* handler() *)

HandlerGoes(a, from, to) == handler[a] = from /\ handler' = [handler EXCEPT ![a] = to]

\* What the receiver can have acknowledged, now or earlier.
Acknowledgable(a) == {k \in 0 .. written[a] : \A j \in 1 .. k : \E w \in wire[a] : w[1] = j}

\* Each of the following begins when recvfrom() has returned and should_close
\* is not set.
Receives(a, to) == ~ should_close[a] /\ HandlerGoes(a, "recv", to)

\* The first ACON starts the other two threads; later ones do nothing.
handler_acon(a) ==
  /\ Receives(a, "recv")
  /\ receiver_lock[a] = NULL
  /\ last_acknowledged_frag[a] = -1
  /\ sender' = [sender EXCEPT ![a] = "top"] /\ checker' = [checker EXCEPT ![a] = "tick"]
  /\ last_acknowledged_frag' = [last_acknowledged_frag EXCEPT ![a] = 0]
  /\ UNCHANGED <<queueVars, lockVars, buffer, last_sent_index, written, wire, closeVars, appVars, frag_holder>>

handler_adat(a) ==
  /\ sender[a] # "none"
  /\ Receives(a, "adat_receiver")
  /\ \E k \in Acknowledgable(a) : frag_holder' = [frag_holder EXCEPT ![a] = k]
  /\ inactive_time' = [inactive_time EXCEPT ![a] = 0]
  /\ UNCHANGED <<queueVars, lockVars, dataVars, should_close, appVars, sender, checker>>

handler_acls(a) ==
  /\ Receives(a, "recv")
  /\ inactive_time' = [inactive_time EXCEPT ![a] = CLOSE_TIMEOUT_THRESHOLD + 1]
  /\ UNCHANGED <<queueVars, lockVars, dataVars, should_close, appVars, frag_holder, sender, checker>>

\* Is the ADAT about something new?
IsNews(frag_difference) == frag_difference > 0

\* "note that we cannot release receiver_lock yet!"
KeptForBuffer_Released(a) == NULL
KeptForBuffer(a) == <<a, "handler">>

\* An acknowledgement of something new goes on to the buffer with the lock held.
handler_ack(a) ==
  /\ receiver_lock[a] = NULL
  /\ LET frag_difference == frag_holder[a] - last_acknowledged_frag[a] IN
     IF IsNews(frag_difference)
     THEN /\ HandlerGoes(a, "adat_receiver", "adat_buffer")
          /\ receiver_lock' = [receiver_lock EXCEPT ![a] = KeptForBuffer(a)]
          /\ last_acknowledged_frag' = [last_acknowledged_frag EXCEPT ![a] = frag_holder[a]]
          /\ frag_holder' = [frag_holder EXCEPT ![a] = frag_difference]
     ELSE /\ HandlerGoes(a, "adat_receiver", "recv")
          /\ frag_holder' = [frag_holder EXCEPT ![a] = 0]
          /\ UNCHANGED <<receiver_lock, last_acknowledged_frag>>
  /\ UNCHANGED <<queueVars, buffer_lock, buffer, last_sent_index, written, wire, closeVars, appVars, sender, checker>>

\* frees the first payloads; frag_holder holds frag_difference.
handler_buffer(a) ==
  /\ HandlerGoes(a, "adat_buffer", "recv")
  /\ buffer_lock[a] = NULL
  /\ buffer' = [buffer EXCEPT ![a] = SubSeq(@, frag_holder[a] + 1, Len(@))]
  /\ frag_holder' = [frag_holder EXCEPT ![a] = 0]
  /\ receiver_lock' = [receiver_lock EXCEPT ![a] = IF @ = <<a, "handler">> THEN NULL ELSE @]
  /\ UNCHANGED <<queueVars, buffer_lock, last_acknowledged_frag, last_sent_index, written, wire,
                 closeVars, appVars, sender, checker>>

handler_break(a) ==
  /\ should_close[a]
  /\ HandlerGoes(a, "recv", "join")
  /\ UNCHANGED <<queueVars, lockVars, dataVars, closeVars, appVars, frag_holder, sender, checker>>

\* pthread_join() of checker_thread, then of sender_thread.
Joined_CheckerOnly(a) == checker[a] = "ended"
Joined(a) == checker[a] = "ended" /\ sender[a] = "ended"

\* What pop_item_q() leaves of the queue.
LeftInQueue_None(a) == <<>>
LeftInQueue(a) ==
  IF connections_q = NULL THEN <<>> ELSE RemoveFirst(connections_q, a)

\* connection_t_free(pop_item_q()), and the queue goes when nothing is left in it.
\* A connection that is not queued is not freed.
handler_cleanup(a) ==
  /\ HandlerGoes(a, "join", "ended")
  /\ Joined(a)
  /\ connections_q' = IF LeftInQueue(a) = <<>> THEN NULL ELSE LeftInQueue(a)
  /\ object' = IF InQueue(a) THEN [object EXCEPT ![a] = "freed"] ELSE object
  /\ UNCHANGED <<orphans, lockVars, dataVars, closeVars, appVars, frag_holder, sender, checker>>

HandlerStep(a) ==
  \/ handler_acon(a) \/ handler_adat(a) \/ handler_ack(a) \/ handler_buffer(a)
  \/ handler_acls(a) \/ handler_break(a) \/ handler_cleanup(a)

-------------------------------------------------------------------------------
(* sender() and checker() *)

SenderGoes(a, from, to) == sender[a] = from /\ sender' = [sender EXCEPT ![a] = to]

sender_top(a) ==
  /\ SenderGoes(a, "top", IF should_close[a] THEN "ended" ELSE "first")
  /\ UNCHANGED <<queueVars, lockVars, dataVars, closeVars, appVars, handlerVars, checker>>

\* The locks in the order in which sender() takes them.
SenderOrder_Reversed == <<"buffer", "receiver">>
SenderOrder == <<"receiver", "buffer">>

TakeLock(lock, a, thread) ==
  IF lock = "receiver"
  THEN /\ receiver_lock[a] = NULL /\ receiver_lock' = [receiver_lock EXCEPT ![a] = <<a, thread>>]
       /\ UNCHANGED buffer_lock
  ELSE /\ buffer_lock[a] = NULL /\ buffer_lock' = [buffer_lock EXCEPT ![a] = <<a, thread>>]
       /\ UNCHANGED receiver_lock

sender_lock(a) ==
  /\ \/ SenderGoes(a, "first", "second") /\ TakeLock(SenderOrder[1], a, "sender")
     \/ SenderGoes(a, "second", "locked") /\ TakeLock(SenderOrder[2], a, "sender")
  /\ UNCHANGED <<queueVars, dataVars, closeVars, appVars, handlerVars, checker>>

SenderUnlocks(a) ==
  /\ receiver_lock' = [receiver_lock EXCEPT ![a] = NULL]
  /\ buffer_lock' = [buffer_lock EXCEPT ![a] = NULL]

sending_frag(a, payload_index) == last_acknowledged_frag[a] + payload_index + 1

\* The next payload, under all three locks, if the receiver's window is open.
sender_data(a) ==
  LET next_payload_index == last_sent_index[a] + 1 IN
  /\ SenderGoes(a, "locked", "top")
  /\ next_payload_index <= last_payload_index(a)
  /\ wire' = [wire EXCEPT ![a] = @ \cup
       {<<sending_frag(a, next_payload_index), buffer[a][next_payload_index + 1]>>}]
  /\ last_sent_index' = [last_sent_index EXCEPT ![a] = next_payload_index]
  /\ SenderUnlocks(a)
  /\ UNCHANGED <<queueVars, last_acknowledged_frag, buffer, written, closeVars, appVars, handlerVars, checker>>

\* An empty DATA: the window is closed, or everything is sent, and after some
\* time sent again.
sender_empty(a) ==
  /\ SenderGoes(a, "locked", "top")
  /\ \/ UNCHANGED last_sent_index
     \/ /\ last_sent_index[a] + 1 > last_payload_index(a)
        /\ last_sent_index' = [last_sent_index EXCEPT ![a] = -1]
  /\ SenderUnlocks(a)
  /\ UNCHANGED <<queueVars, last_acknowledged_frag, buffer, written, wire, closeVars, appVars, handlerVars, checker>>

\* Increments the counter, which nobody else reads, and sets the flag when it is
\* beyond the threshold.
checker_tick(a) ==
  /\ checker[a] = "tick"
  /\ inactive_time' = [inactive_time EXCEPT ![a] = @ + 1]
  /\ IF inactive_time'[a] > CLOSE_TIMEOUT_THRESHOLD
     THEN /\ should_close' = [should_close EXCEPT ![a] = TRUE]
          /\ checker' = [checker EXCEPT ![a] = "ended"]
     ELSE UNCHANGED <<should_close, checker>>
  /\ UNCHANGED <<queueVars, lockVars, dataVars, appVars, handlerVars, sender>>

ThreadStep(a) ==
  \/ HandlerStep(a)
  \/ sender_top(a) \/ sender_lock(a) \/ sender_data(a) \/ sender_empty(a)
  \/ checker_tick(a)

Next == \E a \in Apps : AppStep(a) \/ ThreadStep(a)

Spec == Init /\ [][Next]_vars

-------------------------------------------------------------------------------
(* Safety. *)

Threads == Apps \X {"app", "handler", "sender"}

\* The thread waits for a mutex of its connection.
Waits(t) ==
  LET a == t[1]
      receiver == receiver_lock[a] # NULL
      buffered == buffer_lock[a] # NULL
  IN  CASE t[2] = "app" ->
             \/ receiver /\ app[a] \in {"send_receiver", "send_check"}
             \/ buffered /\ app[a] \in {"send_buffer", "send_copy", "disc_check"}
        [] t[2] = "handler" ->
             \/ receiver /\ handler[a] = "adat_receiver"
             \/ buffered /\ handler[a] = "adat_buffer"
        [] OTHER ->
             LET lock == IF sender[a] = "first" THEN SenderOrder[1] ELSE SenderOrder[2]
             IN  /\ sender[a] \in {"first", "second"}
                 /\ IF lock = "receiver" THEN receiver ELSE buffered

\* receiver_lock, buffer_lock and outgoing_lock are nested in three threads
\* ("DANGEROUS: nested mutex", mrt_sender.c:184).  Whenever one of the locks of
\* a connection is held, a thread that holds one can go on.
NoDeadlock ==
  \A a \in Apps :
    LET holders == {receiver_lock[a], buffer_lock[a]} \ {NULL}
    IN  holders # {} => \E t \in holders : ~ Waits(t)

\* What goes out as fragment n is the n-th payload, however acknowledgements
\* move the buffer under sender().
FragIsPayload == \A a \in Apps : \A w \in wire[a] : w[1] = w[2]

\* mrt_send() waits for the fragment of its own last payload and for no later one,
\* which nobody would ever send.
WaitsForItsOwn ==
  \A a \in Apps :
    app[a] \in {"send_loop", "send_check", "send_copy"} =>
      final_frag[a] = written[a] - copied[a] + len(a)

\* When handler() frees a connection_t, its sender() and checker() have ended,
\* and a connection in the queue can be used by those who find it there.
FreedByTheLast ==
  \A a \in Apps :
    /\ object[a] = "freed" => sender[a] = "ended" /\ checker[a] = "ended" /\ handler[a] = "ended"
    /\ InQueue(a) => object[a] = "allocated"

\* handler() deletes the queue "if the last sender exited (should not affect
\* anything ...)", mrt_sender.c:310.  It does affect a connection that is being
\* made between make_q() and enq_q(); every other one can be found until its own
\* handler() ends it.
FoundUnlessOrphan ==
  \A a \in Apps : handler[a] \notin {"none", "ended"} /\ a \notin orphans => Found(a)

\* mrt_send() and mrt_disconnect() look the connection up in each round of their
\* loops "to ensure the connection is still valid" (mrt_sender.c:199 and :266).  So
\* it should be when they use what they have found, until the next lookup.
AfterLookup == {"send_check", "send_copy", "disc_check", "disc_rcls"}

UsedIsValid == \A a \in Apps : app[a] \in AfterLookup => object[a] # "freed"
===============================================================================
