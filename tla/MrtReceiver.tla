------------------------------ MODULE MrtReceiver ------------------------------
(***************************************************************************)
(* The MRT receiver module, lab3/mrt_receiver.c.                           *)
(*                                                                         *)
(* main_handler() processes the datagrams, one checker() per connection    *)
(* counts its inactivity, and the application calls mrt_open,              *)
(* mrt_accept1, mrt_receive1 and mrt_close.  All of them synchronise on    *)
(* q_lock alone: an action is one critical section of it.                  *)
(*                                                                         *)
(* A sender_t is an object of the heap, so that two of them can have the   *)
(* same address: SenderIds are the pointers malloc() can return.  The      *)
(* fields of a freed object keep their last value.                         *)
(***************************************************************************)
EXTENDS MrtNetwork

CONSTANTS
  SenderIds,            \* the sender_t objects malloc() can return
  NULL,                 \* no object
  TIMEOUT_THRESHOLD,    \* in CHECKER_PERIODs; 3 in mrt_receiver.c
  ReceiveLens           \* the lengths applications pass to mrt_receive1()

ASSUME ReceiverAssumption ==
  /\ NULL \notin SenderIds
  /\ TIMEOUT_THRESHOLD \in Nat
  /\ ReceiveLens \subseteq Nat \ {0}

VARIABLES
  \* sender_t
  addr,
  buffer,               \* the unread bytes, each its position in the stream
  next_frag,
  idle_time,            \* inactive_time
  timeout_thread,       \* checker_thread
  allocated,            \* the objects malloc()ed and not freed
  \* the globals
  pending_senders_q, connected_senders_q,
  rece_should_close, main_thread,
  \* the application
  accepting,            \* curr_sender of the mrt_accept1() under way
  receiving,            \* the addresses with a mrt_receive1() under way
  receive_ret,          \* what the last mrt_receive1() on an address returned
  delivered,            \* history: the bytes mrt_receive1() handed over
  home                  \* history: the first object connected for an address

objectVars  == <<addr, buffer, next_frag>>
timeoutVars == <<idle_time, timeout_thread>>
queueVars   == <<pending_senders_q, connected_senders_q, allocated>>
callVars    == <<receiving, receive_ret, delivered>>

receiverVars == <<addr, buffer, next_frag, idle_time, timeout_thread, allocated,
                  pending_senders_q, connected_senders_q, rece_should_close,
                  main_thread, accepting, receiving, receive_ret, delivered,
                  home>>

NOT_RETURNED == -2     \* mrt_receive1() has not returned yet

ReceiverTypeOK ==
  /\ addr \in [SenderIds -> Addrs \cup {NULL}]
  /\ buffer \in [SenderIds -> Seq(Nat)]
  /\ next_frag \in [SenderIds -> Int]
  /\ idle_time \in [SenderIds -> Nat]
  /\ timeout_thread \in [SenderIds -> {"none", "run", "cancelled", "done"}]
  /\ allocated \subseteq SenderIds
  /\ pending_senders_q \in Seq(SenderIds)
  /\ connected_senders_q \in Seq(SenderIds)
  /\ rece_should_close \in BOOLEAN
  /\ main_thread \in {"none", "recv", "cleanup", "done"}
  /\ accepting \in SenderIds \cup {NULL}
  /\ receiving \subseteq Addrs
  /\ receive_ret \in [Addrs -> Int]
  /\ delivered \in [Addrs -> Seq(Nat)]
  /\ home \in [Addrs -> SenderIds \cup {NULL}]

ReceiverInit ==
  /\ addr = [s \in SenderIds |-> NULL]
  /\ buffer = [s \in SenderIds |-> <<>>]
  /\ next_frag = [s \in SenderIds |-> 0]
  /\ idle_time = [s \in SenderIds |-> 0]
  /\ timeout_thread = [s \in SenderIds |-> "none"]
  /\ allocated = {}
  /\ pending_senders_q = <<>>
  /\ connected_senders_q = <<>>
  /\ rece_should_close = FALSE
  /\ main_thread = "none"
  /\ accepting = NULL
  /\ receiving = {}
  /\ receive_ret = [a \in Addrs |-> NOT_RETURNED]
  /\ delivered = [a \in Addrs |-> <<>>]
  /\ home = [a \in Addrs |-> NULL]

-------------------------------------------------------------------------------
(* Queue.c: get_item_q(q, sender_matcher, a) returns s, the first match, or NULL *)

MatchAt_Last(q, a, i) ==
  /\ i \in DOMAIN q /\ addr[q[i]] = a
  /\ \A j \in i + 1 .. Len(q) : addr[q[j]] # a

MatchAt(q, a, i) ==
  /\ i \in DOMAIN q /\ addr[q[i]] = a
  /\ \A j \in 1 .. i - 1 : addr[q[j]] # a

Found(q, a, s) == \E i \in DOMAIN q : MatchAt(q, a, i) /\ q[i] = s

Absent(q, a) == \A i \in DOMAIN q : addr[q[i]] # a

enq_q_Fails(q, s) == q

enq_q(q, s) == Append(q, s)

pop_item_q_NotUnlinked(q, i) == q

\* pop_item_q(): the queue without its i-th node.
pop_item_q(q, i) == SubSeq(q, 1, i - 1) \o SubSeq(q, i + 1, Len(q))

\* The two queues exist: they are made in mrt_open() and freed by the cleanup
\* of main_handler().  Before mrt_open() they are NULL, and every lookup fails;
\* after the cleanup a call works on freed memory, which is undefined: a call
\* under way stays where it is, or finds the queue empty and returns.
QueuesExist == main_thread \in {"recv", "cleanup"}

-------------------------------------------------------------------------------
(* mrt_open(), mrt_accept1(), mrt_receive1(), mrt_close() *)

mrt_open ==
  /\ main_thread = "none"
  /\ main_thread' = "recv"
  /\ UNCHANGED <<netVars, objectVars, timeoutVars, queueVars,
                 rece_should_close, accepting, callVars, home>>

\* mrt_accept1(), first critical section.
accept1_deq ==
  /\ QueuesExist /\ accepting = NULL
  /\ pending_senders_q # <<>>
  /\ accepting' = Head(pending_senders_q)
  /\ pending_senders_q' = Tail(pending_senders_q)
  /\ UNCHANGED <<netVars, objectVars, timeoutVars, allocated,
                 connected_senders_q, rece_should_close, main_thread, callVars,
                 home>>

\* mrt_accept1(), second critical section: connect, answer, start checker().
accept1_enq ==
  /\ QueuesExist /\ accepting # NULL
  /\ connected_senders_q' = enq_q(connected_senders_q, accepting)
  /\ toSender' = sendto(toSender,
                        build_acon(addr[accepting], next_frag[accepting] - 1))
  /\ timeout_thread' = [timeout_thread EXCEPT ![accepting] = "run"]
  /\ home' = IF Absent(connected_senders_q, addr[accepting])
             THEN [home EXCEPT ![addr[accepting]] = accepting] ELSE home
  /\ accepting' = NULL
  /\ UNCHANGED <<toReceiver, objectVars, idle_time, allocated,
                 pending_senders_q, rece_should_close, main_thread, callVars>>

receive1_spurious(a) ==
  /\ main_thread # "done" /\ a \notin receiving
  /\ Absent(connected_senders_q, a)
  /\ receive_ret' = [receive_ret EXCEPT ![a] = -1]
  /\ UNCHANGED <<netVars, objectVars, timeoutVars, queueVars, rece_should_close,
                 main_thread, accepting, receiving, delivered, home>>

mrt_receive1(a) ==
  /\ QueuesExist /\ a \notin receiving
  /\ ~Absent(connected_senders_q, a)
  /\ receiving' = receiving \cup {a}
  /\ receive_ret' = [receive_ret EXCEPT ![a] = NOT_RETURNED]
  /\ UNCHANGED <<netVars, objectVars, timeoutVars, queueVars, rece_should_close,
                 main_thread, accepting, delivered, home>>

bytes_read(s, len) == IF len < Len(buffer[s]) THEN len ELSE Len(buffer[s])

bytes_remaining_NotMoved(s, n) == SubSeq(buffer[s], 1, Len(buffer[s]) - n)

\* What is left in the buffer is moved to its beginning.
bytes_remaining(s, n) == SubSeq(buffer[s], n + 1, Len(buffer[s]))

\* One round of the loop of mrt_receive1(): copy, give up, or sleep on.
receive1_data(a, s, len) ==
  /\ QueuesExist /\ a \in receiving
  /\ Found(connected_senders_q, a, s)
  /\ buffer[s] # <<>>
  /\ delivered' = [delivered EXCEPT ![a] =
       @ \o SubSeq(buffer[s], 1, bytes_read(s, len))]
  /\ buffer' = [buffer EXCEPT ![s] = bytes_remaining(s, bytes_read(s, len))]
  /\ receiving' = receiving \ {a}
  /\ receive_ret' = [receive_ret EXCEPT ![a] = bytes_read(s, len)]
  /\ UNCHANGED <<netVars, addr, next_frag, timeoutVars, queueVars,
                 rece_should_close, main_thread, accepting, home>>

receive1_timed_out(a, s) ==
  /\ QueuesExist /\ a \in receiving
  /\ Found(connected_senders_q, a, s)
  /\ buffer[s] = <<>> /\ idle_time[s] > TIMEOUT_THRESHOLD
  /\ receiving' = receiving \ {a}
  /\ receive_ret' = [receive_ret EXCEPT ![a] = 0]
  /\ UNCHANGED <<netVars, objectVars, timeoutVars, queueVars, rece_should_close,
                 main_thread, accepting, delivered, home>>

\* "the sender is NULL now... after not being NULL once..."
receive1_dropped(a) ==
  /\ a \in receiving
  /\ Absent(connected_senders_q, a)
  /\ receiving' = receiving \ {a}
  /\ receive_ret' = [receive_ret EXCEPT ![a] = 0]
  /\ UNCHANGED <<netVars, objectVars, timeoutVars, queueVars, rece_should_close,
                 main_thread, accepting, delivered, home>>

mrt_close ==
  /\ main_thread # "none" /\ ~rece_should_close
  /\ rece_should_close' = TRUE
  /\ UNCHANGED <<netVars, objectVars, timeoutVars, queueVars, main_thread,
                 accepting, callVars, home>>

-------------------------------------------------------------------------------
(* main_handler() *)

\* recvfrom() returned m, and should_close is not set.
MainReceives(m, type) ==
  /\ main_thread = "recv" /\ ~rece_should_close
  /\ m.type = type
  /\ toReceiver' \in recvfrom(toReceiver, m)

\* The close flag is only looked at when a datagram arrives.
MainBreak(m) ==
  /\ main_thread = "recv" /\ rece_should_close
  /\ toReceiver' \in recvfrom(toReceiver, m)
  /\ main_thread' = "cleanup"
  /\ UNCHANGED <<toSender, objectVars, timeoutVars, queueVars,
                 rece_should_close, accepting, callVars, home>>

IsNewSender(a) ==
  Absent(pending_senders_q, a) /\ Absent(connected_senders_q, a)

\* Neither queued nor connected: a new sender, queued until it is accepted.  The
\* bound is SenderIds: malloc() returns one of them, and with none left the RCON
\* stays in the network, as if it were late.
RconNew(m, s) ==
  /\ MainReceives(m, "RCON")
  /\ IsNewSender(m.src)
  /\ s \notin allocated
  /\ allocated' = allocated \cup {s}
  /\ addr' = [addr EXCEPT ![s] = m.src]
  /\ buffer' = [buffer EXCEPT ![s] = <<>>]
  /\ next_frag' = [next_frag EXCEPT ![s] = m.frag + 1]
  /\ idle_time' = [idle_time EXCEPT ![s] = 0]
  /\ timeout_thread' = [timeout_thread EXCEPT ![s] = "none"]
  /\ pending_senders_q' = enq_q(pending_senders_q, s)
  /\ UNCHANGED <<toSender, connected_senders_q, rece_should_close, main_thread,
                 accepting, callVars, home>>

duplicate_acon_None(m) == toSender

\* "if it is already connected, send a (duplicate) ACON"
duplicate_acon(m) == sendto(toSender, build_acon(m.src, m.frag))

RconConnected(m) ==
  /\ MainReceives(m, "RCON")
  /\ Absent(pending_senders_q, m.src) /\ ~Absent(connected_senders_q, m.src)
  /\ toSender' = duplicate_acon(m)
  /\ UNCHANGED receiverVars

RconPending(m) ==
  /\ MainReceives(m, "RCON")
  /\ ~Absent(pending_senders_q, m.src)
  /\ UNCHANGED <<toSender, receiverVars>>

curr_window_size(s) == RECEIVER_MAX_WINDOW_SIZE - Len(buffer[s])

Accepts_AnyNewer(s, m) == curr_window_size(s) >= m.len /\ next_frag[s] <= m.frag

Accepts_NoWindow(s, m) == next_frag[s] = m.frag

\* "if there is enough free space AND it is not out of order"
Accepts(s, m) == curr_window_size(s) >= m.len /\ next_frag[s] = m.frag

\* The size is that of the datagram less the header, and -4 for an empty DATA,
\* which is shorter; its fragment number -1 is never the next one.
payload_bytes(m) == [i \in 1 .. m.len |-> m.lo + i]

DataAccept(m, s) ==
  /\ MainReceives(m, "DATA")
  /\ Found(connected_senders_q, m.src, s)
  /\ Accepts(s, m)
  /\ buffer' = [buffer EXCEPT ![s] = @ \o payload_bytes(m)]
  /\ next_frag' = [next_frag EXCEPT ![s] = @ + 1]
  /\ idle_time' = [idle_time EXCEPT ![s] = 0]
  /\ toSender' = sendto(toSender,
       build_adat(m.src, next_frag[s], curr_window_size(s) - m.len))
  /\ UNCHANGED <<addr, timeout_thread, queueVars, rece_should_close,
                 main_thread, accepting, callVars, home>>

adat_frag_Claimed(s, m) == IF m.len > 0 THEN m.frag ELSE next_frag[s] - 1

adat_frag(s, m) == next_frag[s] - 1

\* Out of order, no room, or empty: answered all the same.
DataReject(m, s) ==
  /\ MainReceives(m, "DATA")
  /\ Found(connected_senders_q, m.src, s)
  /\ ~Accepts(s, m)
  /\ idle_time' = [idle_time EXCEPT ![s] = 0]
  /\ toSender' = sendto(toSender,
       build_adat(m.src, adat_frag(s, m), curr_window_size(s)))
  /\ UNCHANGED <<objectVars, timeout_thread, queueVars, rece_should_close,
                 main_thread, accepting, callVars, home>>

DataUnknown(m) ==
  /\ MainReceives(m, "DATA")
  /\ Absent(connected_senders_q, m.src)
  /\ UNCHANGED <<toSender, receiverVars>>

\* checker() is tricked into giving up at its next tick.
RclsConnected(m, s) ==
  /\ MainReceives(m, "RCLS")
  /\ Found(connected_senders_q, m.src, s)
  /\ idle_time' = [idle_time EXCEPT ![s] = TIMEOUT_THRESHOLD]
  /\ toSender' = sendto(toSender, build_acls(m.src))
  /\ UNCHANGED <<objectVars, timeout_thread, queueVars, rece_should_close,
                 main_thread, accepting, callVars, home>>

RclsPending(m, i) ==
  /\ MainReceives(m, "RCLS")
  /\ Absent(connected_senders_q, m.src)
  /\ MatchAt(pending_senders_q, m.src, i)
  /\ pending_senders_q' = pop_item_q(pending_senders_q, i)
  /\ allocated' = allocated \ {pending_senders_q[i]}
  /\ UNCHANGED <<toSender, objectVars, timeoutVars, connected_senders_q,
                 rece_should_close, main_thread, accepting, callVars, home>>

RclsUnknown(m) ==
  /\ MainReceives(m, "RCLS")
  /\ Absent(connected_senders_q, m.src) /\ Absent(pending_senders_q, m.src)
  /\ UNCHANGED <<toSender, receiverVars>>

InQueue(q) == {q[i] : i \in DOMAIN q}

MainCleanup_NotCancelled ==
  /\ main_thread = "cleanup"
  /\ allocated' = (allocated \ InQueue(pending_senders_q))
                    \ InQueue(connected_senders_q)
  /\ pending_senders_q' = <<>> /\ connected_senders_q' = <<>>
  /\ main_thread' = "done"
  /\ UNCHANGED <<netVars, objectVars, timeoutVars, rece_should_close, accepting,
                 callVars, home>>

\* Free every queued object.  pthread_cancel() ends a checker() asleep in
\* usleep(); one that waits for q_lock runs once more when it gets it.
MainCleanup ==
  /\ main_thread = "cleanup"
  /\ \E waiting \in SUBSET {s \in InQueue(connected_senders_q) :
                              timeout_thread[s] = "run"} :
       timeout_thread' = [s \in SenderIds |->
         IF s \in waiting THEN "cancelled"
         ELSE IF s \in InQueue(connected_senders_q) THEN "done"
         ELSE timeout_thread[s]]
  /\ allocated' = (allocated \ InQueue(pending_senders_q))
                    \ InQueue(connected_senders_q)
  /\ pending_senders_q' = <<>> /\ connected_senders_q' = <<>>
  /\ main_thread' = "done"
  /\ UNCHANGED <<netVars, objectVars, idle_time, rece_should_close, accepting,
                 callVars, home>>

-------------------------------------------------------------------------------
(* checker() *)

TimeoutTick(s) ==
  /\ timeout_thread[s] = "run"
  /\ idle_time' = [idle_time EXCEPT ![s] = @ + 1]
  /\ timeout_thread' = [timeout_thread EXCEPT ![s] =
       IF idle_time[s] + 1 > TIMEOUT_THRESHOLD THEN "done" ELSE @]
  /\ UNCHANGED <<netVars, objectVars, queueVars, rece_should_close, main_thread,
                 accepting, callVars, home>>

\* The last round of a cancelled checker(): it writes to an object that
\* main_handler() has already freed.
CancelledTick(s) ==
  /\ timeout_thread[s] = "cancelled"
  /\ idle_time' = [idle_time EXCEPT ![s] = @ + 1]
  /\ timeout_thread' = [timeout_thread EXCEPT ![s] = "done"]
  /\ UNCHANGED <<netVars, objectVars, queueVars, rece_should_close, main_thread,
                 accepting, callVars, home>>

-------------------------------------------------------------------------------

ReceiverAppStep ==
  \/ mrt_open \/ accept1_deq \/ accept1_enq \/ mrt_close
  \/ \E a \in Addrs :
       \/ receive1_spurious(a) \/ mrt_receive1(a) \/ receive1_dropped(a)
       \/ \E s \in SenderIds :
            \/ \E len \in ReceiveLens : receive1_data(a, s, len)
            \/ receive1_timed_out(a, s)

MainHandlerStep ==
  \/ \E m \in toReceiver :
       \/ MainBreak(m) \/ RconConnected(m) \/ RconPending(m)
       \/ DataUnknown(m) \/ RclsUnknown(m)
       \/ \E s \in SenderIds :
            RconNew(m, s) \/ DataAccept(m, s) \/ DataReject(m, s)
              \/ RclsConnected(m, s)
       \/ \E i \in DOMAIN pending_senders_q : RclsPending(m, i)
  \/ MainCleanup

TimeoutStep == \E s \in SenderIds : TimeoutTick(s) \/ CancelledTick(s)

ReceiverStep == ReceiverAppStep \/ MainHandlerStep \/ TimeoutStep
===============================================================================
