--------------------------- MODULE VirtanExchange ---------------------------
(***************************************************************************)
(* What one connection_handler of client-c++-virtan/client.cc does once it *)
(* is connected: a timer sends a message whenever it expires, replies are  *)
(* read and compared, and the first thing that goes wrong retires the      *)
(* connection.  All handlers of a connection run in one thread, so each is *)
(* one action; which of the ready ones runs next is up to the service.     *)
(*                                                                         *)
(* External: boost's composed operations and an echo server.  async_write  *)
(* is a chain of write_some operations; the socket keeps those of all      *)
(* outstanding writes in one queue, and the rest of a short write goes to  *)
(* its end.  The server sends back what it gets, in order, so the bytes    *)
(* under way are one queue from the client to itself.  All messages of a   *)
(* connection are the same send_buf: a byte is its position in send_buf.   *)
(***************************************************************************)
EXTENDS Integers, Sequences

CONSTANTS
  MsgLen,    \* 32, the length of a message
  CmpLen,    \* where snprintf ends the digits with a NUL, and strncmp stops
  PathCap,   \* bytes the path to the server and back can hold
  MaxMsgs    \* bound: messages a connection sends

ASSUME ExchangeAssumption ==
  /\ MsgLen \in Nat \ {0} /\ CmpLen \in 1..MsgLen
  /\ PathCap \in Nat \ {0} /\ MaxMsgs \in Nat

VARIABLES
  started,  \* connect has called read_staff and send_staff
  errored,  \* the flag of the handler
  cause,    \* what set it: "none", "send", "read", "mismatch" or "late"
  exchange_errors, msgs,   \* this connection's share of the counters
  waits,    \* outstanding waits on exch_tmr
  aborted,  \* a wait was cancelled: its handler gets an error
  sent,     \* messages handed to async_write
  tqueue,   \* the timers of the messages without a reply, by message number
  wq,       \* the socket's queue of write_some operations: position to go on from
  ready,    \* completed write_some operations whose handler has not run
  split,    \* some write was short
  wire,     \* bytes written and not yet read back
  reading,  \* an async_read is outstanding
  read_buf, \* what it has got
  rst       \* the connection has failed

reply == <<wire, reading, read_buf>>
write == <<wq, ready, split>>
count == <<exchange_errors, msgs>>
vars  == <<started, errored, cause, count, waits, aborted, sent, tqueue, write, reply, rst>>

send_buf == [i \in 1..MsgLen |-> i]
Room     == PathCap - Len(wire)
Least(a, b) == IF a <= b THEN a ELSE b

-----------------------------------------------------------------------------
Init ==
  /\ started = FALSE
  /\ errored = FALSE /\ cause = "none"
  /\ exchange_errors = 0 /\ msgs = 0
  /\ waits = 0 /\ aborted = FALSE
  /\ sent = 0 /\ tqueue = <<>>
  /\ wq = <<>> /\ ready = <<>> /\ split = FALSE
  /\ wire = <<>> /\ reading = FALSE /\ read_buf = <<>>
  /\ rst = FALSE

Error(what) ==
  /\ errored' = TRUE
  /\ cause' = what
  /\ exchange_errors' = exchange_errors + 1

\* expires_from_now cancels the waits outstanding on exch_tmr, w of them, and
\* async_wait starts a new one.
Rearm(w) ==
  /\ waits' = 1
  /\ aborted' = (aborted \/ w > 0)

\* Mutant of SendMessage: the newest timer comes first.
SendMessage_Newest(w) ==
  /\ Rearm(w)
  /\ tqueue' = <<sent + 1>> \o tqueue
  /\ wq' = Append(wq, 1)
  /\ sent' = sent + 1

\* send_staff, errored not being set.
SendMessage(w) ==
  /\ Rearm(w)
  /\ tqueue' = Append(tqueue, sent + 1)
  /\ wq' = Append(wq, 1)
  /\ sent' = sent + 1

\* The end of connect: read_staff, then send_staff.
connect ==
  /\ ~started /\ MaxMsgs > 0
  /\ started' = TRUE
  /\ reading' = TRUE /\ read_buf' = <<>>
  /\ SendMessage(0)
  /\ UNCHANGED <<errored, cause, count, ready, split, wire, rst>>

\* The timer expires and send_staff runs; on a connection that is errored the
\* timer is not set again.
send_staff ==
  /\ waits > 0
  /\ \/ errored /\ waits' = waits - 1 /\ UNCHANGED <<aborted, sent, tqueue, wq>>
     \/ ~errored /\ sent < MaxMsgs /\ SendMessage(waits - 1)
  /\ UNCHANGED <<started, errored, cause, count, ready, split, reply, rst>>

-----------------------------------------------------------------------------
(* The writes.                                                             *)

\* External: the first operation of the queue writes what fits, or fails.
WriteSome ==
  /\ wq # <<>>
  /\ LET from == Head(wq)
         k    == Least(MsgLen - from + 1, Room)
     IN  \/ /\ rst
            /\ ready' = Append(ready, 0)
            /\ UNCHANGED <<split, wire>>
         \/ /\ ~rst /\ k > 0
            /\ wire' = wire \o SubSeq(send_buf, from, from + k - 1)
            /\ ready' = Append(ready, from + k)
            /\ split' = (split \/ from + k <= MsgLen)
  /\ wq' = Tail(wq)
  /\ UNCHANGED <<started, errored, cause, count, waits, aborted, sent, tqueue, reading, read_buf, rst>>

\* External: the handler of a short write_some queues the rest of the message.
WriteRest ==
  /\ ready # <<>> /\ Head(ready) \in 1..MsgLen
  /\ wq' = Append(wq, Head(ready))
  /\ ready' = Tail(ready)
  /\ UNCHANGED <<started, errored, cause, count, waits, aborted, sent, tqueue, split, reply, rst>>

\* Mutant of stub: an error is counted though the connection is errored.
stub_CountsAgain ==
  /\ ready # <<>> /\ Head(ready) \notin 1..MsgLen
  /\ ready' = Tail(ready)
  /\ IF Head(ready) = 0 THEN Error("send") ELSE UNCHANGED <<errored, cause, exchange_errors>>
  /\ UNCHANGED <<started, msgs, waits, aborted, sent, tqueue, wq, split, reply, rst>>

\* A write is complete, or has failed.
stub ==
  /\ ready # <<>> /\ Head(ready) \notin 1..MsgLen
  /\ ready' = Tail(ready)
  /\ IF ~errored /\ Head(ready) = 0
       THEN Error("send")
       ELSE UNCHANGED <<errored, cause, exchange_errors>>
  /\ UNCHANGED <<started, msgs, waits, aborted, sent, tqueue, wq, split, reply, rst>>

-----------------------------------------------------------------------------
(* The replies.                                                            *)

\* External: the async_read takes the next byte that has come back.
ReadSome ==
  /\ reading /\ wire # <<>> /\ Len(read_buf) < MsgLen
  /\ read_buf' = Append(read_buf, Head(wire))
  /\ wire' = Tail(wire)
  /\ UNCHANGED <<started, errored, cause, count, waits, aborted, sent, tqueue, write, reading, rst>>

\* Mutant of Accepted: the next read is not started.
Accepted_NoRead ==
  /\ tqueue' = Tail(tqueue)
  /\ msgs' = msgs + 1
  /\ reading' = FALSE /\ read_buf' = <<>>
  /\ UNCHANGED <<errored, cause, exchange_errors, waits, aborted, wq, sent>>

\* The reply is right and in time: read_staff starts the next read.
Accepted ==
  /\ tqueue' = Tail(tqueue)
  /\ msgs' = msgs + 1
  /\ read_buf' = <<>>
  /\ UNCHANGED <<errored, cause, exchange_errors, reading, waits, aborted, wq, sent>>

Rejected(what) ==
  /\ Error(what)
  /\ reading' = FALSE
  /\ UNCHANGED <<msgs, read_buf, waits, aborted, wq, sent>>

\* Mutant of Whole: async_read_some, which completes with what there is.
Whole_Some == read_buf # <<>>

Whole == Len(read_buf) = MsgLen
Match == Len(read_buf) = MsgLen /\ \A i \in 1..CmpLen : read_buf[i] = send_buf[i]

\* The read has completed or failed.  The reply took more or less time than
\* client_timeout_mcs.
compare_staff ==
  /\ reading /\ (Whole \/ rst)
  /\ \/ /\ errored
        /\ reading' = FALSE
        /\ UNCHANGED <<errored, cause, count, tqueue, read_buf, waits, aborted, wq, sent>>
     \/ ~errored /\ ~Whole /\ Rejected("read") /\ UNCHANGED tqueue
     \/ ~errored /\ Whole /\ ~Match /\ Rejected("mismatch") /\ UNCHANGED tqueue
     \/ /\ ~errored /\ Whole /\ Match /\ tqueue # <<>>
        /\ \/ Rejected("late") /\ tqueue' = Tail(tqueue)
           \/ Accepted
  /\ UNCHANGED <<started, ready, split, wire, rst>>

ConnectionFails ==
  /\ ~rst
  /\ rst' = TRUE
  /\ UNCHANGED <<started, errored, cause, count, waits, aborted, sent, tqueue, write, reply>>

Next ==
  \/ connect \/ send_staff
  \/ WriteSome \/ WriteRest \/ stub
  \/ ReadSome \/ compare_staff
  \/ ConnectionFails

Spec == Init /\ [][Next]_vars

\* The service runs every ready handler and the server answers; the connection
\* need never fail.
FairSpec ==
  /\ Spec
  /\ WF_vars(connect) /\ WF_vars(send_staff)
  /\ WF_vars(WriteSome) /\ WF_vars(WriteRest) /\ WF_vars(stub)
  /\ WF_vars(ReadSome) /\ WF_vars(compare_staff)

-----------------------------------------------------------------------------
TypeOK ==
  /\ {started, errored, aborted, split, reading, rst} \subseteq BOOLEAN
  /\ cause \in {"none", "send", "read", "mismatch", "late"}
  /\ exchange_errors \in Nat /\ msgs \in 0..sent /\ sent \in 0..MaxMsgs
  /\ waits \in 0..1
  /\ tqueue \in Seq(1..MaxMsgs)
  /\ wq \in Seq(1..MsgLen) /\ ready \in Seq(0..(MsgLen + 1))
  /\ wire \in Seq(1..MsgLen) /\ Len(wire) <= PathCap
  /\ read_buf \in Seq(1..MsgLen) /\ Len(read_buf) <= MsgLen

\* The variables keep their types, and a connection adds at most one to
\* exchange_errors, however many of its outstanding writes and reads fail after
\* the first.
OneErrorPerConnection ==
  /\ TypeOK
  /\ exchange_errors = IF errored THEN 1 ELSE 0

\* The timers are what the handlers take them for.  No wait on exch_tmr is ever
\* cancelled, so the assert(!e) of send_staff holds; and when a reply is whole
\* tqueue.front() is there and is the timer of the message answered: the push
\* comes before the reply even when the reply is handled before the write's own
\* handler.
TimersAreRight ==
  /\ ~aborted
  /\ reading /\ Whole /\ ~errored => tqueue # <<>> /\ Head(tqueue) = msgs + 1

\* Against a server that answers faithfully the comparison fails only if some
\* write was short.
MismatchNeedsShortWrite == cause = "mismatch" => split

\* Every message is answered, or the connection is counted as an error.
EveryMessageIsSettled ==
  \A k \in 1..MaxMsgs : sent >= k ~> (msgs >= k \/ errored)

=============================================================================
