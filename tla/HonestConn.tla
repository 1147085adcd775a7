----------------------------- MODULE HonestConn -----------------------------
(***************************************************************************)
(* One connection of the buffering libev echo servers of c-bachan, from    *)
(* accept to close: server-honest.c (one loop) and thread-honest.c (one    *)
(* loop per core).  The two files share every line of the connection's     *)
(* code except what a recv of zero bytes does; file says which it is.      *)
(*                                                                         *)
(* The callbacks of one connection run in one loop, one after the other,   *)
(* so each callback is one action.  The peer and the kernel move between   *)
(* them, also between the poll that found a watcher ready and the call of  *)
(* its callback.  A byte of the stream is its position in the stream.      *)
(***************************************************************************)
EXTENDS EchoSocket

CONSTANTS
  ToSendSize,    \* TO_SEND_SIZE, the capacity of to_send
  LowWater,      \* the room (32) below which wcb_recv compacts the buffer
  TimeoutTicks,  \* SOCKET_TIMEOUT, in clock ticks
  MemcpyOrders   \* the orders in which the C library's memcpy may copy

ASSUME SizeAssumption ==
  /\ ToSendSize \in Nat \ {0}
  /\ LowWater \in Nat \ {0}
  /\ TimeoutTicks \in Nat \ {0}

ASSUME ChoiceAssumption ==
  /\ MemcpyOrders \subseteq {"forward", "backward"}
  /\ MemcpyOrders # {}

VARIABLES
  file,         \* which of the two programs runs
  state,        \* "queued", "open", "closed" or "leaked": the echo_client_t
  active,       \* the watchers libev has started, of recv, send and timeout
  pending,      \* the watchers whose callback the current iteration owes
  to_send,      \* the array
  to_send_beg,  \* offset in it of the first byte not yet sent
  to_send_size, \* number of bytes not yet sent
  age           \* ticks since wev_timeout was last (re)started

client == <<to_send, to_send_beg, to_send_size>>
server == <<file, state, active, pending, client, age>>
vars   == <<server, socket>>

Files    == {"server-honest.c", "thread-honest.c"}
Watchers == {"recv", "send", "timeout"}
Cells    == 0..(ToSendSize - 1)

Slice(b, g, n) == [i \in 1..n |-> b[g + i - 1]]

-----------------------------------------------------------------------------
(* The life of the echo_client_t.                                          *)

Init ==
  /\ file \in Files
  /\ state = "queued"
  /\ active = {} /\ pending = {}
  /\ to_send = [k \in Cells |-> 0]
  /\ to_send_beg = 0 /\ to_send_size = 0
  /\ age = 0
  /\ SocketInit

\* Mutant of echo_client_add: the timer is initialised and never started.
echo_client_add_NoTimer ==
  /\ state = "queued"
  /\ state' = "open"
  /\ active' = {"recv"}
  /\ age' = 0
  /\ to_send_beg' = 0 /\ to_send_size' = 0
  /\ UNCHANGED <<file, pending, to_send, socket>>

\* malloc may fail: the caller ignores the result and the descriptor stays
\* open with no watcher on it.
echo_client_add ==
  /\ state = "queued"
  /\ \/ /\ state' = "open"
        /\ active' = {"timeout", "recv"}
        /\ age' = 0
        /\ to_send_beg' = 0 /\ to_send_size' = 0
        /\ UNCHANGED <<pending, to_send>>
     \/ /\ state' = "leaked"
        /\ UNCHANGED <<active, pending, client, age>>
  /\ UNCHANGED <<file, socket>>

\* Mutant of echo_client_del: wev_send is left started.
echo_client_del_KeepsSend ==
  /\ state' = "closed"
  /\ active' = active \intersect {"send"}
  /\ pending' = pending \intersect {"send"}

\* Stopping a watcher also withdraws the callback an iteration owes it.
echo_client_del ==
  /\ state' = "closed"
  /\ active' = {}
  /\ pending' = {}

-----------------------------------------------------------------------------
(* The callbacks.                                                          *)

echo_client_wcb_timeout ==
  /\ "timeout" \in pending
  /\ echo_client_del
  /\ UNCHANGED <<file, client, age, socket>>

\* What send may return for n bytes when it does not fail.
SendResults(n) == IF n = 0 THEN {0} ELSE 1..Least(n, Free)

echo_client_wcb_send ==
  /\ "send" \in pending
  /\ \/ /\ rst
        /\ echo_client_del
        /\ UNCHANGED <<client, out>>
     \/ /\ ~rst /\ to_send_size > 0 /\ Free = 0            \* EAGAIN
        /\ pending' = pending \ {"send"}
        /\ UNCHANGED <<state, active, client, out>>
     \/ /\ ~rst
        /\ \E sent_nb \in SendResults(to_send_size) :
             /\ out' = out \o Slice(to_send, to_send_beg, sent_nb)
             /\ to_send_beg' = to_send_beg + sent_nb
             /\ to_send_size' = to_send_size - sent_nb
        /\ active' = IF to_send_size' > 0 THEN active ELSE active \ {"send"}
        /\ pending' = pending \ {"send"}
        /\ UNCHANGED <<state, to_send>>
  /\ UNCHANGED <<file, age, peer, rcvd>>

\* memcpy(c->to_send, c->to_send_beg, c->to_send_size).  The regions overlap
\* when g < n and the call is then undefined: an ascending copy still moves
\* the bytes, a descending one reads cells it has already overwritten.
Memcpy(order, b, g, n) ==
  LET hops(k) == (n - k + g - 1) \div g
      from(k) == IF order = "forward" \/ g = 0 THEN g + k ELSE k + hops(k) * g
  IN  [k \in Cells |-> IF k < n THEN b[from(k)] ELSE b[k]]

\* Mutants: the room is computed from the start of the array; the bytes owed
\* stay where they are though to_send_beg is reset.
RemSize_FromStart == ToSendSize - to_send_size
Kept_NotMoved(order) == to_send

\* Room is made when fewer than LowWater cells are left behind the bytes owed:
\* they move to the front.  KeptBeg and Room are to_send_beg and rem_size after.
RemSize     == ToSendSize - (to_send_beg + to_send_size)
Compacts    == RemSize < LowWater
Kept(order) == IF Compacts THEN Memcpy(order, to_send, to_send_beg, to_send_size)
                           ELSE to_send
KeptBeg     == IF Compacts THEN 0 ELSE to_send_beg
Room        == IF Compacts THEN ToSendSize - to_send_size ELSE RemSize

\* The rest of wcb_recv once to_send holds n bytes at g: one attempt to send.
SendFails ==
  /\ rst
  /\ echo_client_del
  /\ UNCHANGED <<client, out>>

\* Mutant of SendEagain: wev_send is not started.
SendEagain_NoStart(b, g, n) ==
  /\ ~rst /\ Free = 0
  /\ to_send' = b /\ to_send_beg' = g /\ to_send_size' = n
  /\ pending' = pending \ {"recv"}
  /\ UNCHANGED <<state, active, out>>

SendEagain(b, g, n) ==
  /\ ~rst /\ Free = 0
  /\ to_send' = b /\ to_send_beg' = g /\ to_send_size' = n
  /\ active' = active \union {"send"}
  /\ pending' = pending \ {"recv"}
  /\ UNCHANGED <<state, out>>

\* Mutant of StartIfOwed: wev_send is not started after a partial send.
StartIfOwed_Never == active' = active

StartIfOwed == active' = IF to_send_size' > 0 THEN active \union {"send"} ELSE active

SendSome(b, g, n) ==
  /\ ~rst
  /\ \E sent_nb \in SendResults(n) :
       /\ out' = out \o Slice(b, g, sent_nb)
       /\ to_send' = b
       /\ to_send_beg' = g + sent_nb
       /\ to_send_size' = n - sent_nb
  /\ StartIfOwed
  /\ pending' = pending \ {"recv"}
  /\ UNCHANGED state

SendNow(b, g, n) == SendFails \/ SendEagain(b, g, n) \/ SendSome(b, g, n)

\* Mutant of RecvEagain: EAGAIN is taken for a failure.
RecvEagain_Deletes(b) ==
  /\ Available = 0 /\ ~fin /\ ~rst
  /\ echo_client_del
  /\ UNCHANGED <<client, age, rcvd, out>>

RecvEagain(b) ==
  /\ Available = 0 /\ ~fin /\ ~rst
  /\ age' = 0                                              \* ev_timer_again
  /\ pending' = pending \ {"recv", "timeout"}
  /\ to_send' = b /\ to_send_beg' = KeptBeg
  /\ UNCHANGED <<state, active, to_send_size, rcvd, out>>

RecvFails ==
  /\ rst
  /\ echo_client_del
  /\ UNCHANGED <<client, age, rcvd, out>>

\* A recv of zero bytes: the peer has closed, or there was no room to receive
\* into.  server-honest.c deletes the client, thread-honest.c just returns.
RecvZero ==
  /\ Least(Available, Room) = 0 /\ (Available > 0 \/ fin)
  /\ UNCHANGED <<age, rcvd, out>>

RecvZeroServer ==
  /\ file = "server-honest.c"
  /\ RecvZero
  /\ echo_client_del
  /\ UNCHANGED client

RecvZeroThread(b) ==
  /\ file = "thread-honest.c"
  /\ RecvZero
  /\ pending' = pending \ {"recv"}
  /\ to_send' = b /\ to_send_beg' = KeptBeg
  /\ UNCHANGED <<state, active, to_send_size>>

\* recv puts the next nb bytes of the stream behind the bytes owed.
Received(b, nb) ==
  LET end == KeptBeg + to_send_size
  IN  [k \in Cells |-> IF k \in end..(end + nb - 1) THEN rcvd + 1 + (k - end) ELSE b[k]]

RecvData(b) ==
  LET nb == Least(Available, Room)
  IN  /\ nb > 0
      /\ rcvd' = rcvd + nb
      /\ SendNow(Received(b, nb), KeptBeg, to_send_size + nb)
      /\ UNCHANGED age

echo_client_wcb_recv ==
  /\ "recv" \in pending
  /\ \/ RecvFails
     \/ RecvZeroServer
     \/ \E order \in MemcpyOrders :
          \/ RecvEagain(Kept(order))
          \/ RecvZeroThread(Kept(order))
          \/ RecvData(Kept(order))
  /\ UNCHANGED <<file, peer>>

-----------------------------------------------------------------------------
(* The loop: ev_run polls when no callback is owed, level-triggered.  The  *)
(* poll may also report a socket readable that is not (the EAGAIN the      *)
(* callback provides for).                                                 *)

Ready ==
  {w \in active : \/ w = "recv" /\ Readable
                  \/ w = "send" /\ (Free > 0 \/ rst)
                  \/ w = "timeout" /\ age = TimeoutTicks}

Poll ==
  /\ state = "open" /\ pending = {}
  /\ Ready # {}
  /\ pending' = Ready
  /\ UNCHANGED <<file, state, active, client, age, socket>>

SpuriousPoll ==
  /\ state = "open" /\ pending = {}
  /\ "recv" \in active \ Ready
  /\ pending' = Ready \union {"recv"}
  /\ UNCHANGED <<file, state, active, client, age, socket>>

Tick ==
  /\ "timeout" \in active
  /\ age < TimeoutTicks
  /\ age' = age + 1
  /\ UNCHANGED <<file, state, active, pending, client, socket>>

\* The peer and the kernel move; once the server has closed, the peer may still
\* read what was sent.
Peer ==
  /\ \/ state # "closed" /\ (PeerSends \/ PeerCloses \/ ConnectionFails)
     \/ PeerReads
  /\ UNCHANGED server

Next ==
  \/ echo_client_add
  \/ echo_client_wcb_timeout
  \/ echo_client_wcb_send
  \/ echo_client_wcb_recv
  \/ Poll
  \/ SpuriousPoll
  \/ Tick
  \/ Peer

Spec == Init /\ [][Next]_vars

\* The loop keeps turning and calls what it owes, the accept callback included;
\* the peer reads what it is sent.  Nothing is assumed of the clock.
LoopFairness ==
  /\ WF_vars(echo_client_add)
  /\ WF_vars(Poll)
  /\ WF_vars(echo_client_wcb_timeout)
  /\ WF_vars(echo_client_wcb_send)
  /\ WF_vars(echo_client_wcb_recv)
  /\ WF_vars(PeerReads /\ UNCHANGED server)

FairSpec == Spec /\ LoopFairness

-----------------------------------------------------------------------------
TypeOK ==
  /\ file \in Files
  /\ state \in {"queued", "open", "closed", "leaked"}
  /\ active \subseteq Watchers /\ pending \subseteq active
  /\ to_send \in [Cells -> Nat]
  /\ to_send_beg \in Nat /\ to_send_size \in Nat
  /\ age \in 0..TimeoutTicks
  /\ SocketType

\* The array is never overrun: what wcb_recv keeps and what the next recv may
\* add end inside to_send, across any mixture of partial sends, compactions
\* and full buffers.
BufferBounds == to_send_beg + to_send_size <= ToSendSize

\* An open connection that owes bytes has its write watcher started: no path
\* through wcb_recv or wcb_send leaves bytes behind with nobody to send them.
OwedBytesAreWatched ==
  state = "open" /\ to_send_size > 0 => "send" \in active

\* The variables keep their types, and a callback is never owed to a freed
\* echo_client_t, even when wcb_recv deletes the client in an iteration that
\* also owes wcb_send or wcb_timeout.
NoUseAfterFree ==
  TypeOK /\ (state = "closed" => active = {} /\ pending = {})

\* The server gives up a connection only when it failed, when wev_timeout
\* ran out, or (server-honest.c) when the peer closed it.
DropsOnlyForCause ==
  [][state = "open" /\ state' = "closed" =>
       rst \/ age = TimeoutTicks \/ (file = "server-honest.c" /\ fin)]_vars

\* As DropsOnlyForCause, allowing for the case that wcb_recv of server-honest.c
\* found the array full and asked recv for zero bytes; thread-honest.c drops a
\* connection for a failure or a timeout alone.
DropsForCauseOrFull ==
  [][state = "open" /\ state' = "closed" =>
       rst \/ age = TimeoutTicks
           \/ (file = "server-honest.c" /\ (fin \/ to_send_size = ToSendSize))]_vars

\* Every byte that arrives on a connection is sent back, unless the
\* connection is closed or was never set up.
EveryByteIsEchoed ==
  \A k \in 1..MaxBytes :
    arrived >= k ~> (Len(out) >= k \/ state \in {"closed", "leaked"})

\* If the clock does not stop, a connection whose peer has closed is reclaimed
\* in the end, in thread-honest.c by the timeout alone.
ClosedPeerIsReclaimed ==
  WF_vars(Tick) => ((state = "open" /\ fin) ~> state = "closed")

\* The connection implements the echo channel.
Channel == INSTANCE EchoChannel WITH recvd <- rcvd, open <- state # "closed"
ImplementsEchoChannel == Channel!Spec

=============================================================================
