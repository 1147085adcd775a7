----------------------------- MODULE PlainConn -----------------------------
(***************************************************************************)
(* One connection of the unbuffered libev echo servers of c-bachan,        *)
(* server.c (one loop) and thread.c (one loop per core): the code of the   *)
(* connection is the same in both.  A recv is answered by one send from    *)
(* the same stack buffer; what that send does not take is gone.            *)
(*                                                                         *)
(* As in HonestConn a callback is one action, the peer and the kernel move *)
(* between them, and a byte of the stream is its position in the stream.   *)
(* Both watchers of a connection (wev_recv, wev_timeout) are started in    *)
(* echo_client_add and stopped in echo_client_del, so they are active      *)
(* exactly while the connection is open.                                   *)
(***************************************************************************)
EXTENDS EchoSocket

CONSTANTS
  BufSize,       \* the 4096 bytes of buf
  TimeoutTicks   \* SOCKET_TIMEOUT, in clock ticks

ASSUME PlainAssumption ==
  BufSize \in Nat \ {0} /\ TimeoutTicks \in Nat \ {0}

VARIABLES
  state,    \* "queued", "open", "closed" or "leaked": the echo_client_t
  pending,  \* the watchers whose callback the current iteration owes
  age,      \* ticks since wev_timeout was last (re)started
  idle      \* ticks since the connection was set up or last answered

server == <<state, pending, age, idle>>
vars   == <<server, socket>>

-----------------------------------------------------------------------------
Init ==
  /\ state = "queued" /\ pending = {}
  /\ age = 0 /\ idle = 0
  /\ SocketInit

\* malloc may fail: the caller ignores the result and the descriptor stays
\* open with no watcher on it.
echo_client_add ==
  /\ state = "queued"
  /\ state' \in {"open", "leaked"}
  /\ age' = 0 /\ idle' = 0
  /\ UNCHANGED <<pending, socket>>

\* Mutant of echo_client_del: the pending callbacks are not withdrawn.
echo_client_del_KeepsPending ==
  /\ state' = "closed"
  /\ UNCHANGED pending

echo_client_del ==
  /\ state' = "closed"
  /\ pending' = {}

echo_client_wcb_timeout ==
  /\ "timeout" \in pending
  /\ echo_client_del
  /\ UNCHANGED <<age, idle, socket>>

\* ev_timer_again also withdraws a timeout that is already due.
Rearm ==
  /\ age' = 0
  /\ pending' = pending \ {"recv", "timeout"}

RecvEagain ==
  /\ Available = 0 /\ ~fin /\ ~rst
  /\ Rearm
  /\ UNCHANGED <<state, idle, rcvd, out>>

RecvFails ==
  /\ rst
  /\ echo_client_del
  /\ UNCHANGED <<age, idle, rcvd, out>>

RecvDone ==
  /\ Available = 0 /\ fin
  /\ echo_client_del
  /\ UNCHANGED <<age, idle, rcvd, out>>

\* recv has brought Nb bytes; send takes those that fit.
Nb   == Least(Available, BufSize)
Sent == [i \in 1..Least(Nb, Free) |-> rcvd + i]

Answer(taken, bytes) ==
  /\ Nb > 0 /\ ~rst /\ Free > 0
  /\ rcvd' = rcvd + taken
  /\ out' = out \o bytes
  /\ idle' = 0
  /\ UNCHANGED state

\* Mutants of EchoOnce: the timer is not restarted; the last byte is not sent;
\* buf is static and another connection has filled it.
EchoOnce_NoRearm ==
  /\ Answer(Nb, Sent)
  /\ pending' = pending \ {"recv"}
  /\ UNCHANGED age
EchoOnce_LastByte  == Answer(Nb, SubSeq(Sent, 1, Nb - 1)) /\ Rearm
EchoOnce_SharedBuf == Answer(Nb, [i \in 1..Len(Sent) |-> 0]) /\ Rearm

\* The count send returns is not looked at, and the timer is restarted.
EchoOnce == Answer(Nb, Sent) /\ Rearm

\* send fails, for a full send buffer (EAGAIN) as for a broken connection.
EchoFails ==
  /\ Nb > 0 /\ (rst \/ Free = 0)
  /\ rcvd' = rcvd + Nb
  /\ echo_client_del
  /\ UNCHANGED <<age, idle, out>>

echo_client_wcb_recv ==
  /\ "recv" \in pending
  /\ RecvEagain \/ RecvFails \/ RecvDone \/ EchoOnce \/ EchoFails
  /\ UNCHANGED peer

-----------------------------------------------------------------------------
(* The loop, level-triggered; a poll may report a socket readable that is  *)
(* not.                                                                    *)

Ready ==
  {w \in {"recv", "timeout"} : \/ w = "recv" /\ Readable
                               \/ w = "timeout" /\ age = TimeoutTicks}

Poll ==
  /\ state = "open" /\ pending = {}
  /\ Ready # {}
  /\ pending' = Ready
  /\ UNCHANGED <<state, age, idle, socket>>

SpuriousPoll ==
  /\ state = "open" /\ pending = {}
  /\ "recv" \notin Ready
  /\ pending' = Ready \union {"recv"}
  /\ UNCHANGED <<state, age, idle, socket>>

Tick ==
  /\ state = "open"
  /\ age < TimeoutTicks
  /\ age' = age + 1
  /\ idle' = Least(idle + 1, TimeoutTicks)
  /\ UNCHANGED <<state, pending, socket>>

\* The peer and the kernel move; once the server has closed, the peer may still
\* read what was sent.
Peer ==
  /\ \/ state # "closed" /\ (PeerSends \/ PeerCloses \/ ConnectionFails)
     \/ PeerReads
  /\ UNCHANGED server

Next ==
  \/ echo_client_add
  \/ echo_client_wcb_timeout
  \/ echo_client_wcb_recv
  \/ Poll
  \/ SpuriousPoll
  \/ Tick
  \/ Peer

Spec == Init /\ [][Next]_vars

\* The loop keeps turning and calls what it owes, the accept callback included.
\* Nothing is assumed of the peer or of the clock.
FairSpec ==
  /\ Spec
  /\ WF_vars(echo_client_add)
  /\ WF_vars(Poll)
  /\ WF_vars(echo_client_wcb_timeout)
  /\ WF_vars(echo_client_wcb_recv)

-----------------------------------------------------------------------------
TypeOK ==
  /\ state \in {"queued", "open", "closed", "leaked"}
  /\ pending \subseteq {"recv", "timeout"}
  /\ age \in 0..TimeoutTicks /\ idle \in 0..TimeoutTicks
  /\ SocketType

\* The variables keep their types, and no callback is owed to a freed
\* echo_client_t, also when wcb_recv deletes it in an iteration that owes it
\* wcb_timeout.
NoUseAfterFree == TypeOK /\ (pending # {} => state = "open")

\* A connection is given up only when it failed, when the peer closed it, or
\* when nothing has been sent back for a whole SOCKET_TIMEOUT: a timeout that
\* falls due together with a request cannot cut off an active client.
DropsOnlyForCause ==
  [][state = "open" /\ state' = "closed" =>
       rst \/ fin \/ idle = TimeoutTicks]_vars

\* Every byte that arrives is sent back, unless the connection is closed or
\* was never set up.
EveryByteIsEchoed ==
  \A k \in 1..MaxBytes :
    arrived >= k ~> (Len(out) >= k \/ state \in {"closed", "leaked"})

\* The connection implements the echo channel.
Channel == INSTANCE EchoChannel WITH recvd <- rcvd, open <- state # "closed"
ImplementsEchoChannel == Channel!Spec

=============================================================================
