----------------------------- MODULE EpollConn -----------------------------
(***************************************************************************)
(* One connection of c++-apolkanov/echo_tcp.cpp.  The main thread accepts  *)
(* it and registers it, edge-triggered, with the epoll instance of one     *)
(* worker; the worker answers each event with one read and one write.      *)
(*                                                                         *)
(* epoll reports an edge: something new on the socket puts it on the ready *)
(* list, epoll_wait takes it off, and what the worker then leaves unread   *)
(* is not reported again.  The peer moves between the epoll_wait and the   *)
(* processConnection it leads to.  A byte is its position in the stream.   *)
(***************************************************************************)
EXTENDS EchoSocket

CONSTANTS
  BufSize   \* BUFF_SIZE, 100

ASSUME EpollAssumption == BufSize \in Nat \ {0}

VARIABLES
  state,    \* "starting", "queued", "open", "closed"; "crashed": the whole process
  edge,     \* the socket is on the ready list of the worker's epoll instance
  event,    \* the worker's events array holds the socket, not yet processed
  full      \* history: the latest read filled the buffer

server == <<state, edge, event, full>>
vars   == <<server, socket>>

Init ==
  /\ state = "starting"
  /\ edge = FALSE /\ event = FALSE /\ full = FALSE
  /\ SocketInit

-----------------------------------------------------------------------------
\* main makes its listening socket or throws.
main_Listens ==
  /\ state = "starting"
  /\ state' \in {"queued", "crashed"}
  /\ UNCHANGED <<edge, event, full, socket>>

\* Mutant of addConnection: a socket that is readable already when it is
\* registered makes no event.
addConnection_NoEvent ==
  /\ state = "queued"
  /\ state' = "open"
  /\ UNCHANGED <<edge, event, full, socket>>

\* Registering a socket that is already readable makes an event too.
addConnection ==
  /\ state = "queued"
  /\ state' = "open" /\ edge' = Readable
  /\ UNCHANGED <<event, full, socket>>

\* The main thread throws when fcntl, epoll_ctl or, for any later connection,
\* accept fails.  Nobody catches the exception: the process ends.
main_Throws ==
  /\ state \in {"queued", "open"}
  /\ state' = "crashed" /\ edge' = FALSE /\ event' = FALSE
  /\ UNCHANGED <<full, socket>>

epoll_wait ==
  /\ state = "open" /\ edge /\ ~event
  /\ edge' = FALSE /\ event' = TRUE
  /\ UNCHANGED <<state, full, socket>>

data_size == Least(Available, BufSize)
Written   == [i \in 1..Least(data_size, Free) |-> rcvd + i]

\* One read, and one write that puts bytes on the socket.  The count it returns
\* is not looked at.  On a failed connection the write fails, or its SIGPIPE
\* ends the process.
ReadAndWrite(bytes) ==
  /\ data_size > 0
  /\ rcvd' = rcvd + data_size
  /\ full' = (data_size = BufSize)
  /\ \/ ~rst /\ out' = out \o bytes /\ UNCHANGED <<state, edge>>
     \/ rst /\ UNCHANGED <<out, state, edge>>
     \/ rst /\ state' = "crashed" /\ edge' = FALSE /\ UNCHANGED out

\* Mutants of EchoRead: the write sends the whole buffer whatever was read; it
\* sends one byte less.
EchoRead_WholeBuffer ==
  ReadAndWrite(Written \o [i \in 1..(BufSize - data_size) |-> 0])
EchoRead_OneLess == ReadAndWrite(SubSeq(Written, 1, Len(Written) - 1))

EchoRead == ReadAndWrite(Written)

\* close also takes the socket out of the epoll instance.
ReadZero ==
  /\ Available = 0 /\ (fin \/ rst)
  /\ state' = "closed" /\ edge' = FALSE
  /\ UNCHANGED <<full, rcvd, out>>

\* Mutant of ReadFails: data_size is signed, so an EAGAIN closes the socket.
ReadFails_Closes ==
  /\ rst \/ (Available = 0 /\ ~fin)
  /\ state' = "closed" /\ edge' = FALSE
  /\ UNCHANGED <<full, rcvd, out>>

\* The -1 of a failed read is a huge size_t: the test for an error does not see
\* it, the write of that many bytes fails (EFAULT), and nothing has happened.
ReadFails ==
  /\ rst \/ (Available = 0 /\ ~fin)
  /\ full' = FALSE
  /\ UNCHANGED <<state, edge, rcvd, out>>

processConnection ==
  /\ state = "open" /\ event
  /\ EchoRead \/ ReadZero \/ ReadFails
  /\ event' = FALSE
  /\ UNCHANGED peer

-----------------------------------------------------------------------------
\* Whatever is new on a registered socket puts it on the ready list.
Arrival ==
  /\ state \in {"queued", "open"}
  /\ PeerSends \/ PeerCloses \/ ConnectionFails
  /\ edge' = (state = "open")
  /\ UNCHANGED <<state, event, full>>

Peer ==
  \/ Arrival
  \/ PeerReads /\ UNCHANGED server

Next ==
  \/ main_Listens
  \/ addConnection
  \/ main_Throws
  \/ epoll_wait
  \/ processConnection
  \/ Peer

Spec == Init /\ [][Next]_vars

\* The main thread and the worker keep running.  Nothing is assumed of the peer.
FairSpec ==
  /\ Spec
  /\ WF_vars(addConnection)
  /\ WF_vars(epoll_wait)
  /\ WF_vars(processConnection)

-----------------------------------------------------------------------------
TypeOK ==
  /\ state \in {"starting", "queued", "open", "closed", "crashed"}
  /\ edge \in BOOLEAN /\ event \in BOOLEAN /\ full \in BOOLEAN
  /\ edge \/ event => state = "open"
  /\ SocketType

\* Bytes lie in the socket of an open connection and no event will tell.
Left == state = "open" /\ ~rst /\ Available > 0 /\ ~edge /\ ~event

\* The variables keep their types, and bytes are left lying by no race of the
\* registration, the arrivals and epoll_wait, but only behind a read that
\* filled its buffer.
StuckOnlyAfterFullRead == TypeOK /\ (Left => full)

\* A connection that has not failed is closed only after the peer has closed it
\* and all it sent has been read: an event that an earlier read has already
\* served, so that its own read finds nothing (EAGAIN), does not cost the client
\* the connection.
ClosesOnlyAtEnd ==
  [][state = "open" /\ state' = "closed" => rst \/ (fin /\ Available = 0)]_vars

\* Every byte that arrives is sent back, unless the connection is closed or
\* failed, the process has ended, or more than a buffer's worth came at once.
EveryByteIsEchoed ==
  \A k \in 1..MaxBytes :
    arrived >= k ~> (Len(out) >= k \/ Left \/ rst \/ state \in {"closed", "crashed"})

\* The connection implements the echo channel.
Channel == INSTANCE EchoChannel
  WITH recvd <- rcvd, open <- state \notin {"closed", "crashed"}
ImplementsEchoChannel == Channel!Spec

=============================================================================
