------------------------------ MODULE AsioConn ------------------------------
(***************************************************************************)
(* One connection of c++-virtan/server.cc: an object that exactly one      *)
(* asynchronous operation at a time refers to.  Its handlers start the     *)
(* next operation or delete the object.  Every thread runs an io_service   *)
(* of its own, so the handlers of one connection never overlap; the        *)
(* operations progress in the reactor, between handlers, as the socket     *)
(* allows, and a finished one waits in the queue for its handler.          *)
(* A byte of the stream is its position in the stream.                     *)
(***************************************************************************)
EXTENDS EchoSocket, FiniteSets

CONSTANTS
  MaxLength   \* max_length, 4096

ASSUME AsioAssumption == MaxLength \in Nat \ {0}

VARIABLES
  object,   \* the connection: "none", "live" or "deleted"
  accepts,  \* the acceptor has an async_accept under way
  ops,      \* the operations under way on the connection: "read", "write"
  posted,   \* finished operations whose handler has not run, with their result
  data,     \* the connection's array
  written   \* the part of data the write under way has sent, and its length

connection == <<object, ops, posted, data, written>>
server     == <<connection, accepts>>
vars       == <<server, socket>>

Cells == 1..MaxLength

Init ==
  /\ object = "none" /\ accepts = TRUE
  /\ ops = {} /\ posted = {}
  /\ data = [k \in Cells |-> 0]
  /\ written = [sent |-> 0, of |-> 0]
  /\ SocketInit

-----------------------------------------------------------------------------
(* The acceptor.                                                           *)

\* Mutant of accept: start_accept is skipped after an error.
accept_StopsOnError ==
  /\ accepts
  /\ \/ object = "none" /\ object' = "live" /\ ops' = {"read"} /\ UNCHANGED accepts
     \/ accepts' = FALSE /\ UNCHANGED <<object, ops>>
  /\ UNCHANGED <<posted, data, written, socket>>

\* The handler of async_accept: the new connection starts to read, or an error
\* deletes the object allocated for it; either way start_accept allocates the
\* next one and waits again.
accept ==
  /\ accepts
  /\ \/ object = "none" /\ object' = "live" /\ ops' = {"read"}
     \/ UNCHANGED <<object, ops>>                            \* error
  /\ UNCHANGED <<accepts, posted, data, written, socket>>

-----------------------------------------------------------------------------
(* The reactor: what the operations do while no handler runs.              *)

Post(op, ok, n) == posted' = posted \union {[op |-> op, ok |-> ok, n |-> n]}

\* async_read_some takes what is there, up to the size of the array.
ReadSome ==
  /\ "read" \in ops
  /\ \/ LET n == Least(Available, MaxLength)
        IN  /\ n > 0
            /\ rcvd' = rcvd + n
            /\ data' = [k \in Cells |-> IF k <= n THEN rcvd + k ELSE data[k]]
            /\ Post("read", TRUE, n)
     \/ /\ rst \/ (Available = 0 /\ fin)
        /\ Post("read", FALSE, 0)
        /\ UNCHANGED <<rcvd, data>>
  /\ ops' = ops \ {"read"}
  /\ UNCHANGED <<object, accepts, written, peer, out>>

\* Mutant of WriteSome: every part is sent from the start of the array.
WriteSome_NoAdvance ==
  /\ "write" \in ops /\ ~rst /\ Free > 0
  /\ \E n \in 1..Least(Free, written.of - written.sent) :
       /\ out' = out \o [i \in 1..n |-> data[i]]
       /\ written' = [written EXCEPT !.sent = @ + n]
  /\ IF written'.sent = written.of
       THEN Post("write", TRUE, written.of) /\ ops' = ops \ {"write"}
       ELSE UNCHANGED <<posted, ops>>
  /\ UNCHANGED <<object, accepts, data, peer, rcvd>>

\* async_write sends as much as fits and goes on until all is sent.
WriteSome ==
  /\ "write" \in ops
  /\ \/ /\ ~rst /\ Free > 0
        /\ \E n \in 1..Least(Free, written.of - written.sent) :
             /\ out' = out \o [i \in 1..n |-> data[written.sent + i]]
             /\ written' = [written EXCEPT !.sent = @ + n]
        /\ IF written'.sent = written.of
             THEN Post("write", TRUE, written.of) /\ ops' = ops \ {"write"}
             ELSE UNCHANGED <<posted, ops>>
     \/ /\ rst
        /\ Post("write", FALSE, 0)
        /\ ops' = ops \ {"write"}
        /\ UNCHANGED <<written, out>>
  /\ UNCHANGED <<object, accepts, data, peer, rcvd>>

-----------------------------------------------------------------------------
(* The handlers of the connection.                                         *)

Handle(r) == r \in posted /\ posted' = posted \ {r}

DeleteThis ==
  /\ object' = "deleted"
  /\ UNCHANGED <<ops, written>>

\* Mutant of StartWrite: the next read is started along with the write.
StartWrite_ReadsAhead(n) ==
  /\ ops' = ops \union {"write", "read"}
  /\ written' = [sent |-> 0, of |-> n]
  /\ UNCHANGED object

StartWrite(n) ==
  /\ ops' = ops \union {"write"}
  /\ written' = [sent |-> 0, of |-> n]
  /\ UNCHANGED object

\* Mutant of read: the error is not looked at.
read_NoTest ==
  \E r \in posted :
    /\ r.op = "read" /\ Handle(r)
    /\ IF r.n = 0 THEN UNCHANGED <<object, ops, written>> ELSE StartWrite(r.n)
    /\ UNCHANGED <<accepts, data, socket>>

read ==
  \E r \in posted :
    /\ r.op = "read" /\ Handle(r)
    /\ \/ r.ok /\ StartWrite(r.n)
       \/ ~r.ok /\ DeleteThis
    /\ UNCHANGED <<accepts, data, socket>>

start ==
  /\ ops' = ops \union {"read"}
  /\ UNCHANGED <<object, written>>

write ==
  \E r \in posted :
    /\ r.op = "write" /\ Handle(r)
    /\ \/ r.ok /\ start
       \/ ~r.ok /\ DeleteThis
    /\ UNCHANGED <<accepts, data, socket>>

-----------------------------------------------------------------------------
\* The peer and the kernel move; once the socket is closed, the peer may still
\* read what was sent.
Peer ==
  /\ \/ object # "deleted" /\ (PeerSends \/ PeerCloses \/ ConnectionFails)
     \/ PeerReads
  /\ UNCHANGED server

Next ==
  \/ accept
  \/ ReadSome
  \/ WriteSome
  \/ read
  \/ write
  \/ Peer

Spec == Init /\ [][Next]_vars

\* The io_service runs: ready operations make progress and posted handlers are
\* called.  A connection that keeps waiting in the queue is accepted in the
\* end, although other accepts may fail; the peer reads what it is sent.
FairSpec ==
  /\ Spec
  /\ SF_vars(accept /\ object' = "live")
  /\ WF_vars(ReadSome)
  /\ WF_vars(WriteSome)
  /\ WF_vars(read)
  /\ WF_vars(write)
  /\ WF_vars(PeerReads /\ UNCHANGED server)

-----------------------------------------------------------------------------
Results == [op : {"read", "write"}, ok : BOOLEAN, n : 0..MaxLength]

TypeOK ==
  /\ object \in {"none", "live", "deleted"}
  /\ accepts \in BOOLEAN
  /\ ops \subseteq {"read", "write"} /\ posted \subseteq Results
  /\ data \in [Cells -> Nat]
  /\ written \in [sent : 0..MaxLength, of : 0..MaxLength]
  /\ SocketType

\* The variables keep their types, and a live connection is referred to by
\* exactly one operation, under way or finished: "delete this" leaves no handler
\* behind that would run on freed memory, and no connection is forgotten alive.
OneReference ==
  /\ TypeOK
  /\ IF object = "live" THEN Cardinality(ops) + Cardinality(posted) = 1
                        ELSE ops = {} /\ posted = {}

\* Every byte that arrives is sent back unless the connection is closed.
EveryByteIsEchoed ==
  \A k \in 1..MaxBytes : arrived >= k ~> (Len(out) >= k \/ object = "deleted")

\* The peer's close is noticed, and the object freed, with no timeout at all,
\* after the bytes sent before the close have been answered or the connection
\* has failed.
ClosedPeerIsReclaimed ==
  fin ~> (object = "deleted" /\ (rst \/ Len(out) = arrived))

\* The connection implements the echo channel.
Channel == INSTANCE EchoChannel WITH recvd <- rcvd, open <- object # "deleted"
ImplementsEchoChannel == Channel!Spec

=============================================================================
