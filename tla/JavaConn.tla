------------------------------ MODULE JavaConn ------------------------------
(***************************************************************************)
(* One connection handed to an IOScheduler of java-philipp with a          *)
(* ReadWriteProcessor.  A thread calls register, which queues the channel  *)
(* and wakes the selector; the scheduler's worker spins in selectNow, then *)
(* blocks in select, processes the selected keys and last of all takes the *)
(* queued channels.  Another thread may call stop.                         *)
(*                                                                         *)
(* External: a wakeup is remembered until the next selection of either     *)
(* kind, which returns at once and forgets it.  Other connections of the   *)
(* same scheduler wake it and have ready keys of their own.  A byte is its *)
(* position in the stream.                                                 *)
(***************************************************************************)
EXTENDS EchoSocket

CONSTANTS
  BufSize,   \* the 8192 bytes of the direct buffer
  Spins      \* the 49 calls of selectNow before select

ASSUME JavaAssumption == BufSize \in Nat \ {0} /\ Spins \in Nat \ {0}

VARIABLES
  caller,    \* in register: "out", "in" between its two steps, "done"
  requests,  \* the channel is in the queue
  stopper,   \* in stop: "no", "joining" or "returned"
  pc,        \* the worker: "spin", "select", "keys", "queue" or "ended"
  counter,   \* selectNow calls it has left
  wakeup,    \* the selector's pending wakeup
  other,     \* a key of another connection has become ready
  selected,  \* the connection's key is in the selected set
  state,     \* the channel: "accepted", "open" (registered) or "closed"
  interest,  \* its interest set, "read" or "write"
  buffer,    \* the bytes between position and limit of its buffer
  eaten      \* history: a selectNow took the wakeup of a queued request

channel   == <<state, interest, buffer>>
selector  == <<wakeup, other, selected>>
scheduler == <<caller, requests, stopper, pc, counter, selector, channel, eaten>>
JavaVars  == <<scheduler, socket>>

isRunning == stopper = "no"
Ready ==
  /\ state = "open"
  /\ \/ interest = "read" /\ Readable
     \/ interest = "write" /\ (Free > 0 \/ rst)

JavaInit ==
  /\ caller = "out" /\ requests = FALSE /\ stopper = "no"
  /\ pc = "spin" /\ counter = Spins
  /\ wakeup = FALSE /\ other = FALSE /\ selected = FALSE
  /\ state = "accepted" /\ interest = "read" /\ buffer = <<>>
  /\ eaten = FALSE
  /\ SocketInit

-----------------------------------------------------------------------------
(* The callers.                                                            *)

\* Mutant of register: the selector is woken before the request is queued.
register_WakesFirst ==
  /\ \/ caller = "out" /\ caller' = "in" /\ wakeup' = TRUE /\ UNCHANGED requests
     \/ caller = "in" /\ caller' = "done" /\ requests' = TRUE /\ UNCHANGED wakeup
  /\ UNCHANGED <<stopper, pc, counter, other, selected, channel, eaten, socket>>

register ==
  /\ \/ caller = "out" /\ caller' = "in" /\ requests' = TRUE /\ UNCHANGED wakeup
     \/ caller = "in" /\ caller' = "done" /\ wakeup' = TRUE /\ UNCHANGED requests
  /\ UNCHANGED <<stopper, pc, counter, other, selected, channel, eaten, socket>>

\* stop does not wake the selector; join waits for the worker's end.
stop ==
  /\ \/ stopper = "no" /\ stopper' = "joining"
     \/ stopper = "joining" /\ pc = "ended" /\ stopper' = "returned"
  /\ UNCHANGED <<caller, requests, pc, counter, selector, channel, eaten, socket>>

-----------------------------------------------------------------------------
(* The worker.                                                             *)

Selection ==
  /\ selected' = Ready
  /\ wakeup' = FALSE /\ other' = FALSE

selectNow ==
  /\ pc = "spin"
  /\ Selection
  /\ eaten' = (eaten \/ (wakeup /\ requests /\ caller = "done"))
  /\ counter' = counter - 1
  /\ pc' = IF Ready \/ other THEN "keys" ELSE IF counter' > 0 THEN "spin" ELSE "select"
  /\ UNCHANGED <<caller, requests, stopper, channel, socket>>

select ==
  /\ pc = "select"
  /\ Ready \/ other \/ wakeup
  /\ Selection
  /\ pc' = "keys"
  /\ UNCHANGED <<caller, requests, stopper, counter, channel, eaten, socket>>

\* An IOException of either is printed and the worker goes on.
SelectFails ==
  /\ pc \in {"spin", "select"}
  /\ pc' = "keys"
  /\ UNCHANGED <<caller, requests, stopper, counter, selector, channel, eaten, socket>>

Close ==
  /\ state' = "closed" /\ buffer' = <<>>
  /\ UNCHANGED <<interest, rcvd, out>>

\* process, for a key that is readable: whatever is there, up to a buffer.
Read ==
  /\ interest = "read"
  /\ \/ /\ Available > 0
        /\ LET numRead == Least(Available, BufSize)
           IN  /\ buffer' = [i \in 1..numRead |-> rcvd + i]
               /\ rcvd' = rcvd + numRead
        /\ interest' = "write"
        /\ UNCHANGED <<state, out>>
     \/ rst /\ Close
     \/ Available = 0 /\ fin /\ Close

\* process, for a key that is writable: what the socket takes of the buffer, and
\* the interest set after it when bytes remain and when none does.
WriteThen(some, none) ==
  /\ interest = "write"
  /\ \/ /\ ~rst
        /\ \E k \in 1..Least(Len(buffer), Free) :
             /\ out' = out \o SubSeq(buffer, 1, k)
             /\ buffer' = SubSeq(buffer, k + 1, Len(buffer))
        /\ interest' = IF buffer' = <<>> THEN none ELSE some
        /\ UNCHANGED <<state, rcvd>>
     \/ rst /\ Close

\* Mutants of Write: the next read comes though bytes remain; it never comes.
Write_NoTest     == WriteThen("read", "read")
Write_StaysWrite == WriteThen("write", "write")

Write == WriteThen("write", "read")

\* The selected keys; those of other connections do not matter here.
ProcessKeys ==
  /\ pc = "keys"
  /\ pc' = "queue"
  /\ selected' = FALSE
  /\ \/ selected /\ (Read \/ Write)
     \/ ~selected /\ UNCHANGED <<channel, rcvd, out>>
  /\ UNCHANGED <<caller, requests, stopper, counter, wakeup, other, eaten, peer>>

\* A channel of which an option cannot be set or which cannot be registered is
\* closed.
TakeRequest ==
  /\ pc = "queue" /\ requests
  /\ requests' = FALSE
  /\ state' \in {"open", "closed"}
  /\ UNCHANGED <<caller, stopper, pc, counter, selector, interest, buffer, eaten, socket>>

\* The queue is empty: the worker tests isRunning and starts again.
Again ==
  /\ pc = "queue" /\ ~requests
  /\ pc' = IF isRunning THEN "spin" ELSE "ended"
  /\ counter' = Spins
  /\ UNCHANGED <<caller, requests, stopper, selector, channel, eaten, socket>>

Worker == selectNow \/ select \/ ProcessKeys \/ TakeRequest \/ Again

-----------------------------------------------------------------------------
\* Another connection of the scheduler is registered, or has something to do.
Others ==
  /\ pc # "ended"
  /\ \/ wakeup' = TRUE /\ UNCHANGED other
     \/ other' = TRUE /\ UNCHANGED wakeup
  /\ UNCHANGED <<caller, requests, stopper, pc, counter, selected, channel, eaten, socket>>

JavaPeer ==
  /\ \/ state # "closed" /\ (PeerSends \/ PeerCloses \/ ConnectionFails)
     \/ PeerReads
  /\ UNCHANGED scheduler

JavaNext ==
  \/ register \/ stop
  \/ Worker \/ SelectFails
  \/ Others \/ JavaPeer

JavaSpec == JavaInit /\ [][JavaNext]_JavaVars

\* The threads run, a selection does not fail each time, and the peer reads what
\* it is sent.  Nothing is assumed of the other connections, nor that stop is
\* called.
JavaFairSpec ==
  /\ JavaSpec
  /\ WF_JavaVars(register)
  /\ WF_JavaVars(stop /\ stopper = "joining")
  /\ WF_JavaVars(Worker)
  /\ SF_JavaVars(selectNow \/ select)
  /\ WF_JavaVars(PeerReads /\ UNCHANGED scheduler)

-----------------------------------------------------------------------------
JavaTypeOK ==
  /\ caller \in {"out", "in", "done"} /\ stopper \in {"no", "joining", "returned"}
  /\ pc \in {"spin", "select", "keys", "queue", "ended"} /\ counter \in 0..Spins
  /\ {requests, wakeup, other, selected, eaten} \subseteq BOOLEAN
  /\ state \in {"accepted", "open", "closed"} /\ interest \in {"read", "write"}
  /\ buffer \in Seq(Nat) /\ Len(buffer) <= BufSize
  /\ SocketType

\* The worker sleeps in select and nothing there is will wake it.
Asleep == pc = "select" /\ ~(Ready \/ other \/ wakeup)

\* The variables keep their types, and a registered request is left in the
\* queue of a sleeping worker in one way only: a selectNow of the spin, which
\* does not look at the queue, took its wakeup.
StrandedOnlyBySpin ==
  JavaTypeOK /\ (Asleep /\ requests /\ caller = "done" => eaten)

\* An open connection is served until it is closed or the worker has ended: no
\* mixture of partial writes, changes of interest and other keys leaves a byte
\* unanswered.  A request is taken, and stop returns, unless the worker sleeps.
WorkIsDone ==
  /\ \A k \in 1..MaxBytes :
       (state = "open" /\ arrived >= k) ~> (Len(out) >= k \/ state = "closed" \/ pc = "ended")
  /\ requests ~> (~requests \/ Asleep \/ pc = "ended")
  /\ stopper = "joining" ~> (stopper = "returned" \/ Asleep)

\* The connection implements the echo channel.
JavaChannel == INSTANCE EchoChannel WITH recvd <- rcvd, open <- state # "closed"
JavaImplementsChannel == JavaChannel!Spec

=============================================================================
