-------------------------- MODULE EpollConnProofs --------------------------
(***************************************************************************)
(* Proofs about EpollConn for every buffer, send buffer, window and number *)
(* of bytes.  What the edge-triggered events promise holds for every size; *)
(* that the connection is a faithful echo is proved for a peer that leaves *)
(* no more unanswered than the send buffer holds, since the count write    *)
(* returns is not looked at.                                               *)
(***************************************************************************)
EXTENDS EpollConn, SequenceTheorems, TLAPS

-----------------------------------------------------------------------------
(* The reply.                                                              *)

\* Appending n successive numbers keeps a sequence a sequence, and a faithful
\* reply that goes on where it stopped stays faithful.
LEMMA AppendBytes ==
  ASSUME NEW s \in Seq(Nat), NEW m \in Nat, NEW n \in Nat
  PROVE  /\ s \o [i \in 1..n |-> m + i] \in Seq(Nat)
         /\ Len(s \o [i \in 1..n |-> m + i]) = Len(s) + n
         /\ (m = Len(s) /\ \A i \in 1..Len(s) : s[i] = i) =>
              \A i \in 1..(Len(s) + n) : (s \o [j \in 1..n |-> m + j])[i] = i
<1> DEFINE t == [i \in 1..n |-> m + i]
<1>1. t \in Seq(Nat) /\ Len(t) = n /\ \A i \in 1..n : t[i] = m + i
  <2>1. t \in [1..n -> Nat]
    OBVIOUS
  <2>2. QED
    BY <2>1, SeqDef
<1> HIDE DEF t
<1>2. /\ Len(s) \in Nat /\ s \o t \in Seq(Nat)
      /\ Len(s \o t) = Len(s) + Len(t)
      /\ \A i \in 1..(Len(s) + Len(t)) :
           (s \o t)[i] = IF i <= Len(s) THEN s[i] ELSE t[i - Len(s)]
  BY <1>1, ConcatProperties, LenProperties
<1>3. ASSUME m = Len(s), \A i \in 1..Len(s) : s[i] = i,
             NEW i \in 1..(Len(s) + n)
      PROVE  (s \o t)[i] = i
  <2>1. CASE i <= Len(s)
    BY <1>1, <1>2, <1>3, <2>1
  <2>2. CASE ~(i <= Len(s))
    <3>1. i - Len(s) \in 1..n /\ m + (i - Len(s)) = i
      BY <1>2, <1>3, <2>2
    <3>2. QED
      BY <1>1, <1>2, <2>2, <3>1
  <2>3. QED
    BY <2>1, <2>2
<1>4. QED
  BY <1>1, <1>2, <1>3 DEF t

-----------------------------------------------------------------------------
(* The events.  StuckOnlyAfterFullRead is inductive: an arrival, and the   *)
(* registration of a socket that is readable already, makes an edge; the   *)
(* edge becomes an event; and the one read an event leads to leaves bytes  *)
(* only when it filled its buffer.                                         *)

\* The sizes read and write report are numbers.
LEMMA Sizes ==
  ASSUME TypeOK
  PROVE  /\ out \in Seq(Nat) /\ Len(out) \in Nat
         /\ arrived \in Nat /\ rcvd \in Nat /\ drained \in Nat
         /\ rcvd <= arrived /\ drained <= Len(out)
         /\ Available \in Nat /\ Available = arrived - rcvd
         /\ data_size \in Nat /\ data_size <= Available
         /\ data_size # BufSize => data_size = Available
         /\ Free \in Int /\ Free = SndCap - (Len(out) - drained)
<1>1. /\ out \in Seq(Nat) /\ arrived \in 0..MaxBytes /\ rcvd \in 0..arrived
      /\ drained \in 0..Len(out) /\ SndCap \in Nat /\ MaxBytes \in Nat /\ BufSize \in Nat
  BY SocketAssumption, EpollAssumption DEF TypeOK, SocketType
<1>2. Len(out) \in Nat
  BY <1>1, LenProperties
<1>3. arrived \in Nat /\ rcvd \in Nat /\ drained \in Nat /\ rcvd <= arrived /\ drained <= Len(out)
  BY <1>1, <1>2
<1>4. Available \in Nat /\ Available = arrived - rcvd
  BY <1>3 DEF Available
<1>5. data_size \in Nat /\ data_size <= Available /\ (data_size # BufSize => data_size = Available)
  BY <1>1, <1>4 DEF data_size, Least
<1>6. Free \in Int /\ Free = SndCap - (Len(out) - drained)
  BY <1>1, <1>2, <1>3 DEF Free
<1>7. QED
  BY <1>1, <1>2, <1>3, <1>4, <1>5, <1>6

\* The send buffer never holds more than its capacity: write takes what fits.
FitsSendBuffer == Len(out) - drained <= SndCap

\* What a write that puts bytes on the socket does to the reply.
LEMMA WriteStep ==
  ASSUME TypeOK, FitsSendBuffer, out' = out \o Written
  PROVE  /\ Least(data_size, Free) \in Nat
         /\ out' \in Seq(Nat) /\ Len(out') = Len(out) + Least(data_size, Free)
         /\ rcvd = Len(out) /\ EchoIsPrefix => EchoIsPrefix'
<1>1. /\ out \in Seq(Nat) /\ Len(out) \in Nat /\ rcvd \in Nat /\ data_size \in Nat /\ Free \in Nat
  BY Sizes, SocketAssumption DEF FitsSendBuffer
<1>2. PICK s \in Seq(Nat) : s = out
  BY <1>1
<1>3. PICK n \in Nat : n = Least(data_size, Free)
  BY <1>1 DEF Least
<1>4. PICK m \in Nat : m = rcvd
  BY <1>1
<1>5. out' = s \o [i \in 1..n |-> m + i]
  BY <1>2, <1>3, <1>4 DEF Written
<1>6. /\ out' \in Seq(Nat) /\ Len(out') = Len(s) + n
      /\ (m = Len(s) /\ \A i \in 1..Len(s) : s[i] = i) => \A i \in 1..(Len(s) + n) : out'[i] = i
  BY <1>5, AppendBytes
<1>7. rcvd = Len(out) /\ EchoIsPrefix => EchoIsPrefix'
  BY <1>2, <1>4, <1>6 DEF EchoIsPrefix
<1>8. QED
  BY <1>2, <1>3, <1>6, <1>7

Served == StuckOnlyAfterFullRead /\ FitsSendBuffer

\* Nothing has arrived and nothing is registered at the start.
LEMMA ServedInit == Init => Served
<1> SUFFICES ASSUME Init PROVE Served
  OBVIOUS
<1>1. out \in Seq(Nat) /\ drained \in 0..Len(out) /\ Len(out) = 0 /\ drained = 0
  BY EmptySeq DEF Init, SocketInit
<1>2. fin \in BOOLEAN /\ rst \in BOOLEAN
  BY DEF Init, SocketInit
<1>3. TypeOK
  <2>1. edge \in BOOLEAN /\ event \in BOOLEAN /\ full \in BOOLEAN /\ ~edge /\ ~event
    BY DEF Init
  <2>2. SocketType
    BY <1>1, <1>2, SocketAssumption DEF Init, SocketInit, SocketType
  <2>3. QED
    BY <2>1, <2>2 DEF Init, TypeOK
<1>4. ~Left /\ FitsSendBuffer
  BY <1>1, SocketAssumption DEF Init, Left, FitsSendBuffer
<1>5. QED
  BY <1>3, <1>4 DEF Served, StuckOnlyAfterFullRead

\* Every step of main, of the worker and of the peer keeps it.
LEMMA ServedStep == Served /\ [Next]_vars => Served'
<1> SUFFICES ASSUME Served, [Next]_vars
             PROVE  Served'
  OBVIOUS
<1>0. /\ TypeOK /\ (Left => full) /\ FitsSendBuffer
      /\ Len(out) \in Nat /\ out \in Seq(Nat)
  BY Sizes DEF Served, StuckOnlyAfterFullRead
<1>1. CASE main_Listens
  BY <1>0, <1>1 DEF main_Listens, Served, StuckOnlyAfterFullRead, Left, FitsSendBuffer, TypeOK, SocketType, socket, peer
<1>2. CASE addConnection
  <2>1. /\ state = "queued" /\ state' = "open" /\ edge' = Readable
        /\ UNCHANGED <<event, full, arrived, fin, rst, drained, rcvd, out>>
    BY <1>2 DEF addConnection, socket, peer
  <2>2. Readable \in BOOLEAN
    BY <1>0 DEF Readable, TypeOK, SocketType
  <2>3. TypeOK' /\ FitsSendBuffer'
    BY <1>0, <2>1, <2>2 DEF TypeOK, SocketType, FitsSendBuffer
  <2>4. ~Left'
    BY <2>1 DEF Left, Readable, Available
  <2>5. QED
    BY <2>3, <2>4 DEF Served, StuckOnlyAfterFullRead
<1>3. CASE main_Throws
  BY <1>0, <1>3 DEF main_Throws, Served, StuckOnlyAfterFullRead, Left, FitsSendBuffer, TypeOK, SocketType, socket, peer
<1>4. CASE epoll_wait
  BY <1>0, <1>4 DEF epoll_wait, Served, StuckOnlyAfterFullRead, Left, FitsSendBuffer, TypeOK, SocketType, socket, peer
<1>5. CASE processConnection
  <2>0. /\ state = "open" /\ event /\ event' = FALSE
        /\ UNCHANGED <<arrived, fin, rst, drained>>
    BY <1>5 DEF processConnection, peer
  <2>1. CASE EchoRead
    <3>1. data_size > 0 /\ rcvd' = rcvd + data_size /\ full' = (data_size = BufSize)
      BY <2>1 DEF EchoRead, ReadAndWrite
    <3>2. rcvd' \in 0..arrived' /\ full' \in BOOLEAN
      BY <1>0, <2>0, <3>1, Sizes
    <3>3. Available' > 0 => full'
      <4>1. CASE data_size = BufSize
        BY <3>1, <4>1
      <4>2. CASE data_size # BufSize
        BY <1>0, <2>0, <3>1, <4>2, Sizes DEF Available
      <4>3. QED
        BY <4>1, <4>2
    <3>4. out' \in Seq(Nat) /\ drained' \in 0..Len(out') /\ FitsSendBuffer'
      <4>1. CASE out' = out \o Written
        <5>1. out' \in Seq(Nat) /\ Len(out') = Len(out) + Least(data_size, Free) /\ Least(data_size, Free) \in Nat
          BY <1>0, <4>1, WriteStep
        <5>2. Least(data_size, Free) <= Free
          BY <1>0, Sizes DEF Least
        <5>3. Len(out') - drained <= SndCap /\ drained \in 0..Len(out')
          BY <1>0, <5>1, <5>2, Sizes, SocketAssumption
        <5>4. QED
          BY <2>0, <5>1, <5>3 DEF FitsSendBuffer
      <4>2. CASE out' = out
        BY <1>0, <2>0, <4>2 DEF FitsSendBuffer, TypeOK, SocketType
      <4>3. QED
        BY <2>1, <4>1, <4>2 DEF EchoRead, ReadAndWrite
    <3>5. (state' = "crashed" /\ edge' = FALSE) \/ UNCHANGED <<state, edge>>
      BY <2>1 DEF EchoRead, ReadAndWrite
    <3>6. TypeOK'
      BY <1>0, <2>0, <3>2, <3>4, <3>5 DEF TypeOK, SocketType
    <3>7. QED
      BY <3>3, <3>4, <3>6 DEF Served, StuckOnlyAfterFullRead, Left
  <2>2. CASE ReadZero
    BY <1>0, <2>0, <2>2 DEF ReadZero, Served, StuckOnlyAfterFullRead, Left, FitsSendBuffer, TypeOK, SocketType
  <2>3. CASE ReadFails
    <3>1. full' = FALSE /\ UNCHANGED <<state, edge, rcvd, out>> /\ (rst \/ Available = 0)
      BY <2>3 DEF ReadFails
    <3>2. TypeOK' /\ FitsSendBuffer'
      BY <1>0, <2>0, <3>1 DEF TypeOK, SocketType, FitsSendBuffer
    <3>3. ~Left'
      BY <2>0, <3>1 DEF Left, Available
    <3>4. QED
      BY <3>2, <3>3 DEF Served, StuckOnlyAfterFullRead
  <2>4. QED
    BY <1>5, <2>1, <2>2, <2>3 DEF processConnection
<1>6. CASE Arrival
  <2>1. /\ state \in {"queued", "open"} /\ edge' = (state = "open")
        /\ UNCHANGED <<state, event, full, rcvd, out>>
    BY <1>6 DEF Arrival, PeerSends, PeerCloses, ConnectionFails
  <2>2. /\ arrived' \in 0..MaxBytes /\ rcvd' \in 0..arrived' /\ drained' = drained
        /\ fin' \in BOOLEAN /\ rst' \in BOOLEAN
    <3>1. CASE PeerSends
      <4>1. /\ arrived \in 0..MaxBytes /\ rcvd \in 0..arrived /\ fin \in BOOLEAN /\ rst \in BOOLEAN
            /\ arrived < MaxBytes /\ arrived' = arrived + 1 /\ UNCHANGED <<fin, rst, drained, rcvd>>
        BY <1>0, <3>1 DEF PeerSends, TypeOK, SocketType
      <4>2. arrived' \in 0..MaxBytes /\ rcvd' \in 0..arrived'
        BY <4>1, SocketAssumption
      <4>3. QED
        BY <4>1, <4>2
    <3>2. CASE PeerCloses \/ ConnectionFails
      BY <1>0, <3>2 DEF PeerCloses, ConnectionFails, TypeOK, SocketType
    <3>3. QED
      BY <1>6, <3>1, <3>2 DEF Arrival
  <2>3. TypeOK' /\ FitsSendBuffer'
    <3>1. SocketType' /\ FitsSendBuffer'
      BY <1>0, <2>1, <2>2 DEF TypeOK, SocketType, FitsSendBuffer
    <3>2. edge' \in BOOLEAN /\ (edge' => state' = "open")
      BY <2>1
    <3>3. QED
      BY <1>0, <2>1, <3>1, <3>2 DEF TypeOK
  <2>4. ~Left'
    BY <2>1 DEF Left
  <2>5. QED
    BY <2>3, <2>4 DEF Served, StuckOnlyAfterFullRead
<1>7. CASE PeerReads /\ UNCHANGED server
  <2>1. UNCHANGED <<state, edge, event, full, arrived, fin, rst, rcvd, out>>
    BY <1>7 DEF server, PeerReads
  <2>2. drained' \in 0..Len(out') /\ FitsSendBuffer'
    <3>1. PICK l \in Nat, d \in Nat, m \in Nat : l = Len(out) /\ d = drained /\ m = SndCap
      BY <1>0, Sizes, SocketAssumption
    <3>2. d < l /\ drained' = d + 1 /\ l - d <= m
      BY <1>0, <1>7, <3>1 DEF PeerReads, FitsSendBuffer
    <3>3. d + 1 \in 0..l /\ l - (d + 1) <= m
      BY <3>2
    <3>4. QED
      BY <2>1, <3>1, <3>2, <3>3 DEF FitsSendBuffer
  <2>3. QED
    BY <1>0, <2>1, <2>2 DEF Served, StuckOnlyAfterFullRead, Left, Available, TypeOK, SocketType
<1>8. CASE UNCHANGED vars
  BY <1>0, <1>8 DEF vars, server, socket, peer, Served, StuckOnlyAfterFullRead, Left, Available, FitsSendBuffer,
                    TypeOK, SocketType
<1>9. QED
  BY <1>1, <1>2, <1>3, <1>4, <1>5, <1>6, <1>7, <1>8 DEF Next, Peer

\* No race of the registration, the arrivals, epoll_wait and processConnection
\* leaves bytes lying without an event; only a read that filled its buffer
\* does.  For every buffer size, send buffer and peer.
THEOREM EventsAreNotLost == Spec => []StuckOnlyAfterFullRead
<1>1. Served => StuckOnlyAfterFullRead
  BY DEF Served
<1>2. QED
  BY <1>1, ServedInit, ServedStep, PTL DEF Spec

\* A connection that has not failed is closed only at its end, whatever the
\* sizes: an event that finds nothing left to read does not close it.
THEOREM ClosesAtEnd == Spec => ClosesOnlyAtEnd
<1>1. [Next]_vars => [state = "open" /\ state' = "closed" => rst \/ (fin /\ Available = 0)]_vars
  <2> SUFFICES ASSUME [Next]_vars, state = "open", state' = "closed"
               PROVE  rst \/ (fin /\ Available = 0)
    OBVIOUS
  <2>1. CASE processConnection
    BY <2>1 DEF processConnection, EchoRead, ReadAndWrite, ReadZero, ReadFails
  <2>2. CASE main_Listens \/ addConnection \/ main_Throws \/ epoll_wait \/ Peer \/ UNCHANGED vars
    BY <2>2 DEF main_Listens, addConnection, main_Throws, epoll_wait, Peer, Arrival, vars, server
  <2>3. QED
    BY <2>1, <2>2 DEF Next
<1>2. QED
  BY <1>1, PTL DEF Spec, ClosesOnlyAtEnd

-----------------------------------------------------------------------------
(* Faithfulness.  write's count is not looked at, so what it does not take *)
(* is lost; while the connection works, everything read has been written,  *)
(* and the peer's window bounds what it has not read yet.  On a failed     *)
(* connection reads go on and nothing is written any more.                 *)

Working == state \notin {"closed", "crashed"} /\ ~rst

Answered ==
  /\ EchoIsPrefix
  /\ Len(out) <= rcvd
  /\ Working => Len(out) = rcvd
  /\ arrived - drained <= Window

\* There is room in the send buffer for whatever the read has brought.
LEMMA WriteTakesAll ==
  ASSUME Window <= SndCap, TypeOK, Answered, Working
  PROVE  Least(data_size, Free) = data_size
<1>1. /\ Len(out) \in Nat /\ arrived \in Nat /\ rcvd \in Nat /\ drained \in Nat
      /\ Available = arrived - rcvd /\ data_size \in Nat /\ data_size <= Available
      /\ Free \in Int /\ Free = SndCap - (Len(out) - drained)
  BY Sizes
<1>2. Window \in Nat /\ SndCap \in Nat /\ Len(out) = rcvd /\ arrived - drained <= Window
  BY SocketAssumption DEF Answered
<1>3. data_size <= Free
  BY <1>1, <1>2
<1>4. QED
  BY <1>1, <1>3 DEF Least

\* Nothing has arrived and nothing is owed at the start.
LEMMA AnsweredInit == Init => Answered
<1> SUFFICES ASSUME Init PROVE Answered
  OBVIOUS
<1>1. Len(out) = 0 /\ rcvd = 0 /\ arrived = 0 /\ drained = 0
  BY EmptySeq DEF Init, SocketInit
<1>2. QED
  BY <1>1, SocketAssumption DEF Answered, EchoIsPrefix

\* One read and one write: the counters grow together while the connection
\* works, and a write that fails changes nothing.
LEMMA EchoReadMoves ==
  ASSUME TypeOK, FitsSendBuffer, EchoRead
  PROVE  /\ rcvd' = rcvd + data_size
         /\ \/ ~rst /\ state' = state /\ out' \in Seq(Nat)
               /\ Len(out') = Len(out) + Least(data_size, Free) /\ Least(data_size, Free) \in Nat
               /\ (rcvd = Len(out) /\ EchoIsPrefix => EchoIsPrefix')
            \/ rst /\ out' = out /\ (state' = state \/ state' = "crashed")
<1>1. CASE rst
  BY <1>1 DEF EchoRead, ReadAndWrite
<1>2. CASE ~rst
  <2>1. rcvd' = rcvd + data_size /\ out' = out \o Written /\ state' = state
    BY <1>2 DEF EchoRead, ReadAndWrite
  <2>2. QED
    BY <1>2, <2>1, WriteStep
<1>3. QED
  BY <1>1, <1>2

\* While the connection works, all that was read has been written.
LEMMA AnsweredStep ==
  ASSUME Window <= SndCap
  PROVE  Served /\ Answered /\ [Next]_vars => Answered'
<1> SUFFICES ASSUME Served, Answered, [Next]_vars
             PROVE  Answered'
  OBVIOUS
<1>0. /\ TypeOK /\ FitsSendBuffer
      /\ Len(out) \in Nat /\ rcvd \in Nat /\ arrived \in Nat /\ drained \in Nat
      /\ data_size \in Nat /\ Window \in Nat
  BY Sizes, SocketAssumption DEF Served, StuckOnlyAfterFullRead
<1>1. CASE main_Listens \/ addConnection \/ main_Throws \/ epoll_wait \/ UNCHANGED vars
  <2>1. UNCHANGED <<arrived, drained, rst, rcvd, out>> /\ (Working' => Working)
    BY <1>1 DEF main_Listens, addConnection, main_Throws, epoll_wait, vars, server, socket, peer, Working
  <2>2. QED
    BY <2>1 DEF Answered, EchoIsPrefix
<1>2. CASE processConnection
  <2>0. state = "open" /\ UNCHANGED <<arrived, drained, rst>>
    BY <1>2 DEF processConnection, peer
  <2>1. CASE ReadZero \/ ReadFails
    <3>1. UNCHANGED <<rcvd, out>> /\ (Working' => Working)
      BY <2>0, <2>1 DEF ReadZero, ReadFails, Working
    <3>2. QED
      BY <2>0, <3>1 DEF Answered, EchoIsPrefix
  <2>2. CASE EchoRead /\ ~rst
    <3>1. Working /\ Len(out) = rcvd /\ EchoIsPrefix
      BY <2>0, <2>2 DEF Answered, Working
    <3>2. Least(data_size, Free) = data_size
      BY <1>0, <3>1, WriteTakesAll
    <3>3. rcvd' = rcvd + data_size /\ Len(out') = Len(out) + data_size /\ EchoIsPrefix'
      BY <1>0, <2>2, <3>1, <3>2, EchoReadMoves
    <3>4. Len(out') = rcvd' /\ Len(out') <= rcvd'
      BY <1>0, <3>1, <3>3
    <3>5. QED
      BY <2>0, <3>3, <3>4 DEF Answered
  <2>3. CASE EchoRead /\ rst
    <3>1. rcvd' = rcvd + data_size /\ out' = out /\ ~Working'
      BY <1>0, <2>0, <2>3, EchoReadMoves DEF Working
    <3>2. Len(out') <= rcvd'
      BY <1>0, <3>1 DEF Answered
    <3>3. QED
      BY <2>0, <3>1, <3>2 DEF Answered, EchoIsPrefix
  <2>4. QED
    BY <1>2, <2>1, <2>2, <2>3 DEF processConnection
<1>3. CASE Peer
  <2>1. UNCHANGED <<state, rcvd, out>> /\ (Working' => Working)
    BY <1>3 DEF Peer, Arrival, server, PeerSends, PeerCloses, ConnectionFails, PeerReads, Working
  <2>2. arrived' - drained' <= Window
    <3>1. CASE PeerSends
      BY <1>0, <3>1 DEF PeerSends
    <3>2. CASE PeerReads
      BY <1>0, <3>2 DEF PeerReads, Answered
    <3>3. CASE PeerCloses \/ ConnectionFails
      BY <3>3 DEF PeerCloses, ConnectionFails, Answered
    <3>4. QED
      BY <1>3, <3>1, <3>2, <3>3 DEF Peer, Arrival
  <2>3. QED
    BY <2>1, <2>2 DEF Answered, EchoIsPrefix
<1>4. QED
  BY <1>1, <1>2, <1>3 DEF Next

-----------------------------------------------------------------------------
(* The refinement.                                                         *)

Gone == state \in {"closed", "crashed"}

\* A faithful reply is the stream up to its length.
LEMMA ReplyIsStream ==
  ASSUME NEW s \in Seq(Nat), \A i \in 1..Len(s) : s[i] = i
  PROVE  s = Channel!Stream(Len(s))
  BY LenProperties, SeqDef DEF Channel!Stream

\* The counters only grow; a step that ends the connection sends nothing, and
\* an ended connection stays ended.
LEMMA StreamMoves ==
  ASSUME Served, Served', [Next]_vars
  PROVE  /\ rcvd \in Nat /\ rcvd' \in Nat /\ rcvd' >= rcvd
         /\ Len(out) \in Nat /\ Len(out') \in Nat /\ Len(out') >= Len(out)
         /\ ~Gone /\ Gone' => out' = out
         /\ Gone => Gone' /\ UNCHANGED <<rcvd, out>>
<1>0. /\ TypeOK /\ FitsSendBuffer /\ rcvd \in Nat /\ Len(out) \in Nat /\ data_size \in Nat
  BY Sizes DEF Served, StuckOnlyAfterFullRead
<1>1. CASE UNCHANGED <<rcvd, out>> /\ (Gone => Gone')
  BY <1>0, <1>1
<1>2. CASE main_Listens \/ addConnection \/ main_Throws \/ epoll_wait
  BY <1>0, <1>1, <1>2 DEF main_Listens, addConnection, main_Throws, epoll_wait, socket, Gone
<1>3. CASE Peer \/ UNCHANGED vars
  BY <1>0, <1>1, <1>3 DEF Peer, Arrival, vars, server, socket, PeerSends, PeerCloses, ConnectionFails, PeerReads, Gone
<1>4. CASE processConnection
  <2>0. ~Gone
    BY <1>4 DEF processConnection, Gone
  <2>1. CASE ReadZero \/ ReadFails
    BY <1>0, <2>0, <2>1 DEF ReadZero, ReadFails
  <2>2. CASE EchoRead
    <3>1. rcvd' >= rcvd /\ rcvd' \in Nat
      BY <1>0, <2>2, EchoReadMoves
    <3>2. Len(out') \in Nat /\ Len(out') >= Len(out) /\ (Gone' => out' = out)
      <4>1. CASE ~rst
        <5>1. state' = state /\ Len(out') = Len(out) + Least(data_size, Free) /\ Least(data_size, Free) \in Nat
          BY <1>0, <2>2, <4>1, EchoReadMoves
        <5>2. QED
          BY <1>0, <2>0, <5>1 DEF Gone
      <4>2. CASE rst
        BY <1>0, <2>2, <4>2, EchoReadMoves
      <4>3. QED
        BY <4>1, <4>2
    <3>3. QED
      BY <1>0, <2>0, <3>1, <3>2
  <2>3. QED
    BY <1>4, <2>1, <2>2 DEF processConnection
<1>5. QED
  BY <1>2, <1>3, <1>4 DEF Next

\* Every step of the connection is a step of the echo channel.
LEMMA ChannelStep ==
  ASSUME Served, Answered, Served', Answered', [Next]_vars
  PROVE  [Channel!Next]_(Channel!vars)
<1>1. /\ rcvd' \in Nat /\ rcvd' >= rcvd
      /\ Len(out) \in Nat /\ Len(out') \in Nat /\ Len(out') >= Len(out)
      /\ ~Gone /\ Gone' => out' = out
      /\ Gone => Gone' /\ UNCHANGED <<rcvd, out>>
  BY StreamMoves
<1>2. Len(out') <= rcvd' /\ out' = Channel!Stream(Len(out'))
  <2>1. /\ out' \in Seq(Nat) /\ \A i \in 1..Len(out') : out'[i] = i
        /\ Len(out') <= rcvd'
    BY DEF Served, StuckOnlyAfterFullRead, TypeOK, SocketType, Answered, EchoIsPrefix
  <2>2. PICK s \in Seq(Nat) : s = out'
    BY <2>1
  <2>3. QED
    BY <2>1, <2>2, ReplyIsStream
<1>3. CASE Gone
  BY <1>1, <1>3 DEF Channel!vars, Gone
<1>4. CASE ~Gone /\ Gone'
  BY <1>1, <1>4 DEF Channel!Next, Channel!Close, Gone
<1>5. CASE ~Gone /\ ~Gone'
  <2>1. Len(out') \in Len(out)..rcvd'
    BY <1>1, <1>2
  <2>2. QED
    BY <1>1, <1>2, <1>5, <2>1 DEF Channel!Next, Channel!Echo, Gone
<1>6. QED
  BY <1>3, <1>4, <1>5

\* echo_tcp.cpp implements the echo channel although it never looks at what
\* write returns, for every buffer size and every peer that leaves no more
\* unanswered than the send buffer holds.
THEOREM ServerImplementsChannel ==
  ASSUME Window <= SndCap
  PROVE  Spec => ImplementsEchoChannel
<1>1. Init => Channel!Init
  BY DEF Init, SocketInit, Channel!Init
<1>2. Served /\ Answered /\ [Next]_vars => (Served /\ Answered)'
  BY ServedStep, AnsweredStep
<1>3. Served /\ Answered /\ (Served /\ Answered)' /\ [Next]_vars => [Channel!Next]_(Channel!vars)
  BY ChannelStep
<1>4. QED
  BY ServedInit, AnsweredInit, <1>1, <1>2, <1>3, PTL DEF Spec, ImplementsEchoChannel, Channel!Spec

=============================================================================
