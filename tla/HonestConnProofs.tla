-------------------------- MODULE HonestConnProofs --------------------------
(***************************************************************************)
(* Proofs about HonestConn for every buffer size, low-water mark, send     *)
(* buffer and number of bytes, and for both servers.                       *)
(***************************************************************************)
EXTENDS HonestConn, SequenceTheorems, TLAPS

-----------------------------------------------------------------------------
(* The operators the callbacks are built from.                             *)

\* The cells a descending copy of overlapping regions reads are cells of the
\* source region: memcpy in wcb_recv reads nothing outside to_send.
LEMMA HopsStayInside ==
  ASSUME NEW g \in Nat \ {0}, NEW n \in Nat, NEW k \in Nat, k < n
  PROVE  k + ((n - k + g - 1) \div g) * g \in 0..(g + n - 1)
<1> DEFINE a == n - k + g - 1
           q == a \div g
<1>1. a \in Nat
  OBVIOUS
<1>2. q \in Nat /\ g * q <= a
  BY <1>1, Z3
<1>3. q * g = g * q /\ g * q \in Nat
  BY <1>2, Z3
<1>4. QED
  BY <1>1, <1>2, <1>3

\* Compaction keeps the array an array of bytes, whatever the copy order.
LEMMA MemcpyType ==
  ASSUME NEW order, NEW b \in [Cells -> Nat],
         NEW g \in Nat, NEW n \in Nat, g + n <= ToSendSize
  PROVE  Memcpy(order, b, g, n) \in [Cells -> Nat]
<1> DEFINE hops(k) == (n - k + g - 1) \div g
           from(k) == IF order = "forward" \/ g = 0 THEN g + k ELSE k + hops(k) * g
<1>1. ASSUME NEW k \in Cells, k < n
      PROVE  from(k) \in Cells
  <2>1. k \in Nat
    BY SizeAssumption DEF Cells
  <2>2. CASE order = "forward" \/ g = 0
    BY <1>1, <2>1, <2>2, SizeAssumption DEF Cells
  <2>3. CASE ~(order = "forward" \/ g = 0)
    <3>1. k + hops(k) * g \in 0..(g + n - 1)
      BY <1>1, <2>1, <2>3, HopsStayInside
    <3>2. from(k) = k + hops(k) * g
      BY <2>3
    <3> HIDE DEF from, hops
    <3>3. QED
      BY <3>1, <3>2, SizeAssumption DEF Cells
  <2>4. QED
    BY <2>2, <2>3
<1>2. Memcpy(order, b, g, n) = [k \in Cells |-> IF k < n THEN b[from(k)] ELSE b[k]]
  BY DEF Memcpy
<1> HIDE DEF from
<1>3. QED
  BY <1>1, <1>2

\* An ascending copy moves the bytes owed to the front of the array.
LEMMA MemcpyForward ==
  ASSUME NEW b \in [Cells -> Nat],
         NEW g \in Nat, NEW n \in Nat, g + n <= ToSendSize,
         NEW k \in 0..(n - 1)
  PROVE  Memcpy("forward", b, g, n)[k] = b[g + k]
  BY SizeAssumption DEF Memcpy, Cells

\* A slice of the array appended to the bytes already accepted by send.
LEMMA AppendSlice ==
  ASSUME NEW s \in Seq(Nat), NEW b \in [Cells -> Nat],
         NEW g \in Nat, NEW n \in Nat, g + n <= ToSendSize
  PROVE  /\ s \o Slice(b, g, n) \in Seq(Nat)
         /\ Len(s \o Slice(b, g, n)) = Len(s) + n
         /\ \A i \in 1..Len(s) : (s \o Slice(b, g, n))[i] = s[i]
         /\ \A i \in 1..n : (s \o Slice(b, g, n))[Len(s) + i] = b[g + i - 1]
<1>1. \A i \in 1..n : g + i - 1 \in Cells
  BY SizeAssumption DEF Cells
<1>2. Slice(b, g, n) \in Seq(Nat) /\ Len(Slice(b, g, n)) = n
  <2>1. Slice(b, g, n) \in [1..n -> Nat]
    BY <1>1 DEF Slice
  <2>2. QED
    BY <2>1, SeqDef
<1>3. \A i \in 1..n : Slice(b, g, n)[i] = b[g + i - 1]
  BY DEF Slice
<1> DEFINE t == Slice(b, g, n)
<1>4. t \in Seq(Nat) /\ Len(t) = n /\ \A i \in 1..n : t[i] = b[g + i - 1]
  BY <1>2, <1>3
<1> HIDE DEF t
<1>5. /\ s \o t \in Seq(Nat)
      /\ Len(s \o t) = Len(s) + Len(t)
      /\ \A i \in 1..(Len(s) + Len(t)) :
           (s \o t)[i] = IF i <= Len(s) THEN s[i] ELSE t[i - Len(s)]
  BY <1>4, ConcatProperties
<1>6. \A i \in 1..n : (s \o t)[Len(s) + i] = t[i]
  BY <1>4, <1>5
<1>7. QED
  BY <1>4, <1>5, <1>6 DEF t

\* What send makes of the reply s: n bytes of the array b from position g on.
Extended(s, b, g, n) == s \o Slice(b, g, n)

\* The reply grows by the bytes sent.
LEMMA ExtendedReply ==
  ASSUME NEW s \in Seq(Nat), NEW b \in [Cells -> Nat],
         NEW g \in Nat, NEW n \in Nat, g + n <= ToSendSize
  PROVE  /\ Len(Extended(s, b, g, n)) = Len(s) + n
         /\ \A i \in 1..Len(s) : Extended(s, b, g, n)[i] = s[i]
         /\ \A i \in 1..n : Extended(s, b, g, n)[Len(s) + i] = b[g + i - 1]
  BY AppendSlice, ZenonT(60) DEF Extended

-----------------------------------------------------------------------------
(* Types and bounds.  Each needs the other: the array stays an array only  *)
(* while every copy and every send stays inside it.  Watchers run only     *)
(* while the client is open, which the callbacks rely on.                  *)

IdleUnlessOpen == state # "open" => active = {}

Bounded == TypeOK /\ BufferBounds /\ IdleUnlessOpen

\* What wcb_recv works on after the room check: the bytes owed still fit, and
\* Room is exactly what is left behind them.
LEMMA KeptBounds ==
  ASSUME Bounded, NEW order
  PROVE  /\ Kept(order) \in [Cells -> Nat]
         /\ KeptBeg \in Nat /\ Room \in Nat
         /\ KeptBeg + to_send_size + Room = ToSendSize
<1>1. /\ to_send \in [Cells -> Nat]
      /\ to_send_beg \in Nat /\ to_send_size \in Nat
      /\ to_send_beg + to_send_size <= ToSendSize
      /\ ToSendSize \in Nat
  BY SizeAssumption DEF Bounded, TypeOK, SocketType, BufferBounds
<1>2. Kept(order) \in [Cells -> Nat]
  BY <1>1, MemcpyType DEF Kept
<1>3. QED
  BY <1>1, <1>2 DEF KeptBeg, Room, RemSize

\* recv never returns more than Room, so it writes inside the array.
LEMMA ReceivedType ==
  ASSUME TypeOK, NEW b \in [Cells -> Nat], KeptBeg \in Nat, NEW nb \in Nat
  PROVE  Received(b, nb) \in [Cells -> Nat]
<1>1. rcvd \in Nat /\ to_send_size \in Nat
  BY SocketAssumption DEF TypeOK, SocketType
<1>2. \A k \in Cells : k \in Int
  BY SizeAssumption DEF Cells
<1>3. \A k \in Cells : k \in (KeptBeg + to_send_size)..(KeptBeg + to_send_size + nb - 1)
         => rcvd + 1 + (k - (KeptBeg + to_send_size)) \in Nat
  BY <1>1, <1>2
<1>4. QED
  BY <1>3 DEF Received

\* send accepts at most what it is offered.
LEMMA SendResultsBound ==
  ASSUME NEW n \in Nat, Free \in Int, NEW s \in SendResults(n)
  PROVE  s \in Nat /\ s <= n
  BY DEF SendResults, Least

\* The room in the send buffer is an integer.
LEMMA FreeType ==
  ASSUME TypeOK
  PROVE  Free \in Int
<1>1. Len(out) \in Nat /\ drained \in Int /\ SndCap \in Int
  BY SocketAssumption, LenProperties DEF TypeOK, SocketType
<1>2. QED
  BY <1>1 DEF Free

\* The attempt to send at the end of wcb_recv keeps types and bounds.
LEMMA SendNowBounded ==
  ASSUME Bounded, NEW b \in [Cells -> Nat], NEW g \in Nat, NEW n \in Nat,
         g + n <= ToSendSize, rcvd' \in 0..arrived, "recv" \in pending,
         SendNow(b, g, n), UNCHANGED <<file, age, peer>>
  PROVE  Bounded'
<1>0. Len(out) \in Nat /\ out \in Seq(Nat) /\ state = "open"
  BY LenProperties DEF Bounded, TypeOK, SocketType, IdleUnlessOpen
<1>1. CASE rst /\ echo_client_del /\ UNCHANGED <<client, out>>
  BY <1>1 DEF Bounded, TypeOK, SocketType, BufferBounds, IdleUnlessOpen, echo_client_del, client, peer, socket, Watchers
<1>2. CASE /\ ~rst /\ Free = 0
           /\ to_send' = b /\ to_send_beg' = g /\ to_send_size' = n
           /\ active' = active \union {"send"}
           /\ pending' = pending \ {"recv"}
           /\ UNCHANGED <<state, out>>
  BY <1>0, <1>2 DEF Bounded, TypeOK, SocketType, BufferBounds, IdleUnlessOpen, peer, socket, Watchers
<1>3. ASSUME ~rst,
             NEW sent_nb \in SendResults(n),
             out' = out \o Slice(b, g, sent_nb),
             to_send' = b,
             to_send_beg' = g + sent_nb,
             to_send_size' = n - sent_nb,
             active' = IF to_send_size' > 0 THEN active \union {"send"} ELSE active,
             pending' = pending \ {"recv"},
             UNCHANGED state
      PROVE  Bounded'
  <2>1. sent_nb \in Nat /\ sent_nb <= n /\ g + sent_nb <= ToSendSize
    BY FreeType, SendResultsBound, SizeAssumption DEF Bounded
  <2>2. out' \in Seq(Nat) /\ Len(out') = Len(out) + sent_nb
    BY <1>0, <1>3, <2>1, AppendSlice
  <2>3. drained' \in 0..Len(out')
    BY <1>0, <2>1, <2>2 DEF Bounded, TypeOK, SocketType, peer, socket
  <2>4. active' \subseteq Watchers /\ pending' \subseteq active'
    BY <1>3 DEF Bounded, TypeOK, SocketType, Watchers
  <2>5. to_send_beg' \in Nat /\ to_send_size' \in Nat /\ BufferBounds'
    BY <1>3, <2>1, SizeAssumption DEF BufferBounds
  <2>6. QED
    BY <1>0, <1>3, <2>2, <2>3, <2>4, <2>5 DEF Bounded, TypeOK, SocketType, IdleUnlessOpen, peer, socket
<1>4. QED
  BY <1>1, <1>2, <1>3 DEF SendNow, SendFails, SendEagain, SendSome, StartIfOwed

\* Every callback, and every step of the loop and of the peer, keeps them.
LEMMA BoundedStep == Bounded /\ [Next]_vars => Bounded'
<1> SUFFICES ASSUME Bounded, [Next]_vars
             PROVE  Bounded'
  OBVIOUS
<1> USE DEF Bounded
<1>0. Len(out) \in Nat /\ out \in Seq(Nat)
  BY LenProperties DEF TypeOK, SocketType
<1>f. file' = file
  BY DEF Next, vars, server, echo_client_add, echo_client_wcb_timeout, echo_client_wcb_send,
         echo_client_wcb_recv, Poll, SpuriousPoll, Tick, Peer
<1> USE <1>f
<1>1. CASE echo_client_add
  <2>1. active = {} /\ pending = {}
    BY <1>1 DEF echo_client_add, TypeOK, SocketType, IdleUnlessOpen
  <2>2. state' = "open" \/ state' = "leaked"
    BY <1>1 DEF echo_client_add
  <2>3. CASE state' = "open"
    <3>1. active' \subseteq Watchers /\ pending' \subseteq active'
      BY <1>1, <2>1, <2>3 DEF echo_client_add, Watchers
    <3>2. age' \in 0..TimeoutTicks /\ to_send_beg' = 0 /\ to_send_size' = 0
      BY <1>1, <2>3, SizeAssumption DEF echo_client_add
    <3>3. UNCHANGED <<to_send, peer, rcvd, out>>
      BY <1>1, <2>3 DEF echo_client_add, client, socket
    <3>4. QED
      BY <2>3, <3>1, <3>2, <3>3, SizeAssumption
         DEF TypeOK, SocketType, BufferBounds, IdleUnlessOpen, peer, socket
  <2>4. CASE state' = "leaked"
    <3>1. UNCHANGED <<active, pending, client, age, socket>>
      BY <1>1, <2>4 DEF echo_client_add
    <3>2. QED
      BY <2>1, <2>4, <3>1 DEF TypeOK, SocketType, BufferBounds, IdleUnlessOpen, client, peer, socket
  <2>5. QED
    BY <2>2, <2>3, <2>4
<1>2. CASE echo_client_wcb_timeout
  BY <1>2 DEF echo_client_wcb_timeout, echo_client_del, TypeOK, SocketType, BufferBounds, IdleUnlessOpen, client, peer, socket
<1>3. CASE echo_client_wcb_send
  <2>1. CASE rst /\ echo_client_del /\ UNCHANGED <<client, out>>
    BY <1>3, <2>1 DEF echo_client_wcb_send, echo_client_del, TypeOK, SocketType, BufferBounds, IdleUnlessOpen, client, peer, socket
  <2>2. CASE /\ pending' = pending \ {"send"}
             /\ UNCHANGED <<state, active, client, out>>
    BY <1>3, <2>2 DEF echo_client_wcb_send, TypeOK, SocketType, BufferBounds, IdleUnlessOpen, client, peer, socket
  <2>3. ASSUME NEW sent_nb \in SendResults(to_send_size),
               out' = out \o Slice(to_send, to_send_beg, sent_nb),
               to_send_beg' = to_send_beg + sent_nb,
               to_send_size' = to_send_size - sent_nb,
               active' = IF to_send_size' > 0 THEN active ELSE active \ {"send"},
               pending' = pending \ {"send"},
               UNCHANGED <<state, to_send>>
        PROVE  Bounded'
    <3>1. /\ sent_nb \in Nat /\ sent_nb <= to_send_size
          /\ to_send_beg + sent_nb <= ToSendSize
      BY FreeType, SendResultsBound, SizeAssumption DEF TypeOK, SocketType, BufferBounds, IdleUnlessOpen
    <3>2. out' \in Seq(Nat) /\ Len(out') = Len(out) + sent_nb
      BY <1>0, <2>3, <3>1, AppendSlice DEF TypeOK, SocketType
    <3>3. drained' \in 0..Len(out')
      BY <1>0, <1>3, <3>1, <3>2 DEF echo_client_wcb_send, TypeOK, SocketType, peer, socket
    <3>4. active' \subseteq Watchers /\ pending' \subseteq active'
      BY <2>3 DEF TypeOK, SocketType
    <3>5. to_send_beg' \in Nat /\ to_send_size' \in Nat /\ BufferBounds'
      BY <2>3, <3>1, SizeAssumption DEF TypeOK, SocketType, BufferBounds, IdleUnlessOpen
    <3>6. QED
      BY <1>3, <2>3, <3>2, <3>3, <3>4, <3>5 DEF echo_client_wcb_send, TypeOK, SocketType, IdleUnlessOpen, peer, socket
  <2>4. QED
    BY <1>3, <2>1, <2>2, <2>3 DEF echo_client_wcb_send
<1>4. CASE echo_client_wcb_recv
  <2>1. CASE RecvFails
    BY <1>4, <2>1 DEF echo_client_wcb_recv, RecvFails, echo_client_del, TypeOK, SocketType, BufferBounds, IdleUnlessOpen, client, peer, socket
  <2>2. CASE RecvZeroServer
    BY <1>4, <2>2 DEF echo_client_wcb_recv, RecvZeroServer, RecvZero, echo_client_del,
                      TypeOK, SocketType, BufferBounds, IdleUnlessOpen, client, peer, socket
  <2>3. ASSUME NEW order \in MemcpyOrders, RecvEagain(Kept(order))
        PROVE  Bounded'
    <3>a. /\ Kept(order) \in [Cells -> Nat] /\ KeptBeg \in Nat /\ Room \in Nat
          /\ KeptBeg + to_send_size + Room = ToSendSize
      BY KeptBounds
    <3>b. to_send_size \in Nat /\ ToSendSize \in Nat
      BY SizeAssumption DEF TypeOK
    <3>1. Kept(order) \in [Cells -> Nat] /\ KeptBeg \in Nat /\ KeptBeg + to_send_size <= ToSendSize
      BY <3>a, <3>b
    <3>2. QED
      BY <1>4, <2>3, <3>1, SizeAssumption
         DEF echo_client_wcb_recv, RecvEagain, TypeOK, SocketType, BufferBounds, IdleUnlessOpen, peer, socket
  <2>4. ASSUME NEW order \in MemcpyOrders, RecvZeroThread(Kept(order))
        PROVE  Bounded'
    <3>a. /\ Kept(order) \in [Cells -> Nat] /\ KeptBeg \in Nat /\ Room \in Nat
          /\ KeptBeg + to_send_size + Room = ToSendSize
      BY KeptBounds
    <3>b. to_send_size \in Nat /\ ToSendSize \in Nat
      BY SizeAssumption DEF TypeOK
    <3>1. Kept(order) \in [Cells -> Nat] /\ KeptBeg \in Nat /\ KeptBeg + to_send_size <= ToSendSize
      BY <3>a, <3>b
    <3>2. QED
      BY <1>4, <2>4, <3>1
         DEF echo_client_wcb_recv, RecvZeroThread, RecvZero, TypeOK, SocketType, BufferBounds, IdleUnlessOpen, peer, socket
  <2>5. ASSUME NEW order \in MemcpyOrders, RecvData(Kept(order))
        PROVE  Bounded'
    <3>1. /\ Kept(order) \in [Cells -> Nat] /\ KeptBeg \in Nat /\ Room \in Nat
          /\ KeptBeg + to_send_size + Room = ToSendSize
      BY KeptBounds
    <3> DEFINE nb == Least(Available, Room)
    <3>2. nb \in Nat /\ nb <= Available /\ nb <= Room /\ Available \in Int
      BY <2>5, <3>1, SocketAssumption DEF RecvData, Least, Available, TypeOK, SocketType
    <3>3. Received(Kept(order), nb) \in [Cells -> Nat]
      BY <3>1, <3>2, ReceivedType
    <3>4. rcvd' \in 0..arrived
      BY <2>5, <3>2, SocketAssumption DEF RecvData, Available, TypeOK, SocketType
    <3>5. to_send_size + nb \in Nat
      BY <3>2 DEF TypeOK, SocketType
    <3>6. SendNow(Received(Kept(order), nb), KeptBeg, to_send_size + nb)
      BY <2>5 DEF RecvData
    <3> HIDE DEF nb
    <3>b. PICK b \in [Cells -> Nat] : b = Received(Kept(order), nb)
      BY <3>3
    <3>g. PICK g \in Nat : g = KeptBeg
      BY <3>1
    <3>n. PICK n \in Nat : n = to_send_size + nb
      BY <3>5
    <3>7. g + n <= ToSendSize
      BY <3>1, <3>2, <3>g, <3>n, SizeAssumption DEF TypeOK, SocketType
    <3>8. UNCHANGED <<file, age, peer>> /\ "recv" \in pending
      BY <1>4, <2>5 DEF echo_client_wcb_recv, RecvData
    <3>9. QED
      BY <3>4, <3>6, <3>7, <3>8, <3>b, <3>g, <3>n, SendNowBounded
  <2>6. QED
    BY <1>4, <2>1, <2>2, <2>3, <2>4, <2>5 DEF echo_client_wcb_recv
<1>5. CASE Poll \/ SpuriousPoll
  BY <1>5 DEF Poll, SpuriousPoll, Ready, TypeOK, SocketType, BufferBounds, IdleUnlessOpen, client, peer, socket
<1>6. CASE Tick
  BY <1>6, SizeAssumption DEF Tick, TypeOK, SocketType, BufferBounds, IdleUnlessOpen, client, peer, socket
<1>p. ASSUME Peer
      PROVE  PeerSends \/ PeerReads \/ PeerCloses \/ ConnectionFails
  BY <1>p DEF Peer
<1>7. CASE Peer /\ (PeerSends \/ PeerReads)
  <2>1. arrived' \in 0..MaxBytes /\ rcvd' \in 0..arrived'
    BY <1>7, SocketAssumption DEF PeerSends, PeerReads, TypeOK, SocketType
  <2>2. drained' \in 0..Len(out')
    BY <1>0, <1>7 DEF PeerSends, PeerReads, TypeOK, SocketType
  <2>3. UNCHANGED <<state, active, pending, client, age, fin, rst, out>>
    BY <1>7 DEF Peer, server, PeerSends, PeerReads
  <2>4. QED
    BY <2>1, <2>2, <2>3 DEF TypeOK, SocketType, BufferBounds, IdleUnlessOpen, client
<1>8. CASE Peer /\ (PeerCloses \/ ConnectionFails)
  BY <1>8 DEF Peer, server, PeerCloses, ConnectionFails, TypeOK, SocketType, BufferBounds, IdleUnlessOpen, client
<1>9. CASE UNCHANGED vars
  BY <1>9 DEF vars, server, socket, TypeOK, SocketType, BufferBounds, IdleUnlessOpen, client, peer, socket
<1>10. QED
  BY <1>1, <1>2, <1>3, <1>4, <1>5, <1>6, <1>p, <1>7, <1>8, <1>9 DEF Next

\* The bounds hold before the client is added.
LEMMA BoundedInit == Init => Bounded
<1> SUFFICES ASSUME Init PROVE Bounded
  OBVIOUS
<1>1. out \in Seq(Nat) /\ drained \in 0..Len(out)
  BY EmptySeq DEF Init, SocketInit
<1>2. fin \in BOOLEAN /\ rst \in BOOLEAN
  BY DEF Init, SocketInit
<1>3. to_send \in [Cells -> Nat]
  BY DEF Init, SocketInit
<1>4. QED
  BY <1>1, <1>2, <1>3, SizeAssumption, SocketAssumption DEF Init, SocketInit, Bounded, TypeOK, SocketType, BufferBounds, IdleUnlessOpen

\* The connection's state keeps its types and to_send is never overrun, for
\* both servers and whichever way the C library copies: wcb_recv, wcb_send and
\* the compaction agree on where the bytes owed begin and end.
THEOREM BoundsHold == Spec => [](TypeOK /\ BufferBounds)
  BY BoundedInit, BoundedStep, PTL DEF Spec, Bounded

-----------------------------------------------------------------------------
(* Faithfulness.  EchoIsPrefix speaks of the bytes already sent; to be      *)
(* inductive it needs to know what the array holds: the n bytes owed, at    *)
(* offset g, are the n bytes of the stream that follow the m bytes sent.    *)

Owes(b, g, n, m) == \A k \in 0..(n - 1) : b[g + k] = m + 1 + k

Faithful ==
  /\ EchoIsPrefix
  /\ Len(out) <= rcvd
  /\ state = "queued" => to_send_size = 0
  /\ state # "closed" => /\ Len(out) + to_send_size = rcvd
                         /\ Owes(to_send, to_send_beg, to_send_size, Len(out))

\* An ascending compaction moves the bytes owed and changes none of them.
LEMMA KeptOwes ==
  ASSUME Bounded, NEW m \in Nat, Owes(to_send, to_send_beg, to_send_size, m)
  PROVE  Owes(Kept("forward"), KeptBeg, to_send_size, m)
<1>1. /\ to_send \in [Cells -> Nat]
      /\ to_send_beg \in Nat /\ to_send_size \in Nat
      /\ to_send_beg + to_send_size <= ToSendSize
  BY DEF Bounded, TypeOK, SocketType, BufferBounds
<1>2. CASE Compacts
  <2>1. \A k \in 0..(to_send_size - 1) :
          Memcpy("forward", to_send, to_send_beg, to_send_size)[k] = to_send[to_send_beg + k]
    BY <1>1, MemcpyForward
  <2>2. \A k \in 0..(to_send_size - 1) : 0 + k = k
    BY <1>1
  <2>3. QED
    BY <1>2, <2>1, <2>2 DEF Kept, KeptBeg, Owes
<1>3. CASE ~Compacts
  BY <1>3 DEF Kept, KeptBeg
<1>4. QED
  BY <1>2, <1>3

\* recv appends the next bytes of the stream behind the bytes owed.
LEMMA ReceivedOwes ==
  ASSUME Bounded, NEW b \in [Cells -> Nat], NEW nb \in Nat, NEW m \in Nat,
         KeptBeg \in Nat, KeptBeg + to_send_size + nb <= ToSendSize,
         m + to_send_size = rcvd,
         Owes(b, KeptBeg, to_send_size, m)
  PROVE  Owes(Received(b, nb), KeptBeg, to_send_size + nb, m)
<1>1. to_send_size \in Nat /\ rcvd \in Nat /\ ToSendSize \in Nat
  BY SizeAssumption, SocketAssumption DEF Bounded, TypeOK, SocketType
<1> SUFFICES ASSUME NEW k \in 0..(to_send_size + nb - 1)
             PROVE  Received(b, nb)[KeptBeg + k] = m + 1 + k
  BY <1>1 DEF Owes
<1>2. k \in Nat /\ KeptBeg + k \in Cells
  BY <1>1 DEF Cells
<1>3. CASE k < to_send_size
  <2>1. k \in 0..(to_send_size - 1)
    BY <1>1, <1>2, <1>3
  <2>2. KeptBeg + k \notin (KeptBeg + to_send_size)..(KeptBeg + to_send_size + nb - 1)
    BY <1>1, <1>2, <1>3
  <2>3. Received(b, nb)[KeptBeg + k] = b[KeptBeg + k]
    BY <1>2, <2>2 DEF Received
  <2>4. QED
    BY <2>1, <2>3 DEF Owes
<1>4. CASE k >= to_send_size
  <2>1. KeptBeg + k \in (KeptBeg + to_send_size)..(KeptBeg + to_send_size + nb - 1)
    BY <1>1, <1>2, <1>4
  <2>2. Received(b, nb)[KeptBeg + k] = rcvd + 1 + (KeptBeg + k - (KeptBeg + to_send_size))
    BY <1>1, <1>2, <2>1 DEF Received
  <2>3. QED
    BY <1>1, <1>2, <2>2
<1>5. QED
  BY <1>1, <1>2, <1>3, <1>4

\* What a successful send does to the stream: it extends it faithfully, and
\* the bytes still owed follow on.
LEMMA SentFaithful ==
  ASSUME out \in Seq(Nat), EchoIsPrefix,
         NEW b \in [Cells -> Nat], NEW g \in Nat, NEW n \in Nat, g + n <= ToSendSize,
         Owes(b, g, n, Len(out)),
         NEW sent_nb \in 0..n,
         out' = out \o Slice(b, g, sent_nb)
  PROVE  /\ EchoIsPrefix'
         /\ Len(out') = Len(out) + sent_nb
         /\ Owes(b, g + sent_nb, n - sent_nb, Len(out'))
<1>1. Len(out) \in Nat /\ sent_nb \in Nat /\ g + sent_nb <= ToSendSize
  BY LenProperties, SizeAssumption
<1>2. /\ Len(out') = Len(out) + sent_nb
      /\ \A i \in 1..Len(out) : out'[i] = out[i]
      /\ \A i \in 1..sent_nb : out'[Len(out) + i] = b[g + i - 1]
  <2>1. PICK s \in Seq(Nat), m \in Nat : s = out /\ m = sent_nb
    BY <1>1
  <2>2. g + m <= ToSendSize /\ out' = Extended(s, b, g, m)
    BY <1>1, <2>1 DEF Extended
  <2>3. /\ Len(Extended(s, b, g, m)) = Len(s) + m
        /\ \A i \in 1..Len(s) : Extended(s, b, g, m)[i] = s[i]
        /\ \A i \in 1..m : Extended(s, b, g, m)[Len(s) + i] = b[g + i - 1]
    BY <2>2, ExtendedReply, ZenonT(60)
  <2>4. QED
    BY <2>1, <2>2, <2>3
<1>3. EchoIsPrefix'
  <2> SUFFICES ASSUME NEW i \in 1..Len(out')
               PROVE  out'[i] = i
    BY DEF EchoIsPrefix
  <2>1. CASE i <= Len(out)
    BY <1>1, <1>2, <2>1 DEF EchoIsPrefix
  <2>2. CASE i > Len(out)
    <3> DEFINE j == i - Len(out)
    <3>1. j \in 1..sent_nb /\ i = Len(out) + j
      BY <1>1, <1>2, <2>2
    <3>2. j - 1 \in 0..(n - 1) /\ g + (j - 1) = g + j - 1
      BY <1>1, <3>1
    <3>3. b[g + (j - 1)] = Len(out) + 1 + (j - 1)
      BY <3>2 DEF Owes
    <3> HIDE DEF j
    <3>4. out'[i] = b[g + j - 1]
      BY <1>2, <3>1
    <3>5. QED
      BY <1>1, <3>1, <3>2, <3>3, <3>4
  <2>3. QED
    BY <1>1, <1>2, <2>1, <2>2
<1>4. Owes(b, g + sent_nb, n - sent_nb, Len(out'))
  <2> SUFFICES ASSUME NEW k \in 0..(n - sent_nb - 1)
               PROVE  b[g + sent_nb + k] = Len(out') + 1 + k
    BY DEF Owes
  <2>1. sent_nb + k \in 0..(n - 1) /\ g + sent_nb + k = g + (sent_nb + k)
    BY <1>1
  <2>2. b[g + (sent_nb + k)] = Len(out) + 1 + (sent_nb + k)
    BY <2>1 DEF Owes
  <2>3. QED
    BY <1>1, <1>2, <2>1, <2>2
<1>5. QED
  BY <1>2, <1>3, <1>4

\* The attempt to send at the end of wcb_recv keeps the stream faithful.
LEMMA SendNowFaithful ==
  ASSUME Bounded, EchoIsPrefix, "recv" \in pending,
         NEW b \in [Cells -> Nat], NEW g \in Nat, NEW n \in Nat, g + n <= ToSendSize,
         Owes(b, g, n, Len(out)),
         rcvd' = Len(out) + n,
         SendNow(b, g, n)
  PROVE  Faithful'
<1>0. out \in Seq(Nat) /\ Len(out) \in Nat /\ state = "open"
  BY LenProperties DEF Bounded, TypeOK, SocketType, IdleUnlessOpen
<1>1. CASE rst /\ echo_client_del /\ UNCHANGED <<client, out>>
  BY <1>0, <1>1 DEF Faithful, EchoIsPrefix, echo_client_del
<1>2. CASE /\ ~rst /\ Free = 0
           /\ to_send' = b /\ to_send_beg' = g /\ to_send_size' = n
           /\ active' = active \union {"send"}
           /\ pending' = pending \ {"recv"}
           /\ UNCHANGED <<state, out>>
  BY <1>0, <1>2 DEF Faithful, EchoIsPrefix, Owes
<1>3. ASSUME NEW sent_nb \in SendResults(n),
             out' = out \o Slice(b, g, sent_nb),
             to_send' = b,
             to_send_beg' = g + sent_nb,
             to_send_size' = n - sent_nb,
             UNCHANGED state
      PROVE  Faithful'
  <2>1. sent_nb \in 0..n
    BY FreeType, SendResultsBound DEF Bounded
  <2>2. /\ EchoIsPrefix'
        /\ Len(out') = Len(out) + sent_nb
        /\ Owes(b, g + sent_nb, n - sent_nb, Len(out'))
    BY <1>0, <1>3, <2>1, SentFaithful
  <2>3. Owes(to_send, to_send_beg, to_send_size, Len(out))'
    BY <1>3, <2>2 DEF Owes
  <2>4. Len(out') <= rcvd' /\ Len(out') + to_send_size' = rcvd'
    BY <1>0, <1>3, <2>1, <2>2
  <2>5. QED
    BY <1>0, <1>3, <2>2, <2>3, <2>4 DEF Faithful
<1>4. QED
  BY <1>1, <1>2, <1>3 DEF SendNow, SendFails, SendEagain, SendSome, StartIfOwed

\* No step of the server loses, repeats or reorders a byte.
LEMMA FaithfulStep ==
  ASSUME "backward" \notin MemcpyOrders
  PROVE  Bounded /\ Faithful /\ [Next]_vars => Faithful'
<1> SUFFICES ASSUME Bounded, Faithful, [Next]_vars
             PROVE  Faithful'
  OBVIOUS
<1>0. /\ out \in Seq(Nat) /\ Len(out) \in Nat
      /\ to_send_size \in Nat /\ rcvd \in Nat
      /\ "recv" \in pending \/ "send" \in pending \/ "timeout" \in pending => state = "open"
  BY SocketAssumption, LenProperties DEF Bounded, TypeOK, SocketType, IdleUnlessOpen
<1>1. CASE echo_client_add
  <2>1. to_send_size = 0 /\ UNCHANGED <<out, rcvd>> /\ to_send_size' = 0
    BY <1>1 DEF Faithful, echo_client_add, client, socket
  <2>2. state' \in {"open", "leaked"} /\ state = "queued"
    BY <1>1 DEF echo_client_add
  <2>3. Owes(to_send, to_send_beg, to_send_size, Len(out))'
    BY <2>1 DEF Owes
  <2>4. QED
    BY <2>1, <2>2, <2>3 DEF Faithful, EchoIsPrefix
<1>2. CASE echo_client_wcb_timeout
  BY <1>0, <1>2 DEF echo_client_wcb_timeout, echo_client_del, Faithful, EchoIsPrefix, client, socket
<1>3. CASE echo_client_wcb_send
  <2>0. state = "open" /\ UNCHANGED rcvd
    BY <1>0, <1>3 DEF echo_client_wcb_send
  <2>1. CASE rst /\ echo_client_del /\ UNCHANGED <<client, out>>
    BY <2>0, <2>1 DEF echo_client_del, Faithful, EchoIsPrefix
  <2>2. CASE UNCHANGED <<state, active, client, out>>
    BY <2>0, <2>2 DEF Faithful, EchoIsPrefix, Owes, client
  <2>3. ASSUME NEW sent_nb \in SendResults(to_send_size),
               out' = out \o Slice(to_send, to_send_beg, sent_nb),
               to_send_beg' = to_send_beg + sent_nb,
               to_send_size' = to_send_size - sent_nb,
               UNCHANGED <<state, to_send>>
        PROVE  Faithful'
    <3>1. sent_nb \in 0..to_send_size
      BY <1>0, FreeType, SendResultsBound DEF Bounded
    <3>2. /\ to_send \in [Cells -> Nat] /\ to_send_beg \in Nat
          /\ to_send_beg + to_send_size <= ToSendSize
          /\ EchoIsPrefix /\ Owes(to_send, to_send_beg, to_send_size, Len(out))
          /\ Len(out) + to_send_size = rcvd
      BY <2>0 DEF Bounded, TypeOK, SocketType, BufferBounds, Faithful
    <3>b. PICK b \in [Cells -> Nat] : b = to_send
      BY <3>2
    <3>g. PICK g \in Nat : g = to_send_beg
      BY <3>2
    <3>n. PICK n \in Nat : n = to_send_size
      BY <1>0
    <3>s. /\ sent_nb \in 0..n /\ g + n <= ToSendSize /\ Owes(b, g, n, Len(out))
          /\ out' = out \o Slice(b, g, sent_nb)
      BY <2>3, <3>1, <3>2, <3>b, <3>g, <3>n
    <3>t. /\ EchoIsPrefix'
          /\ Len(out') = Len(out) + sent_nb
          /\ Owes(b, g + sent_nb, n - sent_nb, Len(out'))
      BY <1>0, <3>2, <3>b, <3>g, <3>n, <3>s, SentFaithful
    <3>3. /\ EchoIsPrefix'
          /\ Len(out') = Len(out) + sent_nb
          /\ Owes(to_send, to_send_beg + sent_nb, to_send_size - sent_nb, Len(out'))
      BY <3>b, <3>g, <3>n, <3>t
    <3>4. Owes(to_send, to_send_beg, to_send_size, Len(out))'
      BY <2>3, <3>3 DEF Owes
    <3>5. Len(out') <= rcvd' /\ Len(out') + to_send_size' = rcvd'
      <4>1. Len(out') = Len(out) + sent_nb /\ to_send_size' = to_send_size - sent_nb
        BY <2>3, <3>3
      <4>2. Len(out) + to_send_size = rcvd /\ rcvd' = rcvd
        BY <2>0, <3>2
      <4>3. QED
        <5>1. Len(out) \in Nat /\ to_send_size \in Nat
          BY <1>0
        <5>2. QED
          BY <3>1, <4>1, <4>2, <5>1
    <3>6. QED
      BY <2>0, <2>3, <3>3, <3>4, <3>5 DEF Faithful
  <2>4. QED
    BY <1>3, <2>1, <2>2, <2>3 DEF echo_client_wcb_send
<1>4. CASE echo_client_wcb_recv
  <2>0. /\ state = "open" /\ "recv" \in pending
        /\ EchoIsPrefix /\ Owes(to_send, to_send_beg, to_send_size, Len(out))
        /\ Len(out) + to_send_size = rcvd
    BY <1>0, <1>4 DEF echo_client_wcb_recv, Faithful
  <2>1. CASE RecvFails \/ RecvZeroServer
    BY <2>0, <2>1 DEF RecvFails, RecvZeroServer, RecvZero, echo_client_del, Faithful, EchoIsPrefix
  <2>2. ASSUME NEW order \in MemcpyOrders
        PROVE  /\ order = "forward"
               /\ Owes(Kept(order), KeptBeg, to_send_size, Len(out))
    BY <1>0, <2>0, ChoiceAssumption, KeptOwes
  <2>3. ASSUME NEW order \in MemcpyOrders,
               RecvEagain(Kept(order)) \/ RecvZeroThread(Kept(order))
        PROVE  Faithful'
    <3>1. /\ to_send' = Kept(order) /\ to_send_beg' = KeptBeg
          /\ UNCHANGED <<state, to_send_size, rcvd, out>>
      BY <2>3 DEF RecvEagain, RecvZeroThread, RecvZero
    <3>2. Owes(to_send, to_send_beg, to_send_size, Len(out))'
      BY <2>2, <3>1 DEF Owes
    <3>3. QED
      BY <2>0, <3>1, <3>2 DEF Faithful, EchoIsPrefix
  <2>4. ASSUME NEW order \in MemcpyOrders, RecvData(Kept(order))
        PROVE  Faithful'
    <3>1. /\ Kept(order) \in [Cells -> Nat] /\ KeptBeg \in Nat /\ Room \in Nat
          /\ KeptBeg + to_send_size + Room = ToSendSize
      BY KeptBounds
    <3> DEFINE nb == Least(Available, Room)
    <3>2. nb \in Nat /\ nb <= Room
      BY <2>4, <3>1, SocketAssumption DEF RecvData, Least, Available, Bounded, TypeOK, SocketType
    <3>3. rcvd' = rcvd + nb /\ SendNow(Received(Kept(order), nb), KeptBeg, to_send_size + nb)
      BY <2>4 DEF RecvData
    <3> HIDE DEF nb
    <3>4. KeptBeg + to_send_size + nb <= ToSendSize
      BY <1>0, <3>1, <3>2, SizeAssumption
    <3>5. Received(Kept(order), nb) \in [Cells -> Nat]
      BY <3>1, <3>2, ReceivedType DEF Bounded
    <3>k. PICK kept \in [Cells -> Nat] : kept = Kept(order)
      BY <3>1
    <3>m. PICK m \in Nat : m = Len(out)
      BY <1>0
    <3>6. Owes(Received(kept, nb), KeptBeg, to_send_size + nb, m)
      <4>1. PICK nn \in Nat : nn = nb
        BY <3>2
      <4>2. Owes(Received(kept, nn), KeptBeg, to_send_size + nn, m)
        <5>1. Owes(kept, KeptBeg, to_send_size, m) /\ m + to_send_size = rcvd
          BY <2>0, <2>2, <3>k, <3>m
        <5>2. KeptBeg + to_send_size + nn <= ToSendSize
          BY <3>4, <4>1
        <5>3. QED
          BY <3>1, <5>1, <5>2, ReceivedOwes
      <4>3. QED
        BY <4>1, <4>2
    <3>b. PICK b \in [Cells -> Nat] : b = Received(Kept(order), nb)
      BY <3>5
    <3>g. PICK g \in Nat : g = KeptBeg
      BY <3>1
    <3>n. PICK n \in Nat : n = to_send_size + nb
      BY <1>0, <3>2
    <3>7. Owes(b, g, n, Len(out))
      BY <3>6, <3>k, <3>m, <3>b, <3>g, <3>n
    <3>8. SendNow(b, g, n)
      BY <3>3, <3>b, <3>g, <3>n
    <3>9. g + n <= ToSendSize /\ rcvd' = Len(out) + n
      <4>1. g + n = KeptBeg + to_send_size + nb
        BY <1>0, <3>1, <3>2, <3>g, <3>n
      <4>2. rcvd' = Len(out) + (to_send_size + nb)
        <5>1. rcvd' = rcvd + nb
          BY <3>3
        <5>2. Len(out) \in Nat /\ to_send_size \in Nat /\ rcvd = Len(out) + to_send_size
          BY <1>0, <2>0
        <5>3. QED
          BY <3>2, <5>1, <5>2
      <4>3. QED
        BY <3>4, <3>n, <4>1, <4>2
    <3>10. QED
      BY <2>0, <3>b, <3>g, <3>n, <3>7, <3>8, <3>9, SendNowFaithful
  <2>5. QED
    BY <1>4, <2>1, <2>3, <2>4 DEF echo_client_wcb_recv
<1>5. CASE Poll \/ SpuriousPoll \/ Tick
  BY <1>5 DEF Poll, SpuriousPoll, Tick, Faithful, EchoIsPrefix, Owes, client, socket
<1>6. CASE Peer
  BY <1>6 DEF Peer, server, PeerSends, PeerReads, PeerCloses, ConnectionFails, Faithful, EchoIsPrefix, Owes, client
<1>7. CASE UNCHANGED vars
  BY <1>7 DEF vars, server, socket, Faithful, EchoIsPrefix, Owes, client
<1>8. QED
  BY <1>1, <1>2, <1>3, <1>4, <1>5, <1>6, <1>7 DEF Next

\* Both invariants hold initially.
LEMMA InitInvariant == Init => Bounded /\ Faithful
<1> SUFFICES ASSUME Init PROVE Bounded /\ Faithful
  OBVIOUS
<1>1. out = <<>> /\ Len(out) = 0 /\ rcvd = 0 /\ to_send_size = 0
  BY EmptySeq DEF Init, SocketInit
<1>2. Owes(to_send, to_send_beg, to_send_size, Len(out))
  BY <1>1 DEF Owes
<1>3. Faithful
  BY <1>1, <1>2 DEF Faithful, EchoIsPrefix
<1>4. Bounded
  BY BoundedInit
<1>5. QED
  BY <1>3, <1>4

\* Every byte the server hands to send is the next byte of the client's
\* stream, for every buffer size, low-water mark and pattern of partial sends,
\* provided memcpy copies upwards (wcb_recv moves overlapping regions with it).
THEOREM EchoIsFaithful ==
  ASSUME "backward" \notin MemcpyOrders
  PROVE  Spec => []EchoIsPrefix
<1>1. Bounded /\ Faithful /\ [Next]_vars => (Bounded /\ Faithful)'
  BY BoundedStep, FaithfulStep
<1>2. Faithful => EchoIsPrefix
  BY DEF Faithful
<1>3. QED
  BY InitInvariant, <1>1, <1>2, PTL DEF Spec

(* The refinement.  A step takes bytes and replies with bytes or does      *)
(* neither; only an open client moves, and a step that closes it sends     *)
(* nothing.                                                                *)

\* Bytes taken and bytes sent only grow, a step that closes the client sends
\* nothing, and a closed client does neither.
LEMMA StreamMoves ==
  ASSUME Bounded, Bounded', [Next]_vars
  PROVE  /\ rcvd \in Nat /\ rcvd' \in Nat /\ rcvd' >= rcvd
         /\ Len(out) \in Nat /\ Len(out') \in Nat /\ Len(out') >= Len(out)
         /\ state' = "closed" => out' = out
         /\ state = "closed" => UNCHANGED <<state, rcvd, out>>
<1>0. /\ rcvd \in Nat /\ rcvd' \in Nat /\ Len(out) \in Nat /\ Len(out') \in Nat
      /\ out \in Seq(Nat) /\ to_send \in [Cells -> Nat] /\ to_send_beg \in Nat /\ to_send_size \in Nat
      /\ to_send_beg + to_send_size <= ToSendSize
      /\ pending # {} => state = "open"
  <2>1. rcvd \in Nat /\ rcvd' \in Nat
    BY SocketAssumption DEF Bounded, TypeOK, SocketType
  <2>2. out \in Seq(Nat) /\ out' \in Seq(Nat)
    BY DEF Bounded, TypeOK, SocketType
  <2>3. Len(out) \in Nat /\ Len(out') \in Nat
    BY <2>2, LenProperties
  <2>4. to_send \in [Cells -> Nat] /\ to_send_beg \in Nat /\ to_send_size \in Nat
    BY SizeAssumption DEF Bounded, TypeOK
  <2>5. to_send_beg + to_send_size <= ToSendSize
    BY <2>4 DEF Bounded, BufferBounds
  <2>6. pending # {} => state = "open"
    BY DEF Bounded, IdleUnlessOpen, TypeOK
  <2>7. QED
    BY <2>1, <2>2, <2>3, <2>4, <2>5, <2>6
<1>1. CASE UNCHANGED <<rcvd, out>> /\ (state = "closed" => state' = "closed")
  BY <1>0, <1>1
<1>2. CASE echo_client_add \/ echo_client_wcb_timeout \/ Poll \/ SpuriousPoll \/ Tick
  BY <1>0, <1>1, <1>2 DEF echo_client_add, echo_client_wcb_timeout, echo_client_del, Poll, SpuriousPoll, Tick, socket
<1>3. CASE Peer \/ UNCHANGED vars
  BY <1>0, <1>1, <1>3 DEF Peer, vars, server, socket, PeerSends, PeerCloses, ConnectionFails, PeerReads
<1>4. CASE echo_client_wcb_send
  <2>0. state = "open" /\ rcvd' = rcvd
    BY <1>0, <1>4 DEF echo_client_wcb_send
  <2>1. CASE UNCHANGED out
    BY <1>0, <2>0, <2>1
  <2>2. ASSUME NEW sent_nb \in SendResults(to_send_size),
               out' = out \o Slice(to_send, to_send_beg, sent_nb), UNCHANGED state
        PROVE  Len(out') >= Len(out)
    <3>1. sent_nb \in Nat /\ sent_nb <= to_send_size
      BY <1>0, FreeType, SendResultsBound DEF Bounded
    <3>2. to_send_beg + sent_nb <= ToSendSize
      BY <1>0, <3>1, SizeAssumption
    <3>3. PICK s \in Seq(Nat), b \in [Cells -> Nat], g \in Nat : s = out /\ b = to_send /\ g = to_send_beg
      BY <1>0
    <3>4. Len(s \o Slice(b, g, sent_nb)) = Len(s) + sent_nb
      BY <3>1, <3>2, <3>3, AppendSlice
    <3>5. Len(out') = Len(out) + sent_nb
      BY <2>2, <3>3, <3>4
    <3>6. QED
      BY <1>0, <3>1, <3>5
  <2>3. QED
    BY <1>0, <1>4, <2>0, <2>1, <2>2 DEF echo_client_wcb_send
<1>5. CASE echo_client_wcb_recv
  <2>0. state = "open"
    BY <1>0, <1>5 DEF echo_client_wcb_recv
  <2>1. CASE UNCHANGED <<rcvd, out>>
    BY <1>0, <2>0, <2>1
  <2>2. ASSUME NEW order \in MemcpyOrders, RecvData(Kept(order))
        PROVE  rcvd' >= rcvd /\ Len(out') >= Len(out) /\ (state' = "closed" => out' = out)
    <3>1. /\ Kept(order) \in [Cells -> Nat] /\ KeptBeg \in Nat /\ Room \in Nat
          /\ KeptBeg + to_send_size + Room = ToSendSize
      BY KeptBounds
    <3> DEFINE nb == Least(Available, Room)
    <3>2. nb \in Nat /\ nb <= Room /\ rcvd' = rcvd + nb
      BY <2>2, <3>1, SocketAssumption DEF RecvData, Least, Available, Bounded, TypeOK, SocketType
    <3>3. SendNow(Received(Kept(order), nb), KeptBeg, to_send_size + nb)
      BY <2>2 DEF RecvData
    <3> HIDE DEF nb
    <3>b. PICK b \in [Cells -> Nat] : b = Received(Kept(order), nb)
      BY <3>1, <3>2, ReceivedType DEF Bounded
    <3>4. CASE SendFails \/ SendEagain(b, KeptBeg, to_send_size + nb)
      BY <1>0, <2>0, <3>2, <3>4 DEF SendFails, SendEagain
    <3>5. ASSUME NEW sent_nb \in SendResults(to_send_size + nb),
                 out' = out \o Slice(b, KeptBeg, sent_nb), UNCHANGED state
          PROVE  Len(out') >= Len(out)
      <4>1. sent_nb \in Nat /\ sent_nb <= to_send_size + nb
        BY <1>0, <3>2, FreeType, SendResultsBound DEF Bounded
      <4>2. KeptBeg + sent_nb <= ToSendSize
        BY <1>0, <3>1, <3>2, <4>1, SizeAssumption
      <4>3. Len(out') = Len(out) + sent_nb
        <5>1. PICK g \in Nat : g = KeptBeg
          BY <3>1
        <5>2. g + sent_nb <= ToSendSize /\ out' = out \o Slice(b, g, sent_nb)
          BY <3>5, <4>2, <5>1
        <5>3. PICK s \in Seq(Nat) : s = out
          BY <1>0
        <5>4. Len(s \o Slice(b, g, sent_nb)) = Len(s) + sent_nb
          BY <4>1, <5>2, AppendSlice
        <5>5. QED
          BY <5>2, <5>3, <5>4
      <4>4. QED
        BY <1>0, <4>1, <4>3
    <3>6. CASE SendSome(b, KeptBeg, to_send_size + nb)
      BY <1>0, <2>0, <3>2, <3>5, <3>6 DEF SendSome
    <3>7. QED
      BY <3>3, <3>b, <3>4, <3>6 DEF SendNow
  <2>3. CASE RecvFails \/ RecvZeroServer \/ \E order \in MemcpyOrders :
               RecvEagain(Kept(order)) \/ RecvZeroThread(Kept(order))
    BY <2>1, <2>3 DEF RecvFails, RecvZeroServer, RecvZero, RecvEagain, RecvZeroThread
  <2>4. QED
    BY <1>0, <1>5, <2>0, <2>2, <2>3 DEF echo_client_wcb_recv
<1>6. QED
  BY <1>2, <1>3, <1>4, <1>5 DEF Next

\* A faithful reply is the stream up to its length.
LEMMA ReplyIsStream ==
  ASSUME NEW s \in Seq(Nat), \A i \in 1..Len(s) : s[i] = i
  PROVE  s = Channel!Stream(Len(s))
  BY LenProperties, SeqDef DEF Channel!Stream

\* Every step of a buffering server is a step of the echo channel.
LEMMA ChannelStep ==
  ASSUME Bounded, Faithful, Bounded', Faithful', [Next]_vars
  PROVE  [Channel!Next]_(Channel!vars)
<1>1. /\ rcvd' \in Nat /\ rcvd' >= rcvd
      /\ Len(out) \in Nat /\ Len(out') \in Nat /\ Len(out') >= Len(out)
      /\ state' = "closed" => out' = out
      /\ state = "closed" => UNCHANGED <<state, rcvd, out>>
  BY StreamMoves
<1>2. Len(out') <= rcvd' /\ out' = Channel!Stream(Len(out'))
  <2>1. /\ out' \in Seq(Nat) /\ \A i \in 1..Len(out') : out'[i] = i
        /\ Len(out') <= rcvd'
    BY DEF Bounded, TypeOK, SocketType, Faithful, EchoIsPrefix
  <2>2. PICK s \in Seq(Nat) : s = out'
    BY <2>1
  <2>3. QED
    BY <2>1, <2>2, ReplyIsStream
<1>3. CASE state = "closed"
  BY <1>1, <1>3 DEF Channel!vars
<1>4. CASE state # "closed" /\ state' = "closed"
  BY <1>1, <1>4 DEF Channel!Next, Channel!Close
<1>5. CASE state # "closed" /\ state' # "closed"
  <2>1. Len(out') \in Len(out)..rcvd'
    BY <1>1, <1>2
  <2>2. QED
    BY <1>1, <1>2, <1>5, <2>1 DEF Channel!Next, Channel!Echo
<1>6. QED
  BY <1>3, <1>4, <1>5

\* Both buffering servers implement the echo channel, for every buffer size,
\* low-water mark, send buffer and pattern of partial sends, provided memcpy
\* copies upwards (wcb_recv moves overlapping regions with it).
THEOREM ServerImplementsChannel ==
  ASSUME "backward" \notin MemcpyOrders
  PROVE  Spec => ImplementsEchoChannel
<1>1. Init => Channel!Init
  BY DEF Init, SocketInit, Channel!Init
<1>2. Bounded /\ Faithful /\ [Next]_vars => (Bounded /\ Faithful)'
  BY BoundedStep, FaithfulStep
<1>3. Bounded /\ Faithful /\ (Bounded /\ Faithful)' /\ [Next]_vars => [Channel!Next]_(Channel!vars)
  BY ChannelStep
<1>4. QED
  BY InitInvariant, <1>1, <1>2, <1>3, PTL DEF Spec, ImplementsEchoChannel, Channel!Spec

-----------------------------------------------------------------------------
(* The watchers.  A connection that is not open has none started, so none  *)
(* owed; and every path that leaves bytes in the array leaves wev_send     *)
(* started.                                                                *)

\* Every step leaves wev_send started when the array still holds owed bytes.
LEMMA WatchedStep ==
  Bounded /\ OwedBytesAreWatched /\ [Next]_vars => OwedBytesAreWatched'
<1> SUFFICES ASSUME Bounded, OwedBytesAreWatched, [Next]_vars
             PROVE  OwedBytesAreWatched'
  OBVIOUS
<1>0. pending \subseteq active /\ (pending # {} => state = "open")
  BY DEF Bounded, TypeOK, IdleUnlessOpen
<1>1. CASE echo_client_add
  BY <1>1 DEF echo_client_add, OwedBytesAreWatched
<1>2. CASE echo_client_wcb_timeout
  BY <1>2 DEF echo_client_wcb_timeout, echo_client_del, OwedBytesAreWatched
<1>3. CASE echo_client_wcb_send
  BY <1>0, <1>3 DEF echo_client_wcb_send, echo_client_del, client, OwedBytesAreWatched
<1>4. CASE echo_client_wcb_recv
  <2>1. CASE RecvFails \/ RecvZeroServer
    BY <2>1 DEF RecvFails, RecvZeroServer, echo_client_del, OwedBytesAreWatched
  <2>2. ASSUME NEW order \in MemcpyOrders,
               RecvEagain(Kept(order)) \/ RecvZeroThread(Kept(order))
        PROVE  OwedBytesAreWatched'
    BY <2>2 DEF RecvEagain, RecvZeroThread, OwedBytesAreWatched
  <2>3. ASSUME NEW order \in MemcpyOrders, RecvData(Kept(order))
        PROVE  OwedBytesAreWatched'
    <3>1. \/ echo_client_del
          \/ active' = active \union {"send"}
          \/ StartIfOwed
      BY <2>3 DEF RecvData, SendNow, SendFails, SendEagain, SendSome
    <3>2. QED
      BY <3>1 DEF echo_client_del, StartIfOwed, OwedBytesAreWatched
  <2>4. QED
    BY <1>4, <2>1, <2>2, <2>3 DEF echo_client_wcb_recv
<1>5. CASE Poll \/ SpuriousPoll \/ Tick
  BY <1>5 DEF Poll, SpuriousPoll, Tick, client, OwedBytesAreWatched
<1>6. CASE Peer \/ UNCHANGED vars
  BY <1>6 DEF Peer, vars, server, client, OwedBytesAreWatched
<1>7. QED
  BY <1>1, <1>2, <1>3, <1>4, <1>5, <1>6 DEF Next

\* An open connection that owes bytes has wev_send started, for every size and
\* both servers: what wcb_recv could not send at once is sent by a later callback.
THEOREM WatchersAreRight == Spec => []OwedBytesAreWatched
<1>1. Init => OwedBytesAreWatched
  BY DEF Init, OwedBytesAreWatched
<1>2. Bounded /\ OwedBytesAreWatched /\ [Next]_vars => (Bounded /\ OwedBytesAreWatched)'
  BY BoundedStep, WatchedStep
<1>3. QED
  BY BoundedInit, <1>1, <1>2, PTL DEF Spec

\* libev never calls back a client that echo_client_del has freed: whichever
\* callback deletes it, every watcher is stopped and every event that was already
\* collected for it is withdrawn.
THEOREM CallbacksAreSafe == Spec => []NoUseAfterFree
<1>1. Bounded => NoUseAfterFree
  BY DEF Bounded, TypeOK, IdleUnlessOpen, NoUseAfterFree
<1>2. Bounded /\ [Next]_vars => Bounded'
  BY BoundedStep
<1>3. QED
  BY BoundedInit, <1>1, <1>2, PTL DEF Spec

-----------------------------------------------------------------------------
(* Why connections are dropped.  A timeout callback that is owed is owed   *)
(* because the timer ran out, and stays so until it is called: wcb_recv    *)
(* restarts the timer only together with withdrawing the callback.         *)

TimeoutIsDue == "timeout" \in pending => age = TimeoutTicks

\* Every step keeps an owed timeout callback due.
LEMMA TimeoutStep == Bounded /\ TimeoutIsDue /\ [Next]_vars => TimeoutIsDue'
<1> SUFFICES ASSUME Bounded, TimeoutIsDue, [Next]_vars
             PROVE  TimeoutIsDue'
  OBVIOUS
<1>0. pending \subseteq active /\ (active # {} => state = "open")
  BY DEF Bounded, TypeOK, IdleUnlessOpen
<1>1. CASE echo_client_add
  BY <1>0, <1>1 DEF echo_client_add, TimeoutIsDue
<1>2. CASE echo_client_wcb_timeout
  BY <1>2 DEF echo_client_wcb_timeout, echo_client_del, TimeoutIsDue
<1>3. CASE echo_client_wcb_send
  BY <1>3 DEF echo_client_wcb_send, echo_client_del, TimeoutIsDue
<1>4. CASE echo_client_wcb_recv
  <2>1. CASE RecvFails \/ RecvZeroServer
    BY <2>1 DEF RecvFails, RecvZeroServer, echo_client_del, TimeoutIsDue
  <2>2. ASSUME NEW order \in MemcpyOrders, RecvEagain(Kept(order))
        PROVE  TimeoutIsDue'
    BY <2>2 DEF RecvEagain, TimeoutIsDue
  <2>3. ASSUME NEW order \in MemcpyOrders, RecvZeroThread(Kept(order)) \/ RecvData(Kept(order))
        PROVE  TimeoutIsDue'
    BY <2>3 DEF RecvZeroThread, RecvZero, RecvData, SendNow, SendFails, SendEagain, SendSome,
                echo_client_del, TimeoutIsDue
  <2>4. QED
    BY <1>4, <2>1, <2>2, <2>3 DEF echo_client_wcb_recv
<1>5. CASE Poll \/ SpuriousPoll
  BY <1>5 DEF Poll, SpuriousPoll, Ready, TimeoutIsDue
<1>6. CASE Tick
  BY <1>6, SizeAssumption DEF Tick, Bounded, TypeOK, TimeoutIsDue
<1>7. CASE Peer \/ UNCHANGED vars
  BY <1>7 DEF Peer, vars, server, TimeoutIsDue
<1>8. QED
  BY <1>1, <1>2, <1>3, <1>4, <1>5, <1>6, <1>7 DEF Next

\* Whatever step closes an open connection has one of the causes.
LEMMA DropStep ==
  ASSUME Bounded, TimeoutIsDue, [Next]_vars, state = "open", state' = "closed"
  PROVE  rst \/ age = TimeoutTicks \/ (file = "server-honest.c" /\ (fin \/ to_send_size = ToSendSize))
<1>1. CASE echo_client_wcb_timeout
  BY <1>1 DEF echo_client_wcb_timeout, TimeoutIsDue
<1>2. CASE echo_client_wcb_send
  BY <1>2 DEF echo_client_wcb_send
<1>3. CASE echo_client_wcb_recv
  <2>1. CASE RecvFails
    BY <2>1 DEF RecvFails
  <2>2. CASE RecvZeroServer
    <3>1. file = "server-honest.c" /\ Least(Available, Room) = 0 /\ (Available > 0 \/ fin)
      BY <2>2 DEF RecvZeroServer, RecvZero
    <3>2. Available \in Nat /\ to_send_size \in Nat /\ to_send_beg \in Nat
      BY SocketAssumption DEF Bounded, TypeOK, SocketType, Available
    <3>3. CASE Available = 0
      BY <3>1, <3>3
    <3>4. CASE Available > 0
      <4>1. Room = 0
        BY <3>1, <3>2, <3>4, KeptBounds DEF Least
      <4>2. to_send_size = ToSendSize
        BY <3>2, <4>1, SizeAssumption DEF Room, Compacts, RemSize
      <4>3. QED
        BY <3>1, <4>2
    <3>5. QED
      BY <3>2, <3>3, <3>4
  <2>3. ASSUME NEW order \in MemcpyOrders,
               \/ RecvEagain(Kept(order)) \/ RecvZeroThread(Kept(order))
               \/ RecvData(Kept(order))
        PROVE  rst
    BY <2>3 DEF RecvEagain, RecvZeroThread, RecvData, SendNow, SendFails, SendEagain, SendSome
  <2>4. QED
    BY <1>3, <2>1, <2>2, <2>3 DEF echo_client_wcb_recv
<1>4. CASE echo_client_add \/ Poll \/ SpuriousPoll \/ Tick \/ Peer \/ UNCHANGED vars
  BY <1>4 DEF echo_client_add, Poll, SpuriousPoll, Tick, Peer, vars, server
<1>5. QED
  BY <1>1, <1>2, <1>3, <1>4 DEF Next

\* The timeout callback is owed only when the timer has run out.
LEMMA TimeoutInvariant == Spec => [](Bounded /\ TimeoutIsDue)
<1>1. Init => TimeoutIsDue
  BY DEF Init, TimeoutIsDue
<1>2. Bounded /\ TimeoutIsDue /\ [Next]_vars => (Bounded /\ TimeoutIsDue)'
  BY BoundedStep, TimeoutStep
<1>3. QED
  BY BoundedInit, <1>1, <1>2, PTL DEF Spec

\* Both servers drop a connection only when it failed, when it timed out, or,
\* in server-honest.c, when the peer closed or the array was full.
THEOREM DropsHaveCause == Spec => DropsForCauseOrFull
<1>1. Bounded /\ TimeoutIsDue /\ [Next]_vars =>
        [state = "open" /\ state' = "closed" =>
           rst \/ age = TimeoutTicks
               \/ (file = "server-honest.c" /\ (fin \/ to_send_size = ToSendSize))]_vars
  BY DropStep
<1>2. QED
  BY <1>1, TimeoutInvariant, PTL DEF Spec, DropsForCauseOrFull

-----------------------------------------------------------------------------
(* The life of an open connection: the safety that EveryByteIsEchoed and   *)
(* ClosedPeerIsReclaimed rest on beside fairness.  The count of the bytes  *)
(* needs nothing of memcpy: a copy in the wrong order spoils bytes but     *)
(* loses none.                                                             *)

AlwaysWatching == state = "open" => {"recv", "timeout"} \subseteq active

NoByteIsLost ==
  /\ state = "queued" => to_send_size = 0
  /\ state # "closed" => Len(out) + to_send_size = rcvd

\* wev_recv and wev_timeout run as long as the client does.
LEMMA WatchingStep == Bounded /\ AlwaysWatching /\ [Next]_vars => AlwaysWatching'
<1> SUFFICES ASSUME Bounded, AlwaysWatching, [Next]_vars
             PROVE  AlwaysWatching'
  OBVIOUS
<1>0. pending # {} => state = "open"
  BY DEF Bounded, TypeOK, IdleUnlessOpen
<1>1. CASE echo_client_add
  BY <1>1 DEF echo_client_add, AlwaysWatching
<1>2. CASE echo_client_wcb_timeout
  BY <1>2 DEF echo_client_wcb_timeout, echo_client_del, AlwaysWatching
<1>3. CASE echo_client_wcb_send
  <2>1. state = "open"
    BY <1>0, <1>3 DEF echo_client_wcb_send
  <2>2. state' = "closed" \/ active' = active \/ active' = active \ {"send"}
    BY <1>3 DEF echo_client_wcb_send, echo_client_del
  <2>3. QED
    BY <2>1, <2>2 DEF AlwaysWatching
<1>4. CASE echo_client_wcb_recv
  <2>1. state = "open"
    BY <1>0, <1>4 DEF echo_client_wcb_recv
  <2>2. CASE RecvFails \/ RecvZeroServer
    BY <2>2 DEF RecvFails, RecvZeroServer, echo_client_del, AlwaysWatching
  <2>3. ASSUME NEW order \in MemcpyOrders,
               \/ RecvEagain(Kept(order)) \/ RecvZeroThread(Kept(order))
               \/ RecvData(Kept(order))
        PROVE  state' = "closed" \/ active' = active \/ active' = active \union {"send"}
    BY <2>3 DEF RecvEagain, RecvZeroThread, RecvData, SendNow, SendFails, SendEagain, SendSome,
                StartIfOwed, echo_client_del
  <2>4. QED
    BY <1>4, <2>1, <2>2, <2>3 DEF echo_client_wcb_recv, AlwaysWatching
<1>5. CASE Poll \/ SpuriousPoll \/ Tick
  BY <1>5 DEF Poll, SpuriousPoll, Tick, AlwaysWatching
<1>6. CASE Peer \/ UNCHANGED vars
  BY <1>6 DEF Peer, vars, server, AlwaysWatching
<1>7. QED
  BY <1>1, <1>2, <1>3, <1>4, <1>5, <1>6 DEF Next

\* A send of some of the n bytes owed moves them from the array to the reply.
LEMMA SendCounts ==
  ASSUME Bounded, NEW b \in [Cells -> Nat], NEW g \in Nat, NEW n \in Nat,
         g + n <= ToSendSize, NEW sent_nb \in SendResults(n),
         out' = out \o Slice(b, g, sent_nb), to_send_size' = n - sent_nb
  PROVE  Len(out') + to_send_size' = Len(out) + n
<1>1. sent_nb \in Nat /\ sent_nb <= n /\ g + sent_nb <= ToSendSize
  BY FreeType, SendResultsBound, SizeAssumption DEF Bounded
<1>2. out \in Seq(Nat) /\ Len(out) \in Nat
  BY LenProperties DEF Bounded, TypeOK, SocketType
<1>3. Len(out') = Len(out) + sent_nb
  BY <1>1, <1>2, AppendSlice
<1>4. QED
  BY <1>1, <1>2, <1>3

\* No step loses count of the bytes, in whichever order memcpy copies.
LEMMA CountStep == Bounded /\ NoByteIsLost /\ [Next]_vars => NoByteIsLost'
<1> SUFFICES ASSUME Bounded, NoByteIsLost, [Next]_vars
             PROVE  NoByteIsLost'
  OBVIOUS
<1>0. /\ pending # {} => state = "open"
      /\ to_send \in [Cells -> Nat] /\ to_send_beg \in Nat /\ to_send_size \in Nat
      /\ to_send_beg + to_send_size <= ToSendSize
      /\ Len(out) \in Nat /\ rcvd \in Nat /\ Available \in Nat
  <2>1. pending # {} => state = "open"
    BY DEF Bounded, TypeOK, IdleUnlessOpen
  <2>2. /\ to_send \in [Cells -> Nat] /\ to_send_beg \in Nat /\ to_send_size \in Nat
        /\ to_send_beg + to_send_size <= ToSendSize
    BY DEF Bounded, TypeOK, BufferBounds
  <2>3. Len(out) \in Nat
    BY LenProperties DEF Bounded, TypeOK, SocketType
  <2>4. rcvd \in Nat /\ Available \in Nat
    BY SocketAssumption DEF Bounded, TypeOK, SocketType, Available
  <2>5. QED
    BY <2>1, <2>2, <2>3, <2>4
<1>1. CASE UNCHANGED <<to_send_size, rcvd, out>> /\ (state' = "queued" => state = "queued")
           /\ (state = "closed" => state' = "closed")
  BY <1>1 DEF NoByteIsLost
<1>2. CASE state' = "closed"
  BY <1>2 DEF NoByteIsLost
<1>3. CASE echo_client_add
  <2>1. UNCHANGED <<rcvd, out>> /\ state' \in {"open", "leaked"} /\ state = "queued"
    BY <1>3 DEF echo_client_add, socket
  <2>2. to_send_size' = to_send_size
    BY <1>3 DEF echo_client_add, client, NoByteIsLost
  <2>3. QED
    BY <2>1, <2>2 DEF NoByteIsLost
<1>4. CASE echo_client_wcb_timeout
  BY <1>2, <1>4 DEF echo_client_wcb_timeout, echo_client_del
<1>5. CASE echo_client_wcb_send
  <2>0. state = "open" /\ rcvd' = rcvd
    BY <1>0, <1>5 DEF echo_client_wcb_send
  <2>1. CASE echo_client_del
    BY <1>2, <2>1 DEF echo_client_del
  <2>2. CASE UNCHANGED <<state, client, out>>
    BY <1>1, <2>0, <2>2 DEF client
  <2>3. ASSUME NEW sent_nb \in SendResults(to_send_size),
               out' = out \o Slice(to_send, to_send_beg, sent_nb),
               to_send_size' = to_send_size - sent_nb, state' = state
        PROVE  NoByteIsLost'
    <3>1. Len(out') + to_send_size' = Len(out) + to_send_size
      <4>1. PICK b \in [Cells -> Nat], g \in Nat, n \in Nat :
              b = to_send /\ g = to_send_beg /\ n = to_send_size
        BY <1>0
      <4>2. /\ g + n <= ToSendSize /\ sent_nb \in SendResults(n)
            /\ out' = out \o Slice(b, g, sent_nb) /\ to_send_size' = n - sent_nb
        BY <1>0, <2>3, <4>1
      <4>3. Len(out') + to_send_size' = Len(out) + n
        BY <4>2, SendCounts
      <4>4. QED
        BY <4>1, <4>3
    <3>2. QED
      BY <2>0, <2>3, <3>1 DEF NoByteIsLost
  <2>4. QED
    BY <1>5, <2>1, <2>2, <2>3 DEF echo_client_wcb_send
<1>6. CASE echo_client_wcb_recv
  <2>0. state = "open" /\ Len(out) + to_send_size = rcvd
    BY <1>0, <1>6 DEF echo_client_wcb_recv, NoByteIsLost
  <2>1. CASE RecvFails \/ RecvZeroServer
    BY <1>2, <2>1 DEF RecvFails, RecvZeroServer, echo_client_del
  <2>2. ASSUME NEW order \in MemcpyOrders,
               RecvEagain(Kept(order)) \/ RecvZeroThread(Kept(order))
        PROVE  NoByteIsLost'
    BY <1>1, <2>0, <2>2 DEF RecvEagain, RecvZeroThread, RecvZero
  <2>3. ASSUME NEW order \in MemcpyOrders, RecvData(Kept(order))
        PROVE  NoByteIsLost'
    <3>1. PICK nb \in Nat : nb = Least(Available, Room) /\ nb <= Room
      BY <1>0, KeptBounds DEF Least
    <3>2. PICK b \in [Cells -> Nat], g \in Nat, n \in Nat :
            b = Received(Kept(order), nb) /\ g = KeptBeg /\ n = to_send_size + nb
      <4>1. TypeOK /\ Kept(order) \in [Cells -> Nat] /\ KeptBeg \in Nat
        BY KeptBounds DEF Bounded
      <4>2. PICK a \in [Cells -> Nat] : a = Kept(order)
        BY <4>1
      <4>3. Received(a, nb) \in [Cells -> Nat]
        BY <4>1, ReceivedType
      <4>4. to_send_size + nb \in Nat
        BY <1>0
      <4>5. QED
        BY <4>1, <4>2, <4>3, <4>4
    <3>3. rcvd' = rcvd + nb /\ SendNow(b, g, n)
      BY <2>3, <3>1, <3>2 DEF RecvData
    <3>4. KeptBeg \in Nat /\ Room \in Nat /\ KeptBeg + to_send_size + Room = ToSendSize
      BY KeptBounds
    <3>5. g + n <= ToSendSize
      BY <1>0, <3>1, <3>2, <3>4
    <3>6. rcvd' = Len(out) + n
      BY <1>0, <2>0, <3>1, <3>2, <3>3
    <3>7. CASE SendFails
      BY <1>2, <3>7 DEF SendFails, echo_client_del
    <3>8. CASE SendEagain(b, g, n)
      <4>1. to_send_size' = n /\ out' = out /\ state' = "open"
        BY <2>0, <3>8 DEF SendEagain
      <4>2. QED
        BY <3>6, <4>1 DEF NoByteIsLost
    <3>9. CASE SendSome(b, g, n)
      <4>1. PICK sent_nb \in SendResults(n) :
              out' = out \o Slice(b, g, sent_nb) /\ to_send_size' = n - sent_nb
        BY <3>9 DEF SendSome
      <4>2. state' = "open"
        BY <2>0, <3>9 DEF SendSome
      <4>3. Len(out') + to_send_size' = Len(out) + n
        BY <3>5, <4>1, SendCounts
      <4>4. QED
        BY <3>6, <4>2, <4>3 DEF NoByteIsLost
    <3>10. QED
      BY <3>3, <3>7, <3>8, <3>9 DEF SendNow
  <2>4. QED
    BY <1>6, <2>1, <2>2, <2>3 DEF echo_client_wcb_recv
<1>7. CASE Poll \/ SpuriousPoll \/ Tick
  BY <1>1, <1>7 DEF Poll, SpuriousPoll, Tick, client, socket
<1>8. CASE Peer \/ UNCHANGED vars
  BY <1>1, <1>8 DEF Peer, vars, server, client, socket, PeerSends, PeerCloses, ConnectionFails, PeerReads
<1>9. QED
  BY <1>3, <1>4, <1>5, <1>6, <1>7, <1>8 DEF Next

\* The loop can do something for the bytes of a connection: a watcher is started
\* for which there is something to receive and room in the array to put it, or
\* something to send and room in the send buffer.
CanServe ==
  \/ "recv" \in active /\ Available > 0 /\ to_send_size < ToSendSize
  \/ "send" \in active /\ to_send_size > 0 /\ Free > 0

\* An open connection of either buffering server is never forgotten: its timeout
\* and its end are watched for, and as long as a byte that has arrived is not sent
\* back a watcher that can move it is started, unless the peer has not read the
\* reply.  A full array stops the receiving but never the sending.
THEOREM OpenConnectionIsServed ==
  Spec => [](state = "open" =>
               /\ {"recv", "timeout"} \subseteq active
               /\ Len(out) = arrived \/ CanServe \/ drained < Len(out))
<1> DEFINE IsServed ==
      state = "open" =>
        /\ {"recv", "timeout"} \subseteq active
        /\ Len(out) = arrived \/ CanServe \/ drained < Len(out)
<1>1. Init => AlwaysWatching /\ NoByteIsLost /\ OwedBytesAreWatched
  <2>1. SUFFICES ASSUME Init PROVE AlwaysWatching /\ NoByteIsLost /\ OwedBytesAreWatched
    OBVIOUS
  <2>2. Len(out) = 0 /\ rcvd = 0 /\ to_send_size = 0 /\ state = "queued"
    BY <2>1, EmptySeq DEF Init, SocketInit
  <2>3. QED
    BY <2>2 DEF AlwaysWatching, NoByteIsLost, OwedBytesAreWatched
<1>2. Bounded /\ AlwaysWatching /\ NoByteIsLost /\ OwedBytesAreWatched => IsServed
  <2>1. SUFFICES ASSUME Bounded, AlwaysWatching, NoByteIsLost, OwedBytesAreWatched, state = "open",
                        ~(drained < Len(out)), Len(out) # arrived
                 PROVE  {"recv", "timeout"} \subseteq active /\ CanServe
    BY DEF AlwaysWatching
  <2>2. {"recv", "timeout"} \subseteq active /\ Len(out) + to_send_size = rcvd
    BY <2>1 DEF AlwaysWatching, NoByteIsLost
  <2>3. /\ Len(out) \in Nat /\ drained \in 0..Len(out) /\ arrived \in Nat /\ rcvd \in 0..arrived
    BY SocketAssumption, LenProperties, <2>1 DEF Bounded, TypeOK, SocketType
  <2>4. to_send_size \in Nat /\ ToSendSize \in Nat \ {0} /\ SndCap \in Nat \ {0}
    BY SizeAssumption, SocketAssumption, <2>1 DEF Bounded, TypeOK
  <2>5. drained = Len(out)
    BY <2>1, <2>3
  <2>6. Free > 0
    BY <2>3, <2>4, <2>5 DEF Free
  <2>7. CASE to_send_size > 0
    BY <2>1, <2>2, <2>6, <2>7 DEF OwedBytesAreWatched, CanServe
  <2>8. CASE to_send_size = 0
    <3>1. Available > 0 /\ to_send_size < ToSendSize
      BY <2>1, <2>2, <2>3, <2>4, <2>8 DEF Available
    <3>2. QED
      BY <2>2, <3>1 DEF CanServe
  <2>9. QED
    BY <2>2, <2>4, <2>7, <2>8
<1> HIDE DEF IsServed
<1>3. Spec => []IsServed
  BY <1>1, <1>2, BoundedInit, BoundedStep, WatchingStep, CountStep, WatchedStep, PTL DEF Spec
<1>4. QED
  BY <1>3 DEF IsServed

=============================================================================
