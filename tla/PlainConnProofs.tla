-------------------------- MODULE PlainConnProofs --------------------------
(***************************************************************************)
(* Proofs about PlainConn for every buffer, timeout, window and number of  *)
(* bytes.  Safety of the callbacks holds whatever the sizes; that the      *)
(* connection is a faithful echo is proved for a peer that leaves no more  *)
(* unanswered than the send buffer holds, which is what a server without a *)
(* buffer of its own depends on.                                           *)
(***************************************************************************)
EXTENDS PlainConn, SequenceTheorems, TLAPS

-----------------------------------------------------------------------------
(* The reply.                                                              *)

\* Appending n successive numbers keeps a sequence a sequence, and a faithful
\* reply that goes on where it stopped stays faithful.
LEMMA AppendBytes ==
  ASSUME NEW s \in Seq(Nat), NEW m \in Nat, NEW n \in Nat
  PROVE  /\ s \o [i \in 1..n |-> m + i] \in Seq(Nat)
         /\ Len(s \o [i \in 1..n |-> m + i]) = Len(s) + n
         /\ (m = Len(s) /\ \A i \in 1..Len(s) : s[i] = i) =>
              \A i \in 1..(Len(s) + n) : (s \o [j \in 1..n |-> m + j])[i] = i
<1> DEFINE t == [i \in 1..n |-> m + i]
<1>1. t \in Seq(Nat) /\ Len(t) = n /\ \A i \in 1..n : t[i] = m + i
  <2>1. t \in [1..n -> Nat]
    OBVIOUS
  <2>2. QED
    BY <2>1, SeqDef
<1> HIDE DEF t
<1>2. /\ Len(s) \in Nat /\ s \o t \in Seq(Nat)
      /\ Len(s \o t) = Len(s) + Len(t)
      /\ \A i \in 1..(Len(s) + Len(t)) :
           (s \o t)[i] = IF i <= Len(s) THEN s[i] ELSE t[i - Len(s)]
  BY <1>1, ConcatProperties, LenProperties
<1>3. ASSUME m = Len(s), \A i \in 1..Len(s) : s[i] = i,
             NEW i \in 1..(Len(s) + n)
      PROVE  (s \o t)[i] = i
  <2>1. CASE i <= Len(s)
    BY <1>1, <1>2, <1>3, <2>1
  <2>2. CASE ~(i <= Len(s))
    <3>1. i - Len(s) \in 1..n /\ m + (i - Len(s)) = i
      BY <1>2, <1>3, <2>2
    <3>2. QED
      BY <1>1, <1>2, <2>2, <3>1
  <2>3. QED
    BY <2>1, <2>2
<1>4. QED
  BY <1>1, <1>2, <1>3 DEF t

-----------------------------------------------------------------------------
(* The callbacks.  A connection that is not open owes no callback; a       *)
(* timeout that is owed ran out, because ev_timer_again withdraws it; and  *)
(* the timer is never ahead of the time since the last answer, because     *)
(* whatever resets that resets the timer.                                  *)

CallbacksAreRight ==
  /\ pending # {} => state = "open"
  /\ "timeout" \in pending => age = TimeoutTicks
  /\ age <= idle

Safe == TypeOK /\ CallbacksAreRight

\* The sizes recv and send report are numbers, and send takes no more than it
\* is offered.
LEMMA Sizes ==
  ASSUME TypeOK
  PROVE  /\ out \in Seq(Nat) /\ Len(out) \in Nat
         /\ arrived \in Nat /\ rcvd \in Nat /\ drained \in Nat
         /\ rcvd <= arrived /\ drained <= Len(out)
         /\ Available \in Nat /\ Available = arrived - rcvd
         /\ Nb \in Nat /\ Nb <= Available
         /\ Free \in Int /\ Free = SndCap - (Len(out) - drained)
<1>1. /\ out \in Seq(Nat) /\ arrived \in 0..MaxBytes /\ rcvd \in 0..arrived
      /\ drained \in 0..Len(out) /\ SndCap \in Nat /\ MaxBytes \in Nat /\ BufSize \in Nat
  BY SocketAssumption, PlainAssumption DEF TypeOK, SocketType
<1>2. Len(out) \in Nat
  BY <1>1, LenProperties
<1>3. arrived \in Nat /\ rcvd \in Nat /\ drained \in Nat /\ rcvd <= arrived /\ drained <= Len(out)
  BY <1>1, <1>2
<1>4. Available \in Nat /\ Available = arrived - rcvd
  BY <1>3 DEF Available
<1>5. Nb \in Nat /\ Nb <= Available
  BY <1>1, <1>4 DEF Nb, Least
<1>6. Free \in Int /\ Free = SndCap - (Len(out) - drained)
  BY <1>1, <1>2, <1>3 DEF Free
<1>7. QED
  BY <1>1, <1>2, <1>3, <1>4, <1>5, <1>6

\* What one answer does to the socket.
LEMMA AnswerStep ==
  ASSUME TypeOK, Answer(Nb, Sent)
  PROVE  /\ rcvd' = rcvd + Nb
         /\ out' \in Seq(Nat) /\ Len(out') = Len(out) + Least(Nb, Free)
         /\ Least(Nb, Free) \in Nat
         /\ rcvd = Len(out) /\ EchoIsPrefix => EchoIsPrefix'
<1>1. /\ out \in Seq(Nat) /\ Len(out) \in Nat /\ rcvd \in Nat /\ Nb \in Nat /\ Free \in Int
      /\ Nb > 0 /\ Free > 0 /\ rcvd' = rcvd + Nb /\ out' = out \o Sent
  BY Sizes DEF Answer
<1>2. PICK s \in Seq(Nat) : s = out
  BY <1>1
<1>3. PICK n \in Nat : n = Least(Nb, Free)
  BY <1>1 DEF Least
<1>4. PICK m \in Nat : m = rcvd
  BY <1>1
<1>5. out' = s \o [i \in 1..n |-> m + i]
  BY <1>1, <1>2, <1>3, <1>4 DEF Sent
<1>6. /\ out' \in Seq(Nat) /\ Len(out') = Len(s) + n
      /\ (m = Len(s) /\ \A i \in 1..Len(s) : s[i] = i) => \A i \in 1..(Len(s) + n) : out'[i] = i
  BY <1>5, AppendBytes
<1>7. rcvd = Len(out) /\ EchoIsPrefix => EchoIsPrefix'
  BY <1>2, <1>4, <1>6 DEF EchoIsPrefix
<1>8. QED
  BY <1>1, <1>2, <1>3, <1>6, <1>7

\* Nothing is owed before the connection is set up.
LEMMA SafeInit == Init => Safe
<1> SUFFICES ASSUME Init PROVE Safe
  OBVIOUS
<1>1. out \in Seq(Nat) /\ drained \in 0..Len(out)
  BY EmptySeq DEF Init, SocketInit
<1>2. fin \in BOOLEAN /\ rst \in BOOLEAN
  BY DEF Init, SocketInit
<1>3. QED
  BY <1>1, <1>2, PlainAssumption, SocketAssumption
     DEF Init, SocketInit, Safe, TypeOK, SocketType, CallbacksAreRight

\* Every callback, and every step of the loop and of the peer, keeps it.
LEMMA SafeStep == Safe /\ [Next]_vars => Safe'
<1> SUFFICES ASSUME Safe, [Next]_vars
             PROVE  Safe'
  OBVIOUS
<1>0. /\ TypeOK /\ CallbacksAreRight /\ Len(out) \in Nat /\ out \in Seq(Nat)
      /\ age \in Nat /\ idle \in Nat /\ TimeoutTicks \in Nat \ {0}
      /\ age <= TimeoutTicks /\ idle <= TimeoutTicks
  BY Sizes, PlainAssumption DEF Safe, TypeOK
<1>1. CASE echo_client_add
  BY <1>0, <1>1 DEF echo_client_add, Safe, TypeOK, SocketType, CallbacksAreRight, socket, peer
<1>2. CASE echo_client_wcb_timeout
  BY <1>0, <1>2 DEF echo_client_wcb_timeout, echo_client_del, Safe, TypeOK, SocketType, CallbacksAreRight, socket, peer
<1>3. CASE echo_client_wcb_recv
  <2>0. "recv" \in pending /\ state = "open" /\ UNCHANGED <<arrived, fin, rst, drained>>
    BY <1>0, <1>3 DEF echo_client_wcb_recv, CallbacksAreRight, peer
  <2>1. CASE RecvEagain
    <3>1. age' = 0 /\ pending' = pending \ {"recv", "timeout"} /\ UNCHANGED <<state, idle, rcvd, out>>
      BY <2>1 DEF RecvEagain, Rearm
    <3>2. QED
      BY <1>0, <2>0, <3>1 DEF Safe, TypeOK, SocketType, CallbacksAreRight
  <2>2. CASE RecvFails \/ RecvDone
    BY <1>0, <2>0, <2>2 DEF RecvFails, RecvDone, echo_client_del, Safe, TypeOK, SocketType, CallbacksAreRight
  <2>3. CASE EchoOnce
    <3>1. /\ age' = 0 /\ idle' = 0 /\ pending' = pending \ {"recv", "timeout"} /\ state' = state
      BY <2>3 DEF EchoOnce, Answer, Rearm
    <3>2. /\ rcvd' = rcvd + Nb /\ out' \in Seq(Nat)
          /\ Len(out') = Len(out) + Least(Nb, Free) /\ Least(Nb, Free) \in Nat
      BY <1>0, <2>3, AnswerStep DEF EchoOnce
    <3>3. rcvd' \in 0..arrived'
      <4>1. PICK a \in Nat, r \in Nat, n \in Nat : a = arrived /\ r = rcvd /\ n = Nb
        BY <1>0, Sizes
      <4>2. r + n <= a
        BY <1>0, <4>1, Sizes
      <4>3. r + n \in 0..a
        BY <4>2
      <4>4. QED
        BY <2>0, <3>2, <4>1, <4>3
    <3>4. drained' \in 0..Len(out')
      <4>1. PICK l \in Nat, d \in Nat, n \in Nat : l = Len(out) /\ d = drained /\ n = Least(Nb, Free)
        BY <1>0, <3>2, Sizes
      <4>2. d <= l
        BY <1>0, <4>1, Sizes
      <4>3. d \in 0..(l + n)
        BY <4>2
      <4>4. QED
        BY <2>0, <3>2, <4>1, <4>3
    <3>5. QED
      BY <1>0, <2>0, <3>1, <3>2, <3>3, <3>4 DEF Safe, TypeOK, SocketType, CallbacksAreRight
  <2>4. CASE EchoFails
    <3>1. rcvd' \in 0..arrived'
      BY <1>0, <2>0, <2>4, Sizes DEF EchoFails
    <3>2. QED
      BY <1>0, <2>0, <2>4, <3>1 DEF EchoFails, echo_client_del, Safe, TypeOK, SocketType, CallbacksAreRight
  <2>5. QED
    BY <1>3, <2>1, <2>2, <2>3, <2>4 DEF echo_client_wcb_recv
<1>4. CASE Poll \/ SpuriousPoll
  BY <1>0, <1>4 DEF Poll, SpuriousPoll, Ready, Safe, TypeOK, SocketType, CallbacksAreRight, socket, peer
<1>5. CASE Tick
  <2>1. age' \in 0..TimeoutTicks /\ idle' \in 0..TimeoutTicks /\ age' <= idle' /\ age # TimeoutTicks
    BY <1>0, <1>5 DEF Tick, Least, CallbacksAreRight
  <2>2. QED
    BY <1>0, <1>5, <2>1 DEF Tick, Safe, TypeOK, SocketType, CallbacksAreRight, socket, peer
<1>6. CASE Peer
  <2>1. UNCHANGED <<state, pending, age, idle, rcvd, out>>
    BY <1>6 DEF Peer, server, PeerSends, PeerCloses, ConnectionFails, PeerReads
  <2>2. CASE PeerSends \/ PeerReads
    <3>1. arrived' \in 0..MaxBytes /\ rcvd' \in 0..arrived' /\ drained' \in 0..Len(out')
      BY <1>0, <2>1, <2>2, SocketAssumption DEF PeerSends, PeerReads, TypeOK, SocketType
    <3>2. UNCHANGED <<fin, rst>>
      BY <2>2 DEF PeerSends, PeerReads
    <3>3. QED
      BY <1>0, <2>1, <3>1, <3>2 DEF Safe, TypeOK, SocketType, CallbacksAreRight
  <2>3. CASE PeerCloses \/ ConnectionFails
    BY <1>0, <2>1, <2>3 DEF PeerCloses, ConnectionFails, Safe, TypeOK, SocketType, CallbacksAreRight
  <2>4. QED
    BY <1>6, <2>2, <2>3 DEF Peer
<1>7. CASE UNCHANGED vars
  BY <1>0, <1>7 DEF vars, server, socket, peer, Safe, TypeOK, SocketType, CallbacksAreRight
<1>8. QED
  BY <1>1, <1>2, <1>3, <1>4, <1>5, <1>6, <1>7 DEF Next

\* No callback runs on a freed echo_client_t, also when wcb_recv deletes it in
\* an iteration that owes it wcb_timeout, for every size and every peer.
THEOREM CallbacksAreSafe == Spec => []NoUseAfterFree
<1>1. Safe => NoUseAfterFree
  BY DEF Safe, CallbacksAreRight, NoUseAfterFree
<1>2. QED
  BY <1>1, SafeInit, SafeStep, PTL DEF Spec

-----------------------------------------------------------------------------
(* Faithfulness.  The server forgets what send does not take, so it echoes *)
(* faithfully only while send takes everything.  That needs the relation   *)
(* between the three counters: an open connection has answered all it has  *)
(* received, so what fills the send buffer is what the peer has not read   *)
(* yet, and the peer leaves no more than Window unread.                    *)

Answered ==
  /\ EchoIsPrefix
  /\ Len(out) <= rcvd
  /\ state # "closed" => Len(out) = rcvd
  /\ arrived - drained <= Window

\* There is room in the send buffer for whatever recv has brought.
LEMMA SendTakesAll ==
  ASSUME Window <= SndCap, Safe, Answered, state # "closed"
  PROVE  Nb <= Free /\ Least(Nb, Free) = Nb
<1>1. /\ Len(out) \in Nat /\ arrived \in Nat /\ rcvd \in Nat /\ drained \in Nat
      /\ Available = arrived - rcvd /\ Nb \in Nat /\ Nb <= Available
      /\ Free \in Int /\ Free = SndCap - (Len(out) - drained)
  BY Sizes DEF Safe
<1>2. Window \in Nat /\ SndCap \in Nat /\ Len(out) = rcvd /\ arrived - drained <= Window
  BY SocketAssumption DEF Answered
<1>3. Nb <= Free
  BY <1>1, <1>2
<1>4. QED
  BY <1>1, <1>3 DEF Least

\* Nothing has arrived and nothing is owed at the start.
LEMMA AnsweredInit == Init => Answered
<1> SUFFICES ASSUME Init PROVE Answered
  OBVIOUS
<1>1. Len(out) = 0 /\ rcvd = 0 /\ arrived = 0 /\ drained = 0
  BY EmptySeq DEF Init, SocketInit
<1>2. QED
  BY <1>1, SocketAssumption DEF Answered, EchoIsPrefix

\* An open connection has answered all it received, whatever step is taken.
LEMMA AnsweredStep ==
  ASSUME Window <= SndCap
  PROVE  Safe /\ Answered /\ [Next]_vars => Answered'
<1> SUFFICES ASSUME Safe, Answered, [Next]_vars
             PROVE  Answered'
  OBVIOUS
<1>0. /\ TypeOK /\ Len(out) \in Nat /\ rcvd \in Nat /\ arrived \in Nat /\ drained \in Nat
      /\ Nb \in Nat /\ Window \in Nat
      /\ pending # {} => state = "open"
  BY Sizes, SocketAssumption DEF Safe, CallbacksAreRight
<1>1. CASE echo_client_add \/ echo_client_wcb_timeout \/ Poll \/ SpuriousPoll \/ Tick \/ UNCHANGED vars
  <2>1. UNCHANGED <<arrived, drained, rcvd, out>> /\ (state = "closed" => state' = "closed")
    BY <1>0, <1>1 DEF echo_client_add, echo_client_wcb_timeout, echo_client_del, Poll, SpuriousPoll, Tick,
                      vars, server, socket, peer
  <2>2. QED
    BY <2>1 DEF Answered, EchoIsPrefix
<1>2. CASE echo_client_wcb_recv
  <2>0. state = "open" /\ UNCHANGED <<arrived, drained>>
    BY <1>0, <1>2 DEF echo_client_wcb_recv, peer
  <2>1. CASE RecvEagain \/ RecvFails \/ RecvDone
    <3>1. UNCHANGED <<rcvd, out>>
      BY <2>1 DEF RecvEagain, RecvFails, RecvDone
    <3>2. QED
      BY <2>0, <3>1 DEF Answered, EchoIsPrefix
  <2>2. CASE EchoOnce
    <3>1. Len(out) = rcvd /\ EchoIsPrefix
      BY <2>0 DEF Answered
    <3>2. rcvd' = rcvd + Nb /\ Len(out') = Len(out) + Nb /\ EchoIsPrefix'
      BY <1>0, <2>0, <2>2, <3>1, AnswerStep, SendTakesAll DEF EchoOnce
    <3>3. Len(out') = rcvd' /\ Len(out') <= rcvd'
      BY <1>0, <3>1, <3>2
    <3>4. QED
      BY <2>0, <3>2, <3>3 DEF Answered
  <2>3. CASE EchoFails
    <3>1. rcvd' = rcvd + Nb /\ out' = out /\ state' = "closed"
      BY <2>3 DEF EchoFails, echo_client_del
    <3>2. Len(out') <= rcvd'
      BY <1>0, <3>1 DEF Answered
    <3>3. QED
      BY <2>0, <3>1, <3>2 DEF Answered, EchoIsPrefix
  <2>4. QED
    BY <1>2, <2>1, <2>2, <2>3 DEF echo_client_wcb_recv
<1>3. CASE Peer
  <2>1. UNCHANGED <<state, rcvd, out>>
    BY <1>3 DEF Peer, server, PeerSends, PeerCloses, ConnectionFails, PeerReads
  <2>2. arrived' - drained' <= Window
    <3>1. CASE PeerSends
      BY <1>0, <3>1 DEF PeerSends
    <3>2. CASE PeerReads
      BY <1>0, <3>2 DEF PeerReads, Answered
    <3>3. CASE PeerCloses \/ ConnectionFails
      BY <3>3 DEF PeerCloses, ConnectionFails, Answered
    <3>4. QED
      BY <1>3, <3>1, <3>2, <3>3 DEF Peer
  <2>3. QED
    BY <2>1, <2>2 DEF Answered, EchoIsPrefix
<1>4. QED
  BY <1>1, <1>2, <1>3 DEF Next

\* Both invariants hold together when the window fits the send buffer.
LEMMA PlainInvariant ==
  ASSUME Window <= SndCap
  PROVE  Spec => [](Safe /\ Answered)
<1>1. Safe /\ Answered /\ [Next]_vars => (Safe /\ Answered)'
  BY SafeStep, AnsweredStep
<1>2. QED
  BY <1>1, SafeInit, AnsweredInit, PTL DEF Spec

\* Whatever step closes an open connection has one of the causes: EAGAIN from
\* send, which would close it too, cannot happen.
LEMMA DropStep ==
  ASSUME Window <= SndCap, Safe, Answered, [Next]_vars, state = "open", state' = "closed"
  PROVE  rst \/ fin \/ idle = TimeoutTicks
<1>1. CASE echo_client_wcb_timeout
  <2>1. age = TimeoutTicks /\ age <= idle /\ idle \in 0..TimeoutTicks
    BY <1>1 DEF echo_client_wcb_timeout, Safe, CallbacksAreRight, TypeOK
  <2>2. QED
    BY <2>1, PlainAssumption
<1>2. CASE echo_client_wcb_recv
  <2>1. CASE EchoFails
    <3>1. Nb > 0 /\ (rst \/ Free = 0)
      BY <2>1 DEF EchoFails
    <3>2. Nb \in Nat /\ Free \in Int /\ Nb <= Free
      BY Sizes, SendTakesAll DEF Safe
    <3>3. QED
      BY <3>1, <3>2
  <2>2. CASE RecvEagain \/ RecvFails \/ RecvDone \/ EchoOnce
    BY <2>2 DEF RecvEagain, RecvFails, RecvDone, EchoOnce, Answer
  <2>3. QED
    BY <1>2, <2>1, <2>2 DEF echo_client_wcb_recv
<1>3. CASE echo_client_add \/ Poll \/ SpuriousPoll \/ Tick \/ Peer \/ UNCHANGED vars
  BY <1>3 DEF echo_client_add, Poll, SpuriousPoll, Tick, Peer, vars, server
<1>4. QED
  BY <1>1, <1>2, <1>3 DEF Next

\* server.c and thread.c drop a connection only when it failed, when the peer
\* closed it, or when nothing was sent back for a whole SOCKET_TIMEOUT, for
\* every peer that leaves no more unanswered than the send buffer holds.
THEOREM DropsHaveCause ==
  ASSUME Window <= SndCap
  PROVE  Spec => DropsOnlyForCause
<1>1. Safe /\ Answered /\ [Next]_vars =>
        [state = "open" /\ state' = "closed" => rst \/ fin \/ idle = TimeoutTicks]_vars
  BY DropStep
<1>2. QED
  BY <1>1, PlainInvariant, PTL DEF Spec, DropsOnlyForCause

-----------------------------------------------------------------------------
(* The refinement.                                                         *)

\* A faithful reply is the stream up to its length.
LEMMA ReplyIsStream ==
  ASSUME NEW s \in Seq(Nat), \A i \in 1..Len(s) : s[i] = i
  PROVE  s = Channel!Stream(Len(s))
  BY LenProperties, SeqDef DEF Channel!Stream

\* The counters only grow; a step that closes the connection sends nothing, and
\* a closed connection stays closed.
LEMMA StreamMoves ==
  ASSUME Safe, Safe', [Next]_vars
  PROVE  /\ rcvd \in Nat /\ rcvd' \in Nat /\ rcvd' >= rcvd
         /\ Len(out) \in Nat /\ Len(out') \in Nat /\ Len(out') >= Len(out)
         /\ state' = "closed" => out' = out
         /\ state = "closed" => UNCHANGED <<state, rcvd, out>>
<1>0. /\ TypeOK /\ rcvd \in Nat /\ Len(out) \in Nat /\ Nb \in Nat
      /\ pending # {} => state = "open"
  BY Sizes DEF Safe, CallbacksAreRight
<1>1. CASE UNCHANGED <<rcvd, out>> /\ (state = "closed" => state' = "closed")
  BY <1>0, <1>1
<1>2. CASE echo_client_add \/ echo_client_wcb_timeout \/ Poll \/ SpuriousPoll \/ Tick
  BY <1>0, <1>1, <1>2 DEF echo_client_add, echo_client_wcb_timeout, echo_client_del, Poll, SpuriousPoll, Tick, socket
<1>3. CASE Peer \/ UNCHANGED vars
  BY <1>0, <1>1, <1>3 DEF Peer, vars, server, socket, PeerSends, PeerCloses, ConnectionFails, PeerReads
<1>4. CASE echo_client_wcb_recv
  <2>0. state = "open"
    BY <1>0, <1>4 DEF echo_client_wcb_recv
  <2>1. CASE RecvEagain \/ RecvFails \/ RecvDone
    BY <1>0, <2>0, <2>1 DEF RecvEagain, RecvFails, RecvDone
  <2>2. CASE EchoOnce
    <3>1. /\ rcvd' = rcvd + Nb /\ Len(out') = Len(out) + Least(Nb, Free)
          /\ Least(Nb, Free) \in Nat /\ state' = state
      BY <1>0, <2>2, AnswerStep DEF EchoOnce, Answer
    <3>2. QED
      BY <1>0, <2>0, <3>1
  <2>3. CASE EchoFails
    BY <1>0, <2>0, <2>3 DEF EchoFails
  <2>4. QED
    BY <1>4, <2>1, <2>2, <2>3 DEF echo_client_wcb_recv
<1>5. QED
  BY <1>2, <1>3, <1>4 DEF Next

\* Every step of an unbuffered server is a step of the echo channel.
LEMMA ChannelStep ==
  ASSUME Safe, Answered, Safe', Answered', [Next]_vars
  PROVE  [Channel!Next]_(Channel!vars)
<1>1. /\ rcvd' \in Nat /\ rcvd' >= rcvd
      /\ Len(out) \in Nat /\ Len(out') \in Nat /\ Len(out') >= Len(out)
      /\ state' = "closed" => out' = out
      /\ state = "closed" => UNCHANGED <<state, rcvd, out>>
  BY StreamMoves
<1>2. Len(out') <= rcvd' /\ out' = Channel!Stream(Len(out'))
  <2>1. /\ out' \in Seq(Nat) /\ \A i \in 1..Len(out') : out'[i] = i
        /\ Len(out') <= rcvd'
    BY DEF Safe, TypeOK, SocketType, Answered, EchoIsPrefix
  <2>2. PICK s \in Seq(Nat) : s = out'
    BY <2>1
  <2>3. QED
    BY <2>1, <2>2, ReplyIsStream
<1>3. CASE state = "closed"
  BY <1>1, <1>3 DEF Channel!vars
<1>4. CASE state # "closed" /\ state' = "closed"
  BY <1>1, <1>4 DEF Channel!Next, Channel!Close
<1>5. CASE state # "closed" /\ state' # "closed"
  <2>1. Len(out') \in Len(out)..rcvd'
    BY <1>1, <1>2
  <2>2. QED
    BY <1>1, <1>2, <1>5, <2>1 DEF Channel!Next, Channel!Echo
<1>6. QED
  BY <1>3, <1>4, <1>5

\* server.c and thread.c implement the echo channel although they keep no
\* buffer, for every peer that leaves no more unanswered than the send buffer
\* holds.
THEOREM ServerImplementsChannel ==
  ASSUME Window <= SndCap
  PROVE  Spec => ImplementsEchoChannel
<1>1. Init => Channel!Init
  BY DEF Init, SocketInit, Channel!Init
<1>2. Safe /\ Answered /\ (Safe /\ Answered)' /\ [Next]_vars => [Channel!Next]_(Channel!vars)
  BY ChannelStep
<1>3. QED
  BY PlainInvariant, <1>1, <1>2, PTL DEF Spec, ImplementsEchoChannel, Channel!Spec

-----------------------------------------------------------------------------
(* The life of an open connection: the safety that EveryByteIsEchoed rests *)
(* on beside fairness.                                                     *)

\* As long as a byte that has arrived is not sent back, an open connection of
\* server.c and thread.c has something to receive, which the next poll reports,
\* and room to send all of it: no byte waits inside the server, and none for room.
THEOREM OpenConnectionIsServed ==
  ASSUME Window <= SndCap
  PROVE  Spec => [](state = "open" /\ Len(out) < arrived => "recv" \in Ready /\ Nb > 0 /\ Nb <= Free)
<1> DEFINE IsServed ==
      state = "open" /\ Len(out) < arrived => "recv" \in Ready /\ Nb > 0 /\ Nb <= Free
<1>1. Safe /\ Answered => IsServed
  <2>1. SUFFICES ASSUME Safe, Answered, state = "open", Len(out) < arrived
                 PROVE  "recv" \in Ready /\ Nb > 0 /\ Nb <= Free
    OBVIOUS
  <2>2. /\ Len(out) \in Nat /\ arrived \in Nat /\ rcvd \in Nat /\ Available = arrived - rcvd
    BY <2>1, Sizes DEF Safe
  <2>3. Len(out) = rcvd
    BY <2>1 DEF Answered
  <2>4. Available \in Nat /\ Available > 0
    BY <2>1, <2>2, <2>3
  <2>5. Nb > 0
    BY <2>4, PlainAssumption DEF Nb, Least
  <2>6. Nb <= Free
    BY <2>1, SendTakesAll
  <2>7. "recv" \in Ready
    BY <2>4 DEF Ready, Readable
  <2>8. QED
    BY <2>5, <2>6, <2>7
<1> HIDE DEF IsServed
<1>2. Spec => []IsServed
  BY <1>1, PlainInvariant, PTL
<1>3. QED
  BY <1>2 DEF IsServed

=============================================================================
