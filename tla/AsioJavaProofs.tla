--------------------------- MODULE AsioJavaProofs ---------------------------
(***************************************************************************)
(* Proofs about the two servers that send the reply to one read out in     *)
(* parts before the next read.                                             *)
(*                                                                         *)
(* AsioConn, for every max_length, send buffer, window and number of       *)
(* bytes: the chain of handlers keeps exactly one reference to the         *)
(* connection object, and the connection is a faithful echo whatever parts *)
(* async_write sends it in; it goes on until all is answered and ends only *)
(* for a cause.                                                            *)
(*                                                                         *)
(* JavaConn, for every buffer and number of spins: a queued channel is     *)
(* left to a sleeping worker only by the selectNow that took its wakeup,   *)
(* a sleeping worker owes its connection nothing, and the connection is a  *)
(* faithful echo.                                                          *)
(***************************************************************************)
EXTENDS AsioConn, JavaConn, SequenceTheorems, FiniteSetTheorems, TLAPS

-----------------------------------------------------------------------------
(* The inductive invariant.  OneReference counts references but does not   *)
(* say which operation holds the one there is; the chain does.  A          *)
(* connection is read into, or has been read into and its handler is due,  *)
(* or is written from, or has been written, or an operation has failed;    *)
(* and in each phase it is known which bytes of data are still owed.       *)

Owes(from, n, m) == \A k \in 1..n : data[from + k] = m + k

Idle ==
  /\ object \in {"none", "deleted"} /\ ops = {} /\ posted = {}
  /\ object = "none" => rcvd = Len(out)

Reading ==
  /\ object = "live" /\ ops = {"read"} /\ posted = {}
  /\ rcvd = Len(out)

HasRead ==
  /\ object = "live" /\ ops = {}
  /\ \E n \in 1..MaxLength :
       /\ posted = {[op |-> "read", ok |-> TRUE, n |-> n]}
       /\ rcvd = Len(out) + n
       /\ Owes(0, n, Len(out))

Writing ==
  /\ object = "live" /\ ops = {"write"} /\ posted = {}
  /\ written.sent < written.of
  /\ rcvd = Len(out) + (written.of - written.sent)
  /\ Owes(written.sent, written.of - written.sent, Len(out))

HasWritten ==
  /\ object = "live" /\ ops = {}
  /\ \E n \in 1..MaxLength : posted = {[op |-> "write", ok |-> TRUE, n |-> n]}
  /\ rcvd = Len(out)

HasFailed ==
  /\ object = "live" /\ ops = {}
  /\ \E o \in {"read", "write"} : posted = {[op |-> o, ok |-> FALSE, n |-> 0]}

Chain == Idle \/ Reading \/ HasRead \/ Writing \/ HasWritten \/ HasFailed

AsioInv == TypeOK /\ EchoIsPrefix /\ Len(out) <= rcvd /\ Chain

\* The sizes the operations report are numbers.
LEMMA Sizes ==
  ASSUME TypeOK
  PROVE  /\ out \in Seq(Nat) /\ Len(out) \in Nat
         /\ arrived \in Nat /\ rcvd \in Nat /\ drained \in Nat
         /\ rcvd <= arrived /\ drained <= Len(out)
         /\ Available \in Nat /\ Available = arrived - rcvd
         /\ Free \in Int
         /\ written.sent \in Nat /\ written.of \in Nat
         /\ written.sent <= MaxLength /\ written.of <= MaxLength
         /\ MaxLength \in Nat \ {0}
<1>1. /\ out \in Seq(Nat) /\ arrived \in 0..MaxBytes /\ rcvd \in 0..arrived
      /\ drained \in 0..Len(out) /\ SndCap \in Nat /\ MaxBytes \in Nat
      /\ MaxLength \in Nat \ {0}
      /\ written.sent \in 0..MaxLength /\ written.of \in 0..MaxLength
  BY SocketAssumption, AsioAssumption DEF TypeOK, SocketType
<1>2. Len(out) \in Nat
  BY <1>1, LenProperties
<1>3. arrived \in Nat /\ rcvd \in Nat /\ drained \in Nat /\ rcvd <= arrived /\ drained <= Len(out)
  BY <1>1, <1>2
<1>4. Available \in Nat /\ Available = arrived - rcvd
  BY <1>3 DEF Available
<1>5. Free \in Int
  BY <1>1, <1>2, <1>3 DEF Free
<1>6. QED
  BY <1>1, <1>2, <1>3, <1>4, <1>5

Part(d, g, n) == [i \in 1..n |-> d[g + i]]

\* A part of the array appended to the bytes already sent.
LEMMA AppendPart ==
  ASSUME NEW s \in Seq(Nat), NEW d \in [Cells -> Nat],
         NEW g \in Nat, NEW n \in Nat, g + n <= MaxLength
  PROVE  /\ s \o Part(d, g, n) \in Seq(Nat)
         /\ Len(s \o Part(d, g, n)) = Len(s) + n
         /\ (/\ \A i \in 1..Len(s) : s[i] = i
             /\ \A k \in 1..n : d[g + k] = Len(s) + k) =>
              \A i \in 1..(Len(s) + n) : (s \o Part(d, g, n))[i] = i
<1> DEFINE t == Part(d, g, n)
<1>0. \A i \in 1..n : g + i \in Cells
  BY AsioAssumption DEF Cells
<1>1. t \in Seq(Nat) /\ Len(t) = n /\ \A i \in 1..n : t[i] = d[g + i]
  <2>1. t \in [1..n -> Nat] /\ \A i \in 1..n : t[i] = d[g + i]
    BY <1>0 DEF Part
  <2>2. QED
    BY <2>1, SeqDef
<1> HIDE DEF t
<1>2. /\ Len(s) \in Nat /\ s \o t \in Seq(Nat)
      /\ Len(s \o t) = Len(s) + Len(t)
      /\ \A i \in 1..(Len(s) + Len(t)) :
           (s \o t)[i] = IF i <= Len(s) THEN s[i] ELSE t[i - Len(s)]
  BY <1>1, ConcatProperties, LenProperties
<1>3. ASSUME \A i \in 1..Len(s) : s[i] = i,
             \A k \in 1..n : d[g + k] = Len(s) + k,
             NEW i \in 1..(Len(s) + n)
      PROVE  (s \o t)[i] = i
  <2>1. CASE i <= Len(s)
    BY <1>1, <1>2, <1>3, <2>1
  <2>2. CASE ~(i <= Len(s))
    <3>1. i - Len(s) \in 1..n /\ Len(s) + (i - Len(s)) = i
      BY <1>2, <1>3, <2>2
    <3>2. t[i - Len(s)] = Len(s) + (i - Len(s))
      BY <1>1, <1>3, <3>1
    <3>3. QED
      BY <1>1, <1>2, <2>2, <3>1, <3>2
  <2>3. QED
    BY <2>1, <2>2
<1>4. QED
  BY <1>1, <1>2, <1>3 DEF t

\* At the start there is no connection and nothing refers to one.
LEMMA AsioInit == Init => AsioInv
<1> SUFFICES ASSUME Init PROVE AsioInv
  OBVIOUS
<1>1. out \in Seq(Nat) /\ drained \in 0..Len(out) /\ Len(out) = 0 /\ rcvd = 0
  BY EmptySeq DEF Init, SocketInit
<1>2. fin \in BOOLEAN /\ rst \in BOOLEAN /\ accepts \in BOOLEAN
  BY DEF Init, SocketInit
<1>3. SocketType
  BY <1>1, <1>2, SocketAssumption DEF Init, SocketInit, SocketType
<1>4. /\ data \in [Cells -> Nat]
      /\ written \in [sent : 0..MaxLength, of : 0..MaxLength]
  BY AsioAssumption DEF Init
<1>5. TypeOK
  BY <1>2, <1>3, <1>4 DEF Init, TypeOK
<1>6. Idle /\ EchoIsPrefix /\ Len(out) <= rcvd
  BY <1>1 DEF Init, Idle, EchoIsPrefix
<1>7. QED
  BY <1>5, <1>6 DEF AsioInv, Chain

-----------------------------------------------------------------------------
(* The steps of the reactor.                                               *)

\* The handler that is due belongs to the operation of the phase.
LEMMA ChainOps ==
  ASSUME Chain
  PROVE  /\ "read" \in ops => Reading
         /\ "write" \in ops => Writing
         /\ posted # {} => HasRead \/ HasWritten \/ HasFailed
  BY DEF Chain, Idle, Reading, HasRead, Writing, HasWritten, HasFailed

\* A result that is posted has its type.
LEMMA ResultType ==
  ASSUME NEW o \in {"read", "write"}, NEW n \in Nat, n <= MaxLength
  PROVE  /\ [op |-> o, ok |-> TRUE, n |-> n] \in Results
         /\ [op |-> o, ok |-> FALSE, n |-> n] \in Results
<1>1. n \in 0..MaxLength
  BY AsioAssumption
<1>2. QED
  BY <1>1 DEF Results

\* A read that brings bytes puts the next bytes of the stream into the array.
LEMMA ReadSomeStep ==
  ASSUME AsioInv, ReadSome
  PROVE  AsioInv'
<1>0. /\ TypeOK /\ Reading /\ EchoIsPrefix /\ Len(out) \in Nat /\ rcvd \in Nat
      /\ arrived \in Nat /\ Available \in Nat /\ Available = arrived - rcvd
      /\ MaxLength \in Nat \ {0} /\ rcvd = Len(out)
  BY Sizes, ChainOps DEF AsioInv, ReadSome, Reading
<1>1. /\ object' = "live" /\ ops' = {}
      /\ UNCHANGED <<object, accepts, written, arrived, fin, rst, drained, out>>
  BY <1>0 DEF ReadSome, Reading, peer
<1> DEFINE n == Least(Available, MaxLength)
<1>2. CASE /\ n > 0
           /\ rcvd' = rcvd + n
           /\ data' = [k \in Cells |-> IF k <= n THEN rcvd + k ELSE data[k]]
           /\ Post("read", TRUE, n)
  <2>1. n \in 1..MaxLength /\ n <= Available
    BY <1>0, <1>2 DEF Least
  <2>2. PICK j \in 1..MaxLength : j = n
    BY <2>1
  <2> HIDE DEF n
  <2>3. /\ rcvd' = rcvd + j /\ posted' = {[op |-> "read", ok |-> TRUE, n |-> j]}
        /\ data' = [k \in Cells |-> IF k <= j THEN rcvd + k ELSE data[k]]
    BY <1>0, <1>2, <2>2 DEF Post, Reading
  <2>4. rcvd' \in 0..arrived /\ Len(out) <= rcvd'
    BY <1>0, <2>1, <2>2, <2>3
  <2>5. [op |-> "read", ok |-> TRUE, n |-> j] \in Results
    <3>1. j \in Nat /\ j <= MaxLength
      BY <1>0
    <3>2. QED
      BY <3>1, ResultType
  <2>6. data' \in [Cells -> Nat]
    <3>1. \A k \in Cells : rcvd + k \in Nat
      BY <1>0 DEF Cells
    <3>2. data \in [Cells -> Nat]
      BY <1>0 DEF TypeOK
    <3>3. QED
      BY <2>3, <3>1, <3>2
  <2>7. TypeOK'
    <3>1. SocketType'
      BY <1>0, <1>1, <2>4 DEF TypeOK, SocketType
    <3>2. posted' \subseteq Results
      BY <2>3, <2>5
    <3>3. QED
      BY <1>0, <1>1, <2>6, <3>1, <3>2 DEF TypeOK
  <2>8. \A k \in 1..j : data'[0 + k] = Len(out) + k
    <3>1. \A k \in 1..j : k \in Cells /\ k <= j /\ 0 + k = k
      BY <1>0 DEF Cells
    <3>2. QED
      BY <1>0, <2>3, <3>1
  <2>9. HasRead'
    BY <1>0, <1>1, <2>3, <2>8 DEF HasRead, Owes
  <2>10. EchoIsPrefix' /\ Len(out') <= rcvd'
    BY <1>0, <1>1, <2>4 DEF EchoIsPrefix
  <2>11. QED
    BY <2>7, <2>9, <2>10 DEF AsioInv, Chain
<1>3. CASE Post("read", FALSE, 0) /\ UNCHANGED <<rcvd, data>>
  <2>1. posted' = {[op |-> "read", ok |-> FALSE, n |-> 0]}
    BY <1>0, <1>3 DEF Post, Reading
  <2>2. [op |-> "read", ok |-> FALSE, n |-> 0] \in Results
    <3>1. 0 \in Nat /\ 0 <= MaxLength
      BY <1>0
    <3>2. QED
      BY <3>1, ResultType
  <2>3. TypeOK'
    <3>1. posted' \subseteq Results
      BY <2>1, <2>2
    <3>2. SocketType'
      BY <1>0, <1>1, <1>3 DEF TypeOK, SocketType
    <3>3. QED
      BY <1>0, <1>1, <1>3, <3>1, <3>2 DEF TypeOK
  <2>4. HasFailed'
    BY <1>1, <2>1 DEF HasFailed
  <2>5. EchoIsPrefix' /\ Len(out') <= rcvd'
    BY <1>0, <1>1, <1>3 DEF EchoIsPrefix
  <2>6. QED
    BY <2>3, <2>4, <2>5 DEF AsioInv, Chain
<1>4. QED
  BY <1>2, <1>3 DEF ReadSome

\* A part of a write sends the next bytes of the stream, and what is left of
\* the write follows on.
LEMMA WriteSomeStep ==
  ASSUME AsioInv, WriteSome
  PROVE  AsioInv'
<1>0. /\ TypeOK /\ Writing /\ EchoIsPrefix /\ Len(out) \in Nat /\ out \in Seq(Nat)
      /\ rcvd \in Nat /\ Free \in Int /\ MaxLength \in Nat \ {0} /\ Len(out) <= rcvd
      /\ written.sent \in Nat /\ written.of \in Nat /\ drained \in Nat /\ drained <= Len(out)
      /\ written.sent <= MaxLength /\ written.of <= MaxLength
  BY Sizes, ChainOps DEF AsioInv, WriteSome
<1>1. /\ object' = "live"
      /\ UNCHANGED <<object, accepts, data, arrived, fin, rst, drained, rcvd>>
  BY <1>0 DEF WriteSome, Writing, peer
<1>2. ASSUME NEW n \in 1..Least(Free, written.of - written.sent),
             out' = out \o [i \in 1..n |-> data[written.sent + i]],
             written' = [written EXCEPT !.sent = @ + n],
             IF written'.sent = written.of
               THEN Post("write", TRUE, written.of) /\ ops' = ops \ {"write"}
               ELSE UNCHANGED <<posted, ops>>
      PROVE  AsioInv'
  <2>1. n \in Nat \ {0} /\ n <= written.of - written.sent
    BY <1>0, <1>2 DEF Least
  <2>a. PICK a \in Nat : a = written.sent
    BY <1>0
  <2>b. PICK b \in Nat : b = written.of
    BY <1>0
  <2>2. a + n <= b /\ a + n <= MaxLength /\ b <= MaxLength /\ b # 0
    BY <1>0, <2>1, <2>a, <2>b
  <2>3. /\ written'.sent = a + n /\ written'.of = b
        /\ written' \in [sent : 0..MaxLength, of : 0..MaxLength]
    <3>1. written \in [sent : 0..MaxLength, of : 0..MaxLength]
      BY <1>0 DEF TypeOK
    <3>2. a + n \in 0..MaxLength
      BY <1>0, <2>1, <2>2
    <3>3. QED
      BY <1>2, <2>a, <2>b, <3>1, <3>2
  <2>s. PICK s \in Seq(Nat) : s = out
    BY <1>0
  <2>d. PICK d \in [Cells -> Nat] : d = data
    BY <1>0 DEF TypeOK
  <2>4. /\ \A i \in 1..Len(s) : s[i] = i
        /\ \A k \in 1..(b - a) : d[a + k] = Len(s) + k
        /\ rcvd = Len(s) + (b - a)
    BY <1>0, <2>a, <2>b, <2>s, <2>d DEF EchoIsPrefix, Writing, Owes
  <2>5. out' = s \o Part(d, a, n)
    BY <1>2, <2>a, <2>s, <2>d DEF Part
  <2>6. /\ out' \in Seq(Nat) /\ Len(out') = Len(s) + n
        /\ \A i \in 1..(Len(s) + n) : out'[i] = i
    <3>1. \A k \in 1..n : d[a + k] = Len(s) + k
      <4>1. \A k \in 1..n : k \in 1..(b - a)
        BY <2>1, <2>2
      <4>2. QED
        BY <2>4, <4>1
    <3>2. n \in Nat /\ a + n <= MaxLength
      BY <2>1, <2>2
    <3> DEFINE r == s \o Part(d, a, n)
    <3>3. /\ r \in Seq(Nat) /\ Len(r) = Len(s) + n
          /\ (/\ \A i \in 1..Len(s) : s[i] = i
              /\ \A k \in 1..n : d[a + k] = Len(s) + k) =>
               \A i \in 1..(Len(s) + n) : r[i] = i
      BY <3>2, AppendPart, ZenonT(30)
    <3>4. out' = r
      BY <2>5
    <3> HIDE DEF r
    <3>5. QED
      BY <2>4, <3>1, <3>3, <3>4
  <2>7. EchoIsPrefix' /\ Len(out') <= rcvd' /\ rcvd' = Len(out') + (b - (a + n))
    <3>1. Len(s) \in Nat /\ rcvd' = rcvd
      BY <1>0, <1>1, <2>s
    <3>2. Len(out') <= rcvd' /\ rcvd' = Len(out') + (b - (a + n))
      BY <2>1, <2>2, <2>4, <2>6, <3>1
    <3>3. QED
      BY <2>6, <3>2 DEF EchoIsPrefix
  <2>8. SocketType'
    <3>1. drained' \in 0..Len(out')
      BY <1>0, <1>1, <2>1, <2>6, <2>s
    <3>2. QED
      BY <1>0, <1>1, <2>6, <3>1 DEF TypeOK, SocketType
  <2>9. CASE a + n = b
    <3>1. ops' = {} /\ posted' = {[op |-> "write", ok |-> TRUE, n |-> b]}
      BY <1>0, <1>2, <2>3, <2>b, <2>9 DEF Post, Writing
    <3>2. b \in 1..MaxLength /\ b \in 0..MaxLength
      BY <1>0, <2>2
    <3>3. [op |-> "write", ok |-> TRUE, n |-> b] \in Results
      BY <2>2, ResultType
    <3>4. TypeOK'
      <4>1. posted' \subseteq Results
        BY <3>1, <3>3
      <4>2. QED
        BY <1>0, <1>1, <2>3, <2>8, <3>1, <4>1 DEF TypeOK
    <3>5. rcvd' = Len(out')
      <4>1. Len(out') \in Nat
        BY <2>6, LenProperties
      <4>2. QED
        BY <2>1, <2>7, <2>9, <4>1
    <3>6. HasWritten'
      BY <1>1, <3>1, <3>2, <3>5 DEF HasWritten
    <3>7. QED
      BY <2>7, <3>4, <3>6 DEF AsioInv, Chain
  <2>10. CASE a + n # b
    <3>1. ops' = {"write"} /\ posted' = {}
      BY <1>0, <1>2, <2>3, <2>b, <2>10 DEF Writing
    <3>2. TypeOK'
      BY <1>0, <1>1, <2>3, <2>8, <3>1 DEF TypeOK
    <3>3. \A k \in 1..(b - (a + n)) : d[(a + n) + k] = Len(out') + k
      <4>1. ASSUME NEW k \in 1..(b - (a + n))
            PROVE  d[(a + n) + k] = Len(out') + k
        <5>1. n + k \in 1..(b - a) /\ a + (n + k) = (a + n) + k
          BY <2>1, <2>2
        <5>2. d[a + (n + k)] = Len(s) + (n + k)
          BY <2>4, <5>1
        <5>3. Len(s) \in Nat
          BY <1>0, <2>s
        <5>4. QED
          BY <2>1, <2>6, <5>1, <5>2, <5>3
      <4>2. QED
        BY <4>1
    <3>4. Writing'
      <4>1. written'.sent < written'.of
        BY <2>1, <2>2, <2>3, <2>10
      <4>2. Owes(written.sent, written.of - written.sent, Len(out))'
        BY <1>1, <2>3, <2>d, <3>3 DEF Owes
      <4>3. QED
        BY <1>1, <2>3, <2>7, <3>1, <4>1, <4>2 DEF Writing
    <3>5. QED
      BY <2>7, <3>2, <3>4 DEF AsioInv, Chain
  <2>11. QED
    BY <2>9, <2>10
<1>3. CASE Post("write", FALSE, 0) /\ ops' = ops \ {"write"} /\ UNCHANGED <<written, out>>
  <2>1. posted' = {[op |-> "write", ok |-> FALSE, n |-> 0]} /\ ops' = {}
    BY <1>0, <1>3 DEF Post, Writing
  <2>2. [op |-> "write", ok |-> FALSE, n |-> 0] \in Results
    <3>1. 0 \in Nat /\ 0 <= MaxLength
      BY <1>0
    <3>2. QED
      BY <3>1, ResultType
  <2>3. TypeOK'
    <3>1. posted' \subseteq Results
      BY <2>1, <2>2
    <3>2. SocketType'
      BY <1>0, <1>1, <1>3 DEF TypeOK, SocketType
    <3>3. QED
      BY <1>0, <1>1, <1>3, <2>1, <3>1, <3>2 DEF TypeOK
  <2>4. HasFailed'
    BY <1>1, <2>1 DEF HasFailed
  <2>5. EchoIsPrefix' /\ Len(out') <= rcvd'
    BY <1>0, <1>1, <1>3 DEF EchoIsPrefix
  <2>6. QED
    BY <2>3, <2>4, <2>5 DEF AsioInv, Chain
<1>4. QED
  BY <1>2, <1>3 DEF WriteSome

-----------------------------------------------------------------------------
(* The handlers.                                                           *)

\* The handler of async_read_some starts the write of exactly what was read, or
\* deletes the object nothing refers to any more.
LEMMA ReadHandlerStep ==
  ASSUME AsioInv, read
  PROVE  AsioInv'
<1>0. /\ TypeOK /\ Chain /\ EchoIsPrefix /\ Len(out) \in Nat /\ rcvd \in Nat
      /\ MaxLength \in Nat \ {0} /\ Len(out) <= rcvd
  BY Sizes DEF AsioInv
<1>1. PICK r \in posted : /\ r.op = "read" /\ posted' = posted \ {r}
                          /\ \/ r.ok /\ StartWrite(r.n)
                             \/ ~r.ok /\ DeleteThis
                          /\ UNCHANGED <<accepts, data, socket>>
  BY DEF read, Handle
<1>2. UNCHANGED <<accepts, data, arrived, fin, rst, drained, rcvd, out>>
  BY <1>1 DEF socket, peer
<1>3. SocketType' /\ EchoIsPrefix' /\ Len(out') <= rcvd'
  BY <1>0, <1>2 DEF TypeOK, SocketType, EchoIsPrefix
<1>4. HasRead \/ HasWritten \/ HasFailed
  BY <1>0, <1>1, ChainOps
<1>5. CASE HasRead
  <2>1. PICK n \in 1..MaxLength : /\ posted = {[op |-> "read", ok |-> TRUE, n |-> n]}
                                  /\ rcvd = Len(out) + n
                                  /\ Owes(0, n, Len(out))
    BY <1>5 DEF HasRead
  <2>2. r.ok = TRUE /\ r.n = n /\ posted' = {}
    <3>1. r = [op |-> "read", ok |-> TRUE, n |-> n] /\ posted' = posted \ {r}
      BY <1>1, <2>1
    <3>2. posted' = {}
      BY <2>1, <3>1, Zenon
    <3>3. r.ok = TRUE
      BY <3>1
    <3>4. r.n = n
      BY <3>1
    <3>5. QED
      BY <3>2, <3>3, <3>4
  <2>3. StartWrite(n)
    BY <1>1, <2>2
  <2>4. /\ ops' = {"write"} /\ object' = "live" /\ written' = [sent |-> 0, of |-> n]
    BY <1>5, <2>3 DEF StartWrite, HasRead
  <2>5. n \in Nat /\ n - 0 = n /\ 0 < n /\ n \in 0..MaxLength /\ 0 \in 0..MaxLength
    BY <1>0
  <2>6. TypeOK'
    BY <1>0, <1>2, <1>3, <2>2, <2>4, <2>5 DEF TypeOK
  <2>7. written'.sent = 0 /\ written'.of = n
    BY <2>4
  <2>8. Writing'
    <3>1. Owes(written.sent, written.of - written.sent, Len(out))'
      BY <1>2, <2>1, <2>5, <2>7 DEF Owes
    <3>2. rcvd' = Len(out') + (written'.of - written'.sent) /\ written'.sent < written'.of
      BY <1>2, <2>1, <2>5, <2>7
    <3>3. QED
      BY <2>2, <2>4, <3>1, <3>2 DEF Writing
  <2>9. QED
    BY <1>3, <2>6, <2>8 DEF AsioInv, Chain
<1>6. CASE HasFailed
  <2>1. PICK o \in {"read", "write"} : posted = {[op |-> o, ok |-> FALSE, n |-> 0]}
    BY <1>6 DEF HasFailed
  <2>2. r.ok = FALSE /\ posted' = {}
    <3>1. r = [op |-> o, ok |-> FALSE, n |-> 0] /\ posted' = posted \ {r}
      BY <1>1, <2>1
    <3>2. posted' = {}
      BY <2>1, <3>1, Zenon
    <3>3. r.ok = FALSE
      BY <3>1
    <3>4. QED
      BY <3>2, <3>3
  <2>3. DeleteThis
    BY <1>1, <2>2
  <2>4. object' = "deleted" /\ ops' = {} /\ written' = written
    BY <1>6, <2>3 DEF DeleteThis, HasFailed
  <2>5. TypeOK'
    BY <1>0, <1>2, <1>3, <2>2, <2>4 DEF TypeOK
  <2>6. Idle'
    BY <2>2, <2>4 DEF Idle
  <2>7. QED
    BY <1>3, <2>5, <2>6 DEF AsioInv, Chain
<1>7. CASE HasWritten
  BY <1>1, <1>7 DEF HasWritten
<1>8. QED
  BY <1>4, <1>5, <1>6, <1>7

\* The handler of async_write starts the next read once all is sent, or deletes
\* the object.
LEMMA WriteHandlerStep ==
  ASSUME AsioInv, write
  PROVE  AsioInv'
<1>0. /\ TypeOK /\ Chain /\ EchoIsPrefix /\ Len(out) <= rcvd
  BY DEF AsioInv
<1>1. PICK r \in posted : /\ r.op = "write" /\ posted' = posted \ {r}
                          /\ \/ r.ok /\ start
                             \/ ~r.ok /\ DeleteThis
                          /\ UNCHANGED <<accepts, data, socket>>
  BY DEF write, Handle
<1>2. UNCHANGED <<accepts, data, arrived, fin, rst, drained, rcvd, out>>
  BY <1>1 DEF socket, peer
<1>3. SocketType' /\ EchoIsPrefix' /\ Len(out') <= rcvd'
  BY <1>0, <1>2 DEF TypeOK, SocketType, EchoIsPrefix
<1>4. HasRead \/ HasWritten \/ HasFailed
  BY <1>0, <1>1, ChainOps
<1>5. CASE HasWritten
  <2>1. PICK n \in 1..MaxLength : posted = {[op |-> "write", ok |-> TRUE, n |-> n]}
    BY <1>5 DEF HasWritten
  <2>2. r.ok = TRUE /\ posted' = {}
    <3>1. r = [op |-> "write", ok |-> TRUE, n |-> n] /\ posted' = posted \ {r}
      BY <1>1, <2>1
    <3>2. posted' = {}
      BY <2>1, <3>1, Zenon
    <3>3. r.ok = TRUE
      BY <3>1
    <3>4. QED
      BY <3>2, <3>3
  <2>3. start
    BY <1>1, <2>2
  <2>4. ops' = {"read"} /\ object' = "live" /\ written' = written
    BY <1>5, <2>3 DEF start, HasWritten
  <2>5. TypeOK'
    BY <1>0, <1>2, <1>3, <2>2, <2>4 DEF TypeOK
  <2>6. Reading'
    BY <1>2, <1>5, <2>2, <2>4 DEF HasWritten, Reading
  <2>7. QED
    BY <1>3, <2>5, <2>6 DEF AsioInv, Chain
<1>6. CASE HasFailed
  <2>1. PICK o \in {"read", "write"} : posted = {[op |-> o, ok |-> FALSE, n |-> 0]}
    BY <1>6 DEF HasFailed
  <2>2. r.ok = FALSE /\ posted' = {}
    <3>1. r = [op |-> o, ok |-> FALSE, n |-> 0] /\ posted' = posted \ {r}
      BY <1>1, <2>1
    <3>2. posted' = {}
      BY <2>1, <3>1, Zenon
    <3>3. r.ok = FALSE
      BY <3>1
    <3>4. QED
      BY <3>2, <3>3
  <2>3. DeleteThis
    BY <1>1, <2>2
  <2>4. object' = "deleted" /\ ops' = {} /\ written' = written
    BY <1>6, <2>3 DEF DeleteThis, HasFailed
  <2>5. TypeOK'
    BY <1>0, <1>2, <1>3, <2>2, <2>4 DEF TypeOK
  <2>6. Idle'
    BY <2>2, <2>4 DEF Idle
  <2>7. QED
    BY <1>3, <2>5, <2>6 DEF AsioInv, Chain
<1>7. CASE HasRead
  BY <1>1, <1>7 DEF HasRead
<1>8. QED
  BY <1>4, <1>5, <1>6, <1>7

\* Every step of the acceptor, the reactor, the handlers and the peer keeps the
\* invariant.
LEMMA AsioStep == AsioInv /\ [Next]_vars => AsioInv'
<1> SUFFICES ASSUME AsioInv, [Next]_vars
             PROVE  AsioInv'
  OBVIOUS
<1>0. /\ TypeOK /\ Chain /\ EchoIsPrefix /\ Len(out) <= rcvd /\ out \in Seq(Nat) /\ Len(out) \in Nat
      /\ rcvd \in Nat /\ arrived \in Nat /\ drained \in Nat
  BY Sizes DEF AsioInv
<1>1. ASSUME UNCHANGED <<connection, rcvd, out>>, SocketType', accepts' \in BOOLEAN
      PROVE  AsioInv'
  <2>1. TypeOK'
    BY <1>0, <1>1 DEF TypeOK, connection
  <2>2. Chain'
    BY <1>0, <1>1 DEF Chain, Idle, Reading, HasRead, Writing, HasWritten, HasFailed, Owes, connection
  <2>3. EchoIsPrefix' /\ Len(out') <= rcvd'
    BY <1>0, <1>1 DEF EchoIsPrefix
  <2>4. QED
    BY <2>1, <2>2, <2>3 DEF AsioInv
<1>2. CASE accept
  <2>0. /\ UNCHANGED <<accepts, posted, data, written, arrived, fin, rst, drained, rcvd, out>>
        /\ SocketType' /\ accepts' \in BOOLEAN
    BY <1>0, <1>2 DEF accept, socket, peer, TypeOK, SocketType
  <2>1. CASE object = "none" /\ object' = "live" /\ ops' = {"read"}
    <3>1. Idle
      BY <1>0, <2>1 DEF Chain, Idle, Reading, HasRead, Writing, HasWritten, HasFailed
    <3>2. Reading'
      BY <2>0, <2>1, <3>1 DEF Idle, Reading
    <3>3. TypeOK'
      BY <1>0, <2>0, <2>1 DEF TypeOK
    <3>4. EchoIsPrefix' /\ Len(out') <= rcvd'
      BY <1>0, <2>0 DEF EchoIsPrefix
    <3>5. QED
      BY <3>2, <3>3, <3>4 DEF AsioInv, Chain
  <2>2. CASE UNCHANGED <<object, ops>>
    BY <1>1, <2>0, <2>2 DEF connection
  <2>3. QED
    BY <1>2, <2>1, <2>2 DEF accept
<1>3. CASE ReadSome \/ WriteSome \/ read \/ write
  BY <1>3, ReadSomeStep, WriteSomeStep, ReadHandlerStep, WriteHandlerStep
<1>4. CASE Peer
  <2>1. UNCHANGED <<connection, rcvd, out>> /\ accepts' \in BOOLEAN
    BY <1>0, <1>4 DEF Peer, server, PeerSends, PeerCloses, ConnectionFails, PeerReads, TypeOK
  <2>2. SocketType'
    <3>1. CASE PeerSends \/ PeerReads
      <4>1. arrived' \in 0..MaxBytes /\ rcvd' \in 0..arrived' /\ drained' \in 0..Len(out')
        BY <1>0, <2>1, <3>1, SocketAssumption DEF PeerSends, PeerReads, TypeOK, SocketType
      <4>2. UNCHANGED <<fin, rst>>
        BY <3>1 DEF PeerSends, PeerReads
      <4>3. QED
        BY <1>0, <2>1, <4>1, <4>2 DEF TypeOK, SocketType
    <3>2. CASE PeerCloses \/ ConnectionFails
      BY <1>0, <2>1, <3>2 DEF PeerCloses, ConnectionFails, TypeOK, SocketType
    <3>3. QED
      BY <1>4, <3>1, <3>2 DEF Peer
  <2>3. QED
    BY <1>1, <2>1, <2>2
<1>5. CASE UNCHANGED vars
  <2>1. UNCHANGED <<connection, rcvd, out>> /\ accepts' \in BOOLEAN /\ SocketType'
    BY <1>0, <1>5 DEF vars, server, socket, peer, TypeOK, SocketType
  <2>2. QED
    BY <1>1, <2>1
<1>6. QED
  BY <1>2, <1>3, <1>4, <1>5 DEF Next

\* A live connection of server.cc is referred to by exactly one operation or
\* finished operation, for every size and every peer: "delete this" leaves
\* nothing behind, and no connection is forgotten alive.
THEOREM ObjectHasOneReference == Spec => []OneReference
<1>1. AsioInv => OneReference
  <2> SUFFICES ASSUME AsioInv PROVE OneReference
    OBVIOUS
  <2>0. /\ Cardinality({}) = 0 /\ Cardinality({"read"}) = 1 /\ Cardinality({"write"}) = 1
        /\ \A x : Cardinality({x}) = 1
    BY FS_EmptySet, FS_Singleton
  <2>1. CASE Idle
    BY <2>1 DEF AsioInv, Idle, OneReference
  <2>2. CASE Reading \/ Writing
    <3>1. object = "live" /\ posted = {} /\ (ops = {"read"} \/ ops = {"write"})
      BY <2>2 DEF Reading, Writing
    <3>2. Cardinality(posted) = 0 /\ Cardinality(ops) = 1
      BY <2>0, <3>1
    <3>3. QED
      BY <3>1, <3>2 DEF AsioInv, OneReference
  <2>3. CASE HasRead \/ HasWritten \/ HasFailed
    <3>1. object = "live" /\ ops = {} /\ \E x : posted = {x}
      BY <2>3 DEF HasRead, HasWritten, HasFailed
    <3>2. Cardinality(posted) = 1 /\ Cardinality(ops) = 0
      BY <2>0, <3>1
    <3>3. QED
      BY <3>1, <3>2 DEF AsioInv, OneReference
  <2>4. QED
    BY <2>1, <2>2, <2>3 DEF AsioInv, Chain
<1>2. QED
  BY <1>1, AsioInit, AsioStep, PTL DEF Spec

-----------------------------------------------------------------------------
(* The ends of a connection, and the life before: the safety that          *)
(* ClosedPeerIsReclaimed and EveryByteIsEchoed rest on beside fairness.     *)

\* A connection is deleted, or about to be, because it failed or because the peer
\* closed it and everything has been answered.
EndHasCause == object = "deleted" \/ HasFailed => rst \/ (fin /\ Len(out) = arrived)

\* The phase a failed result is posted in is not mistaken for another.
LEMMA PhaseOfResult ==
  ASSUME Chain, NEW r \in posted
  PROVE  /\ ~r.ok => HasFailed
         /\ r.ok => ~HasFailed
         /\ HasFailed => ~r.ok
<1>1. CASE HasFailed
  <2>1. PICK o \in {"read", "write"} : r = [op |-> o, ok |-> FALSE, n |-> 0]
    BY <1>1 DEF HasFailed
  <2>2. r.ok = FALSE
    BY <2>1
  <2>3. QED
    BY <1>1, <2>2
<1>2. CASE ~HasFailed
  <2>1. HasRead \/ HasWritten
    BY <1>2, ChainOps
  <2>2. \E o \in {"read", "write"}, n \in 1..MaxLength : r = [op |-> o, ok |-> TRUE, n |-> n]
    BY <2>1 DEF HasRead, HasWritten
  <2>3. r.ok = TRUE
    BY <2>2
  <2>4. QED
    BY <1>2, <2>3
<1>3. QED
  BY <1>1, <1>2

\* An operation that is posted as failed has met a failure or the end of the
\* stream; a read meets the end only after the last reply was written.
LEMMA EndStep ==
  ASSUME AsioInv, EndHasCause, [Next]_vars
  PROVE  EndHasCause'
<1>1. TypeOK /\ Chain /\ fin \in BOOLEAN /\ rst \in BOOLEAN
  BY DEF AsioInv, TypeOK, SocketType
<1>2. SUFFICES ASSUME object' = "deleted" \/ HasFailed'
               PROVE  rst' \/ (fin' /\ Len(out') = arrived')
  BY DEF EndHasCause
<1>3. CASE accept
  <2>1. UNCHANGED <<posted, arrived, fin, rst, out>>
    BY <1>3 DEF accept, socket, peer
  <2>2. object = "deleted" \/ HasFailed
    BY <1>2, <1>3, <2>1 DEF accept, HasFailed
  <2>3. QED
    BY <2>1, <2>2 DEF EndHasCause
<1>4. CASE ReadSome
  <2>1. Reading /\ object' = object /\ object = "live" /\ UNCHANGED <<arrived, fin, rst, out>>
    BY <1>1, <1>4, ChainOps DEF ReadSome, peer, Reading
  <2>2. HasFailed' /\ posted = {}
    BY <1>2, <2>1 DEF Reading
  <2>3. CASE rst \/ (Available = 0 /\ fin)
    <3>1. rcvd = Len(out) /\ Available = arrived - rcvd /\ arrived \in Nat /\ rcvd \in Nat
      BY <1>1, <2>1, Sizes DEF Reading
    <3>2. Available = 0 => arrived = rcvd
      BY <3>1
    <3>3. QED
      BY <2>1, <2>3, <3>1, <3>2
  <2>4. CASE \E n : Post("read", TRUE, n)
    <3>1. PICK n : posted' = {[op |-> "read", ok |-> TRUE, n |-> n]}
      BY <2>2, <2>4 DEF Post
    <3>2. PICK o \in {"read", "write"} : posted' = {[op |-> o, ok |-> FALSE, n |-> 0]}
      BY <2>2 DEF HasFailed
    <3>3. [op |-> "read", ok |-> TRUE, n |-> n] = [op |-> o, ok |-> FALSE, n |-> 0]
      BY <3>1, <3>2
    <3>4. [op |-> "read", ok |-> TRUE, n |-> n].ok = [op |-> o, ok |-> FALSE, n |-> 0].ok
      BY <3>3
    <3>5. QED
      BY <3>4
  <2>5. QED
    BY <1>4, <2>3, <2>4 DEF ReadSome
<1>5. CASE WriteSome
  <2>1. Writing /\ object' = object /\ object = "live" /\ UNCHANGED <<arrived, fin, rst>>
    BY <1>1, <1>5, ChainOps DEF WriteSome, peer, Writing
  <2>2. HasFailed' /\ posted = {}
    BY <1>2, <2>1 DEF Writing
  <2>3. CASE rst
    BY <2>1, <2>3
  <2>4. CASE ~rst
    <3>1. \/ posted' = {[op |-> "write", ok |-> TRUE, n |-> written.of]}
          \/ posted' = {}
      BY <1>5, <2>2, <2>4 DEF WriteSome, Post
    <3>2. PICK o \in {"read", "write"} : posted' = {[op |-> o, ok |-> FALSE, n |-> 0]}
      BY <2>2 DEF HasFailed
    <3>3. [op |-> "write", ok |-> TRUE, n |-> written.of] = [op |-> o, ok |-> FALSE, n |-> 0]
      BY <3>1, <3>2
    <3>4. [op |-> "write", ok |-> TRUE, n |-> written.of].ok = [op |-> o, ok |-> FALSE, n |-> 0].ok
      BY <3>3
    <3>5. QED
      BY <3>4
  <2>5. QED
    BY <2>3, <2>4
<1>6. CASE read \/ write
  <2>1. PICK r \in posted :
          /\ posted' = posted \ {r} /\ UNCHANGED <<arrived, fin, rst, out>>
          /\ (r.ok /\ object' = object) \/ ~r.ok
    BY <1>6 DEF read, write, Handle, StartWrite, start, DeleteThis, socket, peer
  <2>2. PICK x : posted = {x}
    BY <1>1, <2>1, ChainOps DEF HasRead, HasWritten, HasFailed
  <2>3. posted' = {}
    BY <2>1, <2>2
  <2>4. ~HasFailed'
    BY <2>3 DEF HasFailed
  <2>5. object # "deleted"
    BY <1>1, <2>1, ChainOps DEF HasRead, HasWritten, HasFailed
  <2>6. ~r.ok
    BY <1>2, <2>1, <2>4, <2>5
  <2>7. HasFailed
    BY <1>1, <2>6, PhaseOfResult
  <2>8. QED
    BY <2>1, <2>7 DEF EndHasCause
<1>7. CASE Peer
  <2>1. UNCHANGED <<object, ops, posted, out>> /\ (rst => rst') /\ (fin => fin')
    BY <1>7 DEF Peer, server, connection, PeerSends, PeerCloses, ConnectionFails, PeerReads
  <2>2. object = "deleted" \/ HasFailed
    BY <1>2, <2>1 DEF HasFailed
  <2>3. fin => arrived' = arrived
    BY <1>7 DEF Peer, PeerSends, PeerCloses, ConnectionFails, PeerReads
  <2>4. QED
    BY <2>1, <2>2, <2>3 DEF EndHasCause
<1>8. CASE UNCHANGED vars
  <2>1. UNCHANGED <<object, ops, posted, arrived, fin, rst, out>>
    BY <1>8 DEF vars, server, connection, socket, peer
  <2>2. QED
    BY <1>2, <2>1 DEF EndHasCause, HasFailed
<1>9. QED
  BY <1>3, <1>4, <1>5, <1>6, <1>7, <1>8 DEF Next

\* server.cc deletes a connection only if it has failed, or if the peer has closed
\* it and every byte that arrived has been sent back.
THEOREM DeletesForCause ==
  Spec => [](object = "deleted" => rst \/ (fin /\ Len(out) = arrived))
<1>1. Init => EndHasCause
  BY DEF Init, EndHasCause, HasFailed
<1>2. AsioInv /\ EndHasCause /\ [Next]_vars => EndHasCause'
  BY EndStep
<1>3. EndHasCause => (object = "deleted" => rst \/ (fin /\ Len(out) = arrived))
  BY DEF EndHasCause
<1>4. QED
  BY <1>1, <1>2, <1>3, AsioInit, AsioStep, PTL DEF Spec

\* Something can be done for a live connection: a handler is due; a read finds
\* something; a write finds room, or finds that the connection has failed.
CanGoOn ==
  \/ posted # {}
  \/ "read" \in ops /\ Readable
  \/ "write" \in ops /\ written.sent < written.of /\ (rst \/ Free > 0)

\* A live connection of server.cc never stands still for a reason of its own: a
\* handler is due, an operation can complete, or all that has arrived has been
\* answered, or the peer has not read the reply it was sent.
THEOREM LiveConnectionGoesOn ==
  Spec => [](object = "live" => CanGoOn \/ Len(out) = arrived \/ drained < Len(out))
<1>1. AsioInv => (object = "live" => CanGoOn \/ Len(out) = arrived \/ drained < Len(out))
  <2>1. SUFFICES ASSUME AsioInv, object = "live"
                 PROVE  CanGoOn \/ Len(out) = arrived \/ drained < Len(out)
    OBVIOUS
  <2>2. TypeOK /\ Chain
    BY <2>1 DEF AsioInv
  <2>3. CASE HasRead \/ HasWritten \/ HasFailed
    BY <2>3 DEF HasRead, HasWritten, HasFailed, CanGoOn
  <2>4. CASE Reading
    <3>1. rcvd = Len(out) /\ Available = arrived - rcvd /\ arrived \in Nat /\ rcvd \in Nat
          /\ rcvd <= arrived
      BY <2>2, <2>4, Sizes DEF Reading
    <3>2. Available > 0 \/ rcvd = arrived
      BY <3>1
    <3>3. QED
      BY <2>4, <3>1, <3>2 DEF Reading, Readable, CanGoOn
  <2>5. CASE Writing
    <3>1. Len(out) \in Nat /\ drained \in Nat /\ drained <= Len(out)
      BY <2>2, Sizes
    <3>2. drained < Len(out) \/ Free > 0
      BY <3>1, SocketAssumption DEF Free
    <3>3. QED
      BY <2>5, <3>2 DEF Writing, CanGoOn
  <2>6. QED
    BY <2>1, <2>2, <2>3, <2>4, <2>5 DEF Chain, Idle
<1>2. QED
  BY <1>1, AsioInit, AsioStep, PTL DEF Spec

-----------------------------------------------------------------------------
(* The refinement.                                                         *)

\* A faithful reply is the stream up to its length.
LEMMA ReplyIsStream ==
  ASSUME NEW s \in Seq(Nat), \A i \in 1..Len(s) : s[i] = i
  PROVE  s = Channel!Stream(Len(s))
  BY LenProperties, SeqDef DEF Channel!Stream

\* The counters only grow; a step that deletes the connection sends nothing, and
\* a deleted connection stays deleted.
LEMMA StreamMoves ==
  ASSUME AsioInv, AsioInv', [Next]_vars
  PROVE  /\ rcvd \in Nat /\ rcvd' \in Nat /\ rcvd' >= rcvd
         /\ Len(out) \in Nat /\ Len(out') \in Nat /\ Len(out') >= Len(out)
         /\ object' = "deleted" => out' = out
         /\ object = "deleted" => UNCHANGED <<object, rcvd, out>>
<1>0. /\ TypeOK /\ Chain /\ rcvd \in Nat /\ Len(out) \in Nat /\ Available \in Nat
      /\ MaxLength \in Nat \ {0} /\ out \in Seq(Nat)
      /\ ops # {} \/ posted # {} => object = "live"
  BY Sizes DEF AsioInv, Chain, Idle, Reading, HasRead, Writing, HasWritten, HasFailed
<1>1. CASE UNCHANGED <<rcvd, out>> /\ (object = "deleted" => object' = "deleted")
  BY <1>0, <1>1
<1>2. CASE accept \/ Peer \/ UNCHANGED vars
  BY <1>0, <1>1, <1>2 DEF accept, Peer, vars, server, connection, socket,
                          PeerSends, PeerCloses, ConnectionFails, PeerReads
<1>3. CASE read \/ write
  BY <1>0, <1>1, <1>3 DEF read, write, socket
<1>4. CASE ReadSome
  <2>1. object = "live" /\ object' = object /\ out' = out
    BY <1>0, <1>4 DEF ReadSome
  <2>2. rcvd' = rcvd \/ (rcvd' = rcvd + Least(Available, MaxLength) /\ Least(Available, MaxLength) > 0)
    BY <1>4 DEF ReadSome
  <2>3. Least(Available, MaxLength) \in Nat
    BY <1>0 DEF Least
  <2>4. QED
    BY <1>0, <2>1, <2>2, <2>3
<1>5. CASE WriteSome
  <2>1. object = "live" /\ object' = object /\ rcvd' = rcvd
    BY <1>0, <1>5 DEF WriteSome
  <2>3. ASSUME NEW n \in 1..Least(Free, written.of - written.sent),
               out' = out \o [i \in 1..n |-> data[written.sent + i]]
        PROVE  Len(out') \in Nat /\ Len(out') >= Len(out)
    <3>1. /\ written.sent \in Nat /\ written.of \in Nat /\ Free \in Int
          /\ written.of <= MaxLength
      BY <1>0, Sizes
    <3>2. n \in Nat /\ written.sent + n <= MaxLength
      BY <1>0, <2>3, <3>1 DEF Least
    <3>a. PICK a \in Nat : a = written.sent
      BY <3>1
    <3>d. PICK d \in [Cells -> Nat] : d = data
      BY <1>0 DEF TypeOK
    <3>s. PICK s \in Seq(Nat) : s = out
      BY <1>0
    <3>3. out' = s \o Part(d, a, n) /\ a + n <= MaxLength
      BY <2>3, <3>2, <3>a, <3>d, <3>s DEF Part
    <3>4. Len(out') = Len(s) + n
      BY <3>2, <3>3, AppendPart
    <3>5. QED
      BY <1>0, <3>2, <3>4, <3>s
  <2>4. Len(out') \in Nat /\ Len(out') >= Len(out)
    <3>1. CASE out' = out
      BY <1>0, <3>1
    <3>2. CASE \E n \in 1..Least(Free, written.of - written.sent) :
                 out' = out \o [i \in 1..n |-> data[written.sent + i]]
      BY <2>3, <3>2
    <3>3. QED
      BY <1>5, <3>1, <3>2 DEF WriteSome
  <2>5. QED
    BY <1>0, <2>1, <2>4
<1>6. QED
  BY <1>2, <1>3, <1>4, <1>5 DEF Next

\* Every step of the connection is a step of the echo channel.
LEMMA ChannelStep ==
  ASSUME AsioInv, AsioInv', [Next]_vars
  PROVE  [Channel!Next]_(Channel!vars)
<1>1. /\ rcvd' \in Nat /\ rcvd' >= rcvd
      /\ Len(out) \in Nat /\ Len(out') \in Nat /\ Len(out') >= Len(out)
      /\ object' = "deleted" => out' = out
      /\ object = "deleted" => UNCHANGED <<object, rcvd, out>>
  BY StreamMoves
<1>2. Len(out') <= rcvd' /\ out' = Channel!Stream(Len(out'))
  <2>1. /\ out' \in Seq(Nat) /\ \A i \in 1..Len(out') : out'[i] = i
        /\ Len(out') <= rcvd'
    BY DEF AsioInv, TypeOK, SocketType, EchoIsPrefix
  <2>2. PICK s \in Seq(Nat) : s = out'
    BY <2>1
  <2>3. QED
    BY <2>1, <2>2, ReplyIsStream
<1>3. CASE object = "deleted"
  BY <1>1, <1>3 DEF Channel!vars
<1>4. CASE object # "deleted" /\ object' = "deleted"
  BY <1>1, <1>4 DEF Channel!Next, Channel!Close
<1>5. CASE object # "deleted" /\ object' # "deleted"
  <2>1. Len(out') \in Len(out)..rcvd'
    BY <1>1, <1>2
  <2>2. QED
    BY <1>1, <1>2, <1>5, <2>1 DEF Channel!Next, Channel!Echo
<1>6. QED
  BY <1>3, <1>4, <1>5

\* server.cc implements the echo channel for every max_length, send buffer and
\* peer, in whatever parts async_write sends a reply.
THEOREM ServerImplementsChannel == Spec => ImplementsEchoChannel
<1>1. Init => Channel!Init
  BY DEF Init, SocketInit, Channel!Init
<1>2. AsioInv /\ AsioInv' /\ [Next]_vars => [Channel!Next]_(Channel!vars)
  BY ChannelStep
<1>3. QED
  BY AsioInit, AsioStep, <1>1, <1>2, PTL DEF Spec, ImplementsEchoChannel, Channel!Spec


-----------------------------------------------------------------------------
(* The Java server.  StrandedOnlyBySpin says nothing of the wakeup, and    *)
(* holds only because a wakeup that no selection has taken is still there  *)
(* when the worker reaches select; the echo needs what the buffer holds.   *)

\* A channel waits in the queue before it is registered, a key is selected only
\* between a selection and its processing, and a wakeup that was not eaten stays
\* until the worker is on its way to the queue.
WorkerIsRight ==
  /\ requests \/ caller = "out" => state = "accepted"
  /\ caller = "out" => ~requests
  /\ selected => pc = "keys" /\ state = "open"
  /\ pc = "spin" => counter # 0
  /\ requests /\ caller = "done" /\ ~eaten => wakeup \/ pc \in {"keys", "queue"}

\* The buffer has the bytes received and not yet sent back, and a channel reads
\* only when it has none.
BufferIsOwed ==
  /\ EchoIsPrefix /\ Len(out) <= rcvd
  /\ state # "closed" =>
       /\ rcvd = Len(out) + Len(buffer)
       /\ \A i \in 1..Len(buffer) : buffer[i] = Len(out) + i
  /\ buffer = <<>> <=> interest = "read" \/ state = "closed"
  /\ state = "accepted" => interest = "read"

JavaInv == JavaTypeOK /\ WorkerIsRight /\ BufferIsOwed

First(b, k)   == SubSeq(b, 1, k)
Remaining(b, k)  == SubSeq(b, k + 1, Len(b))
Follows(b, m) == \A i \in 1..Len(b) : b[i] = m + i

\* The first k bytes of the buffer go to the reply; the others follow on.
LEMMA WrittenPart ==
  ASSUME NEW s \in Seq(Nat), NEW b \in Seq(Nat), NEW k \in Nat, 1 <= k, k <= Len(b),
         Follows(s, 0), Follows(b, Len(s))
  PROVE  /\ s \o First(b, k) \in Seq(Nat) /\ Len(s \o First(b, k)) = Len(s) + k
         /\ Follows(s \o First(b, k), 0)
         /\ Remaining(b, k) \in Seq(Nat) /\ Len(Remaining(b, k)) = Len(b) - k
         /\ Follows(Remaining(b, k), Len(s) + k)
<1> DEFINE p == SubSeq(b, 1, k)
           q == SubSeq(b, k + 1, Len(b))
<1>1. /\ Len(s) \in Nat /\ Len(b) \in Nat /\ \A i \in 1..Len(b) : b[i] \in Nat
      /\ \A i \in 1..Len(b) : b[i] = Len(s) + i
  BY LenProperties DEF Follows
<1>2. p \in Seq(Nat) /\ Len(p) = k /\ \A i \in 1..k : p[i] = Len(s) + i
  <2>1. \A i \in 1..k : b[i] \in Nat
    BY <1>1
  <2>2. /\ p \in Seq(Nat) /\ Len(p) = IF 1 <= k THEN k - 1 + 1 ELSE 0
        /\ \A i \in 1..(k - 1 + 1) : p[i] = b[1 + i - 1]
    BY <1>1, <2>1, SubSeqProperties
  <2> HIDE DEF p
  <2>3. \A i \in 1..k : i \in 1..(k - 1 + 1) /\ 1 + i - 1 = i /\ i \in 1..Len(b)
    BY <1>1
  <2>4. Len(p) = k
    BY <2>2
  <2>5. \A i \in 1..k : p[i] = b[i]
    BY <2>2, <2>3
  <2>6. ASSUME NEW i \in 1..k
        PROVE  p[i] = Len(s) + i
    <3>1. p[i] = b[i] /\ i \in 1..Len(b)
      BY <2>3, <2>5
    <3>2. b[i] = Len(s) + i
      BY <1>1, <3>1
    <3>3. QED
      BY <3>1, <3>2
  <2>7. QED
    BY <2>2, <2>4, <2>6
<1>3. q \in Seq(Nat) /\ Len(q) = Len(b) - k /\ \A i \in 1..(Len(b) - k) : q[i] = b[k + i]
  <2>1. \A i \in (k + 1)..Len(b) : b[i] \in Nat
    BY <1>1
  <2>2. /\ q \in Seq(Nat) /\ Len(q) = IF k + 1 <= Len(b) THEN Len(b) - (k + 1) + 1 ELSE 0
        /\ \A i \in 1..(Len(b) - (k + 1) + 1) : q[i] = b[k + 1 + i - 1]
    BY <1>1, <2>1, SubSeqProperties
  <2> HIDE DEF q
  <2>3. Len(q) = Len(b) - k
    BY <1>1, <2>2
  <2>4. \A i \in 1..(Len(b) - k) : i \in 1..(Len(b) - (k + 1) + 1) /\ k + 1 + i - 1 = k + i
    BY <1>1
  <2>5. QED
    BY <2>2, <2>3, <2>4
<1> HIDE DEF p, q
<1>4. \A i \in 1..(Len(b) - k) : q[i] = Len(s) + k + i
  <2> SUFFICES ASSUME NEW i \in 1..(Len(b) - k)
               PROVE  q[i] = Len(s) + k + i
    OBVIOUS
  <2>1. PICK j \in Nat : j = k + i
    BY <1>1
  <2>2. j \in 1..Len(b) /\ Len(s) + j = Len(s) + k + i
    BY <1>1, <2>1
  <2>3. b[j] = Len(s) + j /\ q[i] = b[j]
    BY <1>1, <1>3, <2>1, <2>2
  <2>4. QED
    BY <2>2, <2>3
<1>5. /\ s \o p \in Seq(Nat) /\ Len(s \o p) = Len(s) + k
      /\ \A i \in 1..(Len(s) + k) : (s \o p)[i] = IF i <= Len(s) THEN s[i] ELSE p[i - Len(s)]
  BY <1>1, <1>2, ConcatProperties
<1>6. ASSUME NEW i \in 1..(Len(s) + k)
      PROVE  (s \o p)[i] = 0 + i
  <2>1. CASE i <= Len(s)
    <3>1. s[i] = 0 + i
      BY <1>1, <2>1 DEF Follows
    <3>2. QED
      BY <1>5, <2>1, <3>1
  <2>2. CASE ~(i <= Len(s))
    <3>1. i - Len(s) \in 1..k /\ Len(s) + (i - Len(s)) = i
      BY <1>1, <2>2
    <3>2. p[i - Len(s)] = 0 + i
      BY <1>2, <3>1
    <3>3. QED
      BY <1>5, <2>2, <3>2
  <2>3. QED
    BY <2>1, <2>2
<1>7. Follows(s \o p, 0) /\ Follows(q, Len(s) + k)
  BY <1>3, <1>4, <1>5, <1>6 DEF Follows
<1>8. QED
  BY <1>3, <1>5, <1>7 DEF p, q, First, Remaining

\* The invariant holds initially.
LEMMA JavaStarts ==
  ASSUME JavaInit
  PROVE  JavaInv
<1>1. out \in Seq(Nat) /\ buffer \in Seq(Nat) /\ Len(out) = 0 /\ Len(buffer) = 0 /\ rcvd = 0
  BY EmptySeq DEF JavaInit, SocketInit
<1>2. SocketType
  <2>1. fin \in BOOLEAN /\ rst \in BOOLEAN
    BY DEF JavaInit, SocketInit
  <2>2. QED
    BY <1>1, <2>1, SocketAssumption DEF JavaInit, SocketInit, SocketType
<1>3. counter \in 0..Spins /\ counter # 0 /\ Len(buffer) <= BufSize
  BY <1>1, JavaAssumption DEF JavaInit
<1>4. {requests, wakeup, other, selected, eaten} \subseteq BOOLEAN
  BY DEF JavaInit
<1>5. JavaTypeOK
  BY <1>1, <1>2, <1>3, <1>4 DEF JavaInit, JavaTypeOK
<1>6. WorkerIsRight
  BY <1>3 DEF JavaInit, WorkerIsRight
<1>7. BufferIsOwed
  BY <1>1 DEF JavaInit, BufferIsOwed, EchoIsPrefix
<1>8. QED
  BY <1>5, <1>6, <1>7 DEF JavaInv

\* A step that leaves the channel and what it has moved alone keeps what the
\* buffer holds.
LEMMA ChannelStays ==
  ASSUME BufferIsOwed, UNCHANGED <<state, interest, buffer, rcvd, out>>
  PROVE  BufferIsOwed'
BY DEF BufferIsOwed, EchoIsPrefix

\* The types as separate facts.
LEMMA JavaTypes ==
  ASSUME JavaTypeOK
  PROVE  /\ caller \in {"out", "in", "done"} /\ stopper \in {"no", "joining", "returned"}
         /\ pc \in {"spin", "select", "keys", "queue", "ended"} /\ counter \in 0..Spins
         /\ requests \in BOOLEAN /\ wakeup \in BOOLEAN /\ other \in BOOLEAN
         /\ selected \in BOOLEAN /\ eaten \in BOOLEAN
         /\ state \in {"accepted", "open", "closed"} /\ interest \in {"read", "write"}
         /\ buffer \in Seq(Nat) /\ Len(buffer) <= BufSize
         /\ SocketType
BY DEF JavaTypeOK

\* The callers disturb neither the worker nor the channel.
LEMMA CallerStep ==
  ASSUME JavaInv, register \/ stop
  PROVE  JavaInv'
<1>1. JavaTypeOK /\ WorkerIsRight /\ BufferIsOwed
  BY DEF JavaInv
<1>2. UNCHANGED <<state, interest, buffer, rcvd, out, arrived, fin, rst, drained,
                  pc, counter, other, selected, eaten>>
  BY DEF register, stop, channel, socket, peer, selector
<1>3. BufferIsOwed'
  BY <1>1, <1>2, ChannelStays
<1>4. SocketType'
  BY <1>1, <1>2 DEF JavaTypeOK, SocketType
<1>5. CASE register
  <2>1. requests' \in BOOLEAN /\ wakeup' \in BOOLEAN
    BY <1>1, <1>5, JavaTypes DEF register
  <2>2. caller' \in {"out", "in", "done"} /\ stopper' = stopper
    BY <1>5 DEF register
  <2>3. JavaTypeOK'
    BY <1>1, <1>2, <1>4, <2>1, <2>2 DEF JavaTypeOK
  <2>4. WorkerIsRight'
    BY <1>1, <1>2, <1>5 DEF register, WorkerIsRight
  <2>5. QED
    BY <1>3, <2>3, <2>4 DEF JavaInv
<1>6. CASE stop
  <2>1. stopper' \in {"no", "joining", "returned"} /\ UNCHANGED <<caller, requests, wakeup>>
    BY <1>6 DEF stop, selector
  <2>2. JavaTypeOK'
    BY <1>1, <1>2, <1>4, <2>1 DEF JavaTypeOK
  <2>3. WorkerIsRight'
    BY <1>1, <1>2, <2>1 DEF WorkerIsRight
  <2>4. QED
    BY <1>3, <2>2, <2>3 DEF JavaInv
<1>7. QED
  BY <1>5, <1>6

\* The selections, failed ones too.
LEMMA SelectStep ==
  ASSUME JavaInv, selectNow \/ select \/ SelectFails
  PROVE  JavaInv'
<1>1. JavaTypeOK /\ WorkerIsRight /\ BufferIsOwed
  BY DEF JavaInv
<1>2. UNCHANGED <<state, interest, buffer, rcvd, out, arrived, fin, rst, drained,
                  caller, requests, stopper>>
  BY DEF selectNow, select, SelectFails, channel, socket, peer
<1>3. BufferIsOwed'
  BY <1>1, <1>2, ChannelStays
<1>4. SocketType'
  BY <1>1, <1>2 DEF JavaTypeOK, SocketType
<1>5. CASE selectNow
  <2>1. /\ selected' = Ready /\ wakeup' = FALSE /\ other' = FALSE
        /\ eaten' = (eaten \/ (wakeup /\ requests /\ caller = "done"))
        /\ counter' = counter - 1 /\ pc = "spin"
        /\ pc' = IF Ready \/ other THEN "keys" ELSE IF counter' > 0 THEN "spin" ELSE "select"
    BY <1>5 DEF selectNow, Selection
  <2>2. selected' \in BOOLEAN /\ eaten' \in BOOLEAN
    BY <1>1, <2>1, JavaTypes DEF Ready
  <2>3. selected' => state = "open" /\ pc' = "keys"
    <3>1. Ready => state = "open"
      BY DEF Ready
    <3>2. ASSUME Ready PROVE pc' = "keys"
      BY <2>1, <3>2
    <3>3. selected' => Ready
      BY <2>1
    <3>4. QED
      BY <3>1, <3>2, <3>3
  <2>4. pc' \in {"spin", "select", "keys"} /\ (pc' = "spin" => counter' > 0)
    BY <2>1
  <2>5. counter' \in 0..Spins /\ (counter' > 0 => counter' # 0)
    BY <1>1, <2>1, JavaTypes, JavaAssumption DEF WorkerIsRight
  <2>6. JavaTypeOK'
    BY <1>1, <1>2, <1>4, <2>1, <2>2, <2>4, <2>5 DEF JavaTypeOK
  <2>7. requests /\ caller = "done" => eaten'
    BY <1>1, <2>1 DEF WorkerIsRight
  <2>8. WorkerIsRight'
    BY <1>1, <1>2, <2>3, <2>4, <2>5, <2>7 DEF WorkerIsRight
  <2>9. QED
    BY <1>3, <2>6, <2>8 DEF JavaInv
<1>6. CASE select
  <2>1. /\ selected' = Ready /\ wakeup' = FALSE /\ other' = FALSE
        /\ pc' = "keys" /\ UNCHANGED <<counter, eaten>>
    BY <1>6 DEF select, Selection
  <2>2. selected' \in BOOLEAN /\ (selected' => state = "open")
    BY <2>1 DEF Ready
  <2>3. JavaTypeOK'
    BY <1>1, <1>2, <1>4, <2>1, <2>2 DEF JavaTypeOK
  <2>4. WorkerIsRight'
    BY <1>1, <1>2, <2>1, <2>2 DEF WorkerIsRight
  <2>5. QED
    BY <1>3, <2>3, <2>4 DEF JavaInv
<1>7. CASE SelectFails
  <2>1. pc' = "keys" /\ UNCHANGED <<counter, eaten, wakeup, other, selected>>
    BY <1>7 DEF SelectFails, selector
  <2>2. JavaTypeOK'
    BY <1>1, <1>2, <1>4, <2>1 DEF JavaTypeOK
  <2>3. WorkerIsRight'
    BY <1>1, <1>2, <2>1 DEF WorkerIsRight
  <2>4. QED
    BY <1>3, <2>2, <2>3 DEF JavaInv
<1>8. QED
  BY <1>5, <1>6, <1>7

\* A key that is ready is processed: bytes are read into the empty buffer, the
\* next of those in it are written, or the channel is closed.
LEMMA ProcessStep ==
  ASSUME JavaInv, ProcessKeys
  PROVE  JavaInv'
<1>1. JavaTypeOK /\ WorkerIsRight /\ BufferIsOwed
  BY DEF JavaInv
<1>2. /\ pc = "keys" /\ pc' = "queue" /\ selected' = FALSE
      /\ UNCHANGED <<caller, requests, stopper, counter, wakeup, other, eaten,
                     arrived, fin, rst, drained>>
  BY DEF ProcessKeys, peer
<1>3. ASSUME state' \in {"accepted", "open", "closed"}, interest' \in {"read", "write"},
             buffer' \in Seq(Nat), Len(buffer') <= BufSize, SocketType',
             state' = state \/ state = "open", BufferIsOwed'
      PROVE  JavaInv'
  <2>1. JavaTypeOK'
    BY <1>1, <1>2, <1>3 DEF JavaTypeOK
  <2>2. WorkerIsRight'
    BY <1>1, <1>2, <1>3 DEF WorkerIsRight
  <2>3. QED
    BY <1>3, <2>1, <2>2 DEF JavaInv
<1>4. /\ out \in Seq(Nat) /\ Len(out) \in Nat /\ rcvd \in Nat /\ arrived \in Nat /\ rcvd <= arrived
      /\ buffer \in Seq(Nat) /\ Len(buffer) \in Nat /\ Len(buffer) <= BufSize /\ SocketType
      /\ drained \in Nat /\ drained <= Len(out) /\ BufSize \in Nat \ {0} /\ SndCap \in Nat
      /\ state \in {"accepted", "open", "closed"} /\ interest \in {"read", "write"}
  <2>1. SocketType /\ out \in Seq(Nat) /\ buffer \in Seq(Nat) /\ Len(buffer) <= BufSize
    BY <1>1 DEF JavaTypeOK, SocketType
  <2>2. Len(out) \in Nat /\ Len(buffer) \in Nat
    BY <2>1, LenProperties
  <2>3. arrived \in 0..MaxBytes /\ rcvd \in 0..arrived /\ drained \in 0..Len(out) /\ MaxBytes \in Nat
    BY <2>1, SocketAssumption DEF SocketType
  <2>4. rcvd \in Nat /\ arrived \in Nat /\ rcvd <= arrived /\ drained \in Nat /\ drained <= Len(out)
    BY <2>2, <2>3
  <2>5. QED
    BY <1>1, <2>1, <2>2, <2>4, SocketAssumption, JavaTypes, JavaAssumption
<1>5. CASE ~selected
  <2>1. UNCHANGED <<state, interest, buffer, rcvd, out>>
    BY <1>5 DEF ProcessKeys, channel
  <2>2. BufferIsOwed'
    BY <1>1, <2>1, ChannelStays
  <2>3. SocketType'
    BY <1>2, <1>4, <2>1 DEF SocketType
  <2>4. QED
    BY <1>3, <1>4, <2>1, <2>2, <2>3
<1>6. CASE selected /\ Close
  <2>1. state = "open"
    BY <1>1, <1>6 DEF WorkerIsRight
  <2>2. state' = "closed" /\ buffer' = <<>> /\ UNCHANGED <<interest, rcvd, out>>
    BY <1>6 DEF Close
  <2>3. buffer' \in Seq(Nat) /\ Len(buffer') <= BufSize
    <3>1. <<>> \in Seq(Nat) /\ Len(<<>>) = 0
      BY EmptySeq
    <3>2. QED
      BY <1>4, <2>2, <3>1
  <2>4. BufferIsOwed'
    BY <1>1, <2>2 DEF BufferIsOwed, EchoIsPrefix
  <2>5. SocketType'
    BY <1>2, <1>4, <2>2 DEF SocketType
  <2>6. QED
    BY <1>3, <1>4, <2>1, <2>2, <2>3, <2>4, <2>5
<1>7. CASE /\ selected /\ interest = "read" /\ Available > 0
           /\ buffer' = [i \in 1..Least(Available, BufSize) |-> rcvd + i]
           /\ rcvd' = rcvd + Least(Available, BufSize)
           /\ interest' = "write" /\ UNCHANGED <<state, out>>
  <2>1. PICK n \in Nat : n = Least(Available, BufSize) /\ 0 < n /\ n <= BufSize /\ rcvd + n <= arrived
    <3>1. PICK a \in Nat, z \in Nat : a = Available /\ z = BufSize
      BY <1>4 DEF Available
    <3>2. Least(a, z) \in Nat /\ 0 < Least(a, z) /\ Least(a, z) <= z /\ Least(a, z) <= a
      BY <1>4, <1>7, <3>1 DEF Least
    <3>3. rcvd + Least(a, z) <= arrived
      BY <1>4, <3>1, <3>2 DEF Available
    <3>4. QED
      BY <3>1, <3>2, <3>3
  <2>2. buffer' = [i \in 1..n |-> rcvd + i] /\ rcvd' = rcvd + n
    BY <1>7, <2>1
  <2>3. buffer' \in Seq(Nat) /\ Len(buffer') = n /\ \A i \in 1..n : buffer'[i] = rcvd + i
    <3>1. buffer' \in [1..n -> Nat]
      BY <1>4, <2>2
    <3>2. QED
      BY <2>2, <3>1, SeqDef
  <2>4. state = "open" /\ rcvd = Len(out)
    <3>1. state = "open" /\ buffer = <<>> /\ rcvd = Len(out) + Len(buffer)
      BY <1>1, <1>7 DEF WorkerIsRight, BufferIsOwed
    <3>2. Len(buffer) = 0
      BY <3>1
    <3>3. QED
      BY <1>4, <3>1, <3>2
  <2>5. buffer' # <<>>
    <3>1. Len(<<>>) = 0
      OBVIOUS
    <3>2. QED
      BY <2>1, <2>3, <3>1
  <2>6. Len(out) <= rcvd' /\ rcvd' \in 0..arrived
    BY <1>4, <2>1, <2>2, <2>4
  <2>7. BufferIsOwed'
    BY <1>1, <1>7, <2>2, <2>3, <2>4, <2>5, <2>6 DEF BufferIsOwed, EchoIsPrefix
  <2>8. SocketType'
    BY <1>2, <1>4, <1>7, <2>6 DEF SocketType
  <2>9. Len(buffer') <= BufSize
    BY <2>1, <2>3
  <2>10. QED
    BY <1>3, <1>4, <1>7, <2>3, <2>7, <2>8, <2>9
<1>8. ASSUME selected, interest = "write", NEW k \in 1..Least(Len(buffer), Free),
             out' = out \o SubSeq(buffer, 1, k),
             buffer' = SubSeq(buffer, k + 1, Len(buffer)),
             interest' = IF buffer' = <<>> THEN "read" ELSE "write",
             UNCHANGED <<state, rcvd>>
      PROVE  JavaInv'
  <2>1. state = "open" /\ rcvd = Len(out) + Len(buffer) /\ EchoIsPrefix
        /\ \A i \in 1..Len(buffer) : buffer[i] = Len(out) + i
    BY <1>1, <1>8 DEF WorkerIsRight, BufferIsOwed
  <2>2. k \in Nat /\ 1 <= k /\ k <= Len(buffer)
    BY <1>4, <1>8 DEF Least, Free
  <2>3. PICK s \in Seq(Nat) : s = out
    BY <1>4
  <2>4. PICK b \in Seq(Nat) : b = buffer
    BY <1>4
  <2>5. Len(s) \in Nat /\ Len(b) \in Nat /\ k <= Len(b) /\ \A i \in 1..Len(b) : b[i] = Len(s) + i
    BY <1>4, <2>1, <2>2, <2>3, <2>4
  <2>6. out' = s \o First(b, k) /\ buffer' = Remaining(b, k)
    BY <1>8, <2>3, <2>4 DEF First, Remaining
  <2>7. /\ out' \in Seq(Nat) /\ Len(out') = Len(s) + k
        /\ \A i \in 1..(Len(s) + k) : out'[i] = i
        /\ buffer' \in Seq(Nat) /\ Len(buffer') = Len(b) - k
        /\ \A i \in 1..(Len(b) - k) : buffer'[i] = Len(s) + k + i
    <3>1. Follows(s, 0) /\ Follows(b, Len(s))
      BY <2>1, <2>3, <2>5 DEF EchoIsPrefix, Follows
    <3>2. /\ s \o First(b, k) \in Seq(Nat) /\ Len(s \o First(b, k)) = Len(s) + k
          /\ Follows(s \o First(b, k), 0)
          /\ Remaining(b, k) \in Seq(Nat) /\ Len(Remaining(b, k)) = Len(b) - k
          /\ Follows(Remaining(b, k), Len(s) + k)
      BY <2>2, <2>5, <3>1, WrittenPart
    <3>3. /\ out' \in Seq(Nat) /\ Len(out') = Len(s) + k /\ Follows(out', 0)
          /\ buffer' \in Seq(Nat) /\ Len(buffer') = Len(b) - k /\ Follows(buffer', Len(s) + k)
      BY <2>6, <3>2
    <3>4. QED
      BY <3>3 DEF Follows
  <2>8. PICK l \in Nat, m \in Nat, r \in Nat, d \in Nat, z \in Nat :
          /\ l = Len(s) /\ m = Len(b) /\ r = rcvd /\ d = drained /\ z = BufSize
          /\ r = l + m /\ d <= l /\ m <= z /\ k <= m
    BY <1>4, <2>1, <2>3, <2>4, <2>5
  <2>9. rcvd' = Len(out') + Len(buffer') /\ Len(out') <= rcvd' /\ drained \in 0..Len(out')
        /\ Len(buffer') <= BufSize
    <3>1. r = (l + k) + (m - k) /\ l + k <= r /\ d \in 0..(l + k) /\ m - k <= z
      BY <2>2, <2>8
    <3>2. Len(out') = l + k /\ Len(buffer') = m - k
      BY <2>7, <2>8
    <3>3. QED
      BY <1>8, <2>8, <3>1, <3>2
  <2>10. BufferIsOwed'
    <3>1. EchoIsPrefix'
      BY <2>7 DEF EchoIsPrefix
    <3>2. \A i \in 1..Len(buffer') : buffer'[i] = Len(out') + i
      BY <2>7
    <3>3. /\ buffer' = <<>> <=> interest' = "read" \/ state' = "closed"
          /\ state' # "accepted"
      BY <1>8, <2>1
    <3>4. QED
      BY <2>9, <3>1, <3>2, <3>3 DEF BufferIsOwed
  <2>11. SocketType'
    BY <1>2, <1>4, <1>8, <2>7, <2>9 DEF SocketType
  <2>12. interest' \in {"read", "write"}
    BY <1>8
  <2>13. QED
    BY <1>3, <1>4, <1>8, <2>7, <2>9, <2>10, <2>11, <2>12
<1>9. CASE selected
  <2>1. Read \/ Write
    BY <1>9 DEF ProcessKeys
  <2>2. CASE Read
    <3>1. \/ Close
          \/ /\ interest = "read" /\ Available > 0
             /\ buffer' = [i \in 1..Least(Available, BufSize) |-> rcvd + i]
             /\ rcvd' = rcvd + Least(Available, BufSize)
             /\ interest' = "write" /\ UNCHANGED <<state, out>>
      BY <2>2 DEF Read
    <3>2. QED
      BY <1>6, <1>7, <1>9, <3>1
  <2>3. CASE Write
    <3>1. CASE Close
      BY <1>6, <1>9, <3>1
    <3>2. CASE ~Close
      BY <1>8, <1>9, <2>3, <3>2 DEF Write, WriteThen
    <3>3. QED
      BY <3>1, <3>2
  <2>4. QED
    BY <2>1, <2>2, <2>3
<1>10. QED
  BY <1>1, <1>5, <1>9, JavaTypes

\* The queue is emptied, and the worker starts again when it is.
LEMMA QueueStep ==
  ASSUME JavaInv, TakeRequest \/ Again
  PROVE  JavaInv'
<1>1. JavaTypeOK /\ WorkerIsRight /\ BufferIsOwed
  BY DEF JavaInv
<1>2. UNCHANGED <<interest, buffer, rcvd, out, arrived, fin, rst, drained,
                  caller, stopper, wakeup, other, selected, eaten>>
  BY DEF TakeRequest, Again, channel, selector, socket, peer
<1>3. SocketType'
  BY <1>1, <1>2 DEF JavaTypeOK, SocketType
<1>4. CASE TakeRequest
  <2>1. /\ pc = "queue" /\ requests /\ requests' = FALSE /\ state' \in {"open", "closed"}
        /\ UNCHANGED <<pc, counter>>
    BY <1>4 DEF TakeRequest
  <2>2. state = "accepted" /\ interest = "read" /\ buffer = <<>>
    BY <1>1, <2>1 DEF WorkerIsRight, BufferIsOwed
  <2>3. BufferIsOwed'
    BY <1>1, <1>2, <2>1, <2>2 DEF BufferIsOwed, EchoIsPrefix
  <2>4. JavaTypeOK'
    BY <1>1, <1>2, <1>3, <2>1 DEF JavaTypeOK
  <2>5. ~selected /\ caller # "out"
    BY <1>1, <2>1, <2>2 DEF WorkerIsRight, JavaTypeOK
  <2>6. WorkerIsRight'
    BY <1>1, <1>2, <2>1, <2>5 DEF WorkerIsRight
  <2>7. QED
    BY <2>3, <2>4, <2>6 DEF JavaInv
<1>5. CASE Again
  <2>1. /\ pc = "queue" /\ ~requests /\ UNCHANGED <<requests, state>>
        /\ pc' = (IF isRunning THEN "spin" ELSE "ended") /\ counter' = Spins
    BY <1>5 DEF Again, channel
  <2>2. counter' \in 0..Spins /\ counter' # 0
    BY <2>1, JavaAssumption
  <2>3. pc' \in {"spin", "ended"}
    BY <2>1
  <2>4. JavaTypeOK'
    BY <1>1, <1>2, <1>3, <2>1, <2>2, <2>3 DEF JavaTypeOK
  <2>5. WorkerIsRight'
    BY <1>1, <1>2, <2>1, <2>2, <2>3 DEF WorkerIsRight
  <2>6. BufferIsOwed'
    BY <1>1, <1>2, <2>1, ChannelStays
  <2>7. QED
    BY <2>4, <2>5, <2>6 DEF JavaInv
<1>6. QED
  BY <1>4, <1>5

\* The other connections and the peer disturb neither the queue nor the buffer.
LEMMA OutsideStep ==
  ASSUME JavaInv, Others \/ JavaPeer \/ UNCHANGED JavaVars
  PROVE  JavaInv'
<1>1. JavaTypeOK /\ WorkerIsRight /\ BufferIsOwed
  BY DEF JavaInv
<1>2. UNCHANGED <<caller, requests, stopper, pc, counter, selected, state, interest, buffer, eaten,
                  rcvd, out>>
  BY DEF Others, JavaPeer, PeerSends, PeerCloses, ConnectionFails, PeerReads,
         JavaVars, scheduler, channel, selector, socket, peer
<1>3. BufferIsOwed'
  BY <1>1, <1>2, ChannelStays
<1>4. wakeup' \in BOOLEAN /\ other' \in BOOLEAN /\ (wakeup => wakeup')
  <2>1. wakeup \in BOOLEAN /\ other \in BOOLEAN
    BY <1>1, JavaTypes
  <2>2. CASE Others
    <3>1. \/ wakeup' = TRUE /\ other' = other
          \/ other' = TRUE /\ wakeup' = wakeup
      BY <2>2 DEF Others
    <3>2. CASE wakeup' = TRUE /\ other' = other
      BY <2>1, <3>2
    <3>3. CASE other' = TRUE /\ wakeup' = wakeup
      BY <2>1, <3>3
    <3>4. QED
      BY <3>1, <3>2, <3>3
  <2>3. CASE JavaPeer \/ UNCHANGED JavaVars
    BY <2>1, <2>3 DEF JavaPeer, JavaVars, scheduler, selector
  <2>4. QED
    BY <2>2, <2>3
<1>5. SocketType'
  <2>1. /\ SocketType /\ out \in Seq(Nat) /\ Len(out) \in Nat /\ MaxBytes \in Nat
        /\ arrived \in 0..MaxBytes /\ rcvd \in 0..arrived /\ drained \in 0..Len(out)
    BY <1>1, SocketAssumption, LenProperties DEF JavaTypeOK, SocketType
  <2>2. CASE PeerSends \/ PeerReads
    <3>1. arrived' \in 0..MaxBytes /\ rcvd' \in 0..arrived' /\ drained' \in 0..Len(out')
      BY <2>1, <2>2 DEF PeerSends, PeerReads
    <3>2. UNCHANGED <<fin, rst, out>>
      BY <2>2 DEF PeerSends, PeerReads
    <3>3. QED
      BY <2>1, <3>1, <3>2 DEF SocketType
  <2>3. CASE PeerCloses \/ ConnectionFails
    BY <2>1, <2>3 DEF PeerCloses, ConnectionFails, SocketType
  <2>4. CASE Others \/ UNCHANGED JavaVars
    BY <2>1, <2>4 DEF Others, JavaVars, socket, peer, SocketType
  <2>5. QED
    BY <2>2, <2>3, <2>4 DEF JavaPeer
<1>6. JavaTypeOK'
  BY <1>1, <1>2, <1>4, <1>5 DEF JavaTypeOK
<1>7. WorkerIsRight'
  BY <1>1, <1>2, <1>4 DEF WorkerIsRight
<1>8. QED
  BY <1>3, <1>6, <1>7 DEF JavaInv

\* Every step of the callers, the worker and its surroundings keeps the invariant.
LEMMA JavaStep == JavaInv /\ [JavaNext]_JavaVars => JavaInv'
<1> SUFFICES ASSUME JavaInv, [JavaNext]_JavaVars
             PROVE  JavaInv'
  OBVIOUS
<1>1. CASE register \/ stop
  BY <1>1, CallerStep
<1>2. CASE selectNow \/ select \/ SelectFails
  BY <1>2, SelectStep
<1>3. CASE ProcessKeys
  BY <1>3, ProcessStep
<1>4. CASE TakeRequest \/ Again
  BY <1>4, QueueStep
<1>5. CASE Others \/ JavaPeer \/ UNCHANGED JavaVars
  BY <1>5, OutsideStep
<1>6. QED
  BY <1>1, <1>2, <1>3, <1>4, <1>5 DEF JavaNext, Worker

\* IOScheduler of the Java server, for every buffer size and number of spins: a
\* registered channel is left in the queue of a worker that sleeps in select only
\* when a selectNow of the spin took its wakeup.
THEOREM RequestsAreStrandedBySpinOnly == JavaSpec => []StrandedOnlyBySpin
<1>1. JavaInv => StrandedOnlyBySpin
  BY DEF JavaInv, WorkerIsRight, StrandedOnlyBySpin, Asleep
<1>2. JavaInit => JavaInv
  BY JavaStarts
<1>3. JavaInv /\ [JavaNext]_JavaVars => JavaInv'
  BY JavaStep
<1>4. QED
  BY <1>1, <1>2, <1>3, PTL DEF JavaSpec

\* A worker that sleeps in select owes its open connection nothing it could do:
\* either all that has arrived has been sent back and the peer has neither closed
\* nor failed, or the send buffer is full of what the peer has not read.  In
\* particular no partial write and no change of the interest set leaves bytes to a
\* sleeping worker.
THEOREM SleepOwesNothing ==
  JavaSpec => [](Asleep /\ state = "open" =>
                   /\ ~rst
                   /\ \/ Len(out) = arrived /\ buffer = <<>> /\ ~fin
                      \/ interest = "write" /\ drained < Len(out))
<1> DEFINE OwesNothing ==
             Asleep /\ state = "open" =>
               /\ ~rst
               /\ \/ Len(out) = arrived /\ buffer = <<>> /\ ~fin
                  \/ interest = "write" /\ drained < Len(out)
<1>1. JavaInv => OwesNothing
  <2>1. SUFFICES ASSUME JavaInv, Asleep, state = "open"
                 PROVE  /\ ~rst
                        /\ \/ Len(out) = arrived /\ buffer = <<>> /\ ~fin
                           \/ interest = "write" /\ drained < Len(out)
    OBVIOUS
  <2>2. /\ ~Ready /\ BufferIsOwed /\ SocketType /\ interest \in {"read", "write"}
        /\ buffer \in Seq(Nat)
    BY <2>1, JavaTypes DEF JavaInv, Asleep
  <2>3. /\ arrived \in Nat /\ rcvd \in Nat /\ rcvd <= arrived /\ Len(out) \in Nat
        /\ drained \in Nat /\ drained <= Len(out)
    <3>1. Len(out) \in Nat
      BY <2>2, LenProperties DEF SocketType
    <3>2. QED
      BY <2>2, <3>1, SocketAssumption DEF SocketType
  <2>4. CASE interest = "read"
    <3>1. ~(Available > 0) /\ ~fin /\ ~rst
      BY <2>1, <2>2, <2>4 DEF Ready, Readable
    <3>2. buffer = <<>> /\ rcvd = Len(out) + Len(buffer)
      BY <2>1, <2>2, <2>4 DEF BufferIsOwed
    <3>3. Len(out) = rcvd
      BY <2>3, <3>2
    <3>4. rcvd = arrived
      BY <2>3, <3>1 DEF Available
    <3>5. QED
      BY <3>1, <3>2, <3>3, <3>4
  <2>5. CASE interest = "write"
    <3>1. ~(Free > 0) /\ ~rst
      BY <2>1, <2>2, <2>5 DEF Ready
    <3>2. drained < Len(out)
      BY <2>3, <3>1, SocketAssumption DEF Free
    <3>3. QED
      BY <2>5, <3>1, <3>2
  <2>6. QED
    BY <2>2, <2>4, <2>5
<1>2. JavaInit => JavaInv
  BY JavaStarts
<1>3. JavaInv /\ [JavaNext]_JavaVars => JavaInv'
  BY JavaStep
<1> HIDE DEF OwesNothing
<1>4. JavaSpec => []OwesNothing
  BY <1>1, <1>2, <1>3, PTL DEF JavaSpec
<1>5. QED
  BY <1>4 DEF OwesNothing

\* Only the worker receives and sends, and only on an open channel; a closed
\* channel stays closed.
LEMMA JavaMoves ==
  ASSUME JavaInv, JavaInv', [JavaNext]_JavaVars
  PROVE  /\ rcvd \in Nat /\ rcvd' \in Nat /\ rcvd' >= rcvd
         /\ Len(out) \in Nat /\ Len(out') \in Nat /\ Len(out') >= Len(out)
         /\ state' = "closed" => out' = out
         /\ state = "closed" => UNCHANGED <<state, rcvd, out>>
<1>0. /\ rcvd \in Nat /\ rcvd' \in Nat /\ Len(out) \in Nat /\ Len(out') \in Nat
      /\ WorkerIsRight /\ BufferIsOwed /\ BufferIsOwed' /\ buffer \in Seq(Nat) /\ Len(buffer) \in Nat
      /\ out \in Seq(Nat) /\ selected \in BOOLEAN
  <2>1. out \in Seq(Nat) /\ out' \in Seq(Nat) /\ buffer \in Seq(Nat)
    BY DEF JavaInv, JavaTypeOK, SocketType
  <2>2. Len(out) \in Nat /\ Len(out') \in Nat /\ Len(buffer) \in Nat
    BY <2>1, LenProperties
  <2>3. rcvd \in Nat /\ rcvd' \in Nat
    BY SocketAssumption DEF JavaInv, JavaTypeOK, SocketType
  <2>4. selected \in BOOLEAN
    BY JavaTypes DEF JavaInv
  <2>5. QED
    BY <2>1, <2>2, <2>3, <2>4 DEF JavaInv
<1>1. ASSUME UNCHANGED <<rcvd, out>>, state = "closed" => state' = "closed"
      PROVE  /\ rcvd' >= rcvd /\ Len(out') >= Len(out) /\ out' = out
             /\ state = "closed" => UNCHANGED <<state, rcvd, out>>
  BY <1>0, <1>1
<1>2. CASE \/ register \/ stop \/ selectNow \/ select \/ SelectFails \/ Again
           \/ Others \/ JavaPeer \/ UNCHANGED JavaVars
  <2>1. UNCHANGED <<rcvd, out, state>>
    BY <1>2 DEF register, stop, selectNow, select, SelectFails, Again, Others, JavaPeer,
                PeerSends, PeerCloses, ConnectionFails, PeerReads,
                JavaVars, scheduler, channel, socket, peer
  <2>2. QED
    BY <1>0, <1>1, <2>1
<1>3. CASE TakeRequest
  <2>1. UNCHANGED <<rcvd, out>> /\ state = "accepted"
    BY <1>0, <1>3 DEF TakeRequest, socket, WorkerIsRight
  <2>2. QED
    BY <1>0, <1>1, <2>1
<1>4. CASE ProcessKeys
  <2>1. CASE ~selected
    <3>1. UNCHANGED <<rcvd, out, state>>
      BY <1>4, <2>1 DEF ProcessKeys, channel
    <3>2. QED
      BY <1>0, <1>1, <3>1
  <2>2. CASE selected
    <3>1. state = "open"
      BY <1>0, <2>2 DEF WorkerIsRight
    <3>2. Read \/ Write
      BY <1>4, <2>2 DEF ProcessKeys
    <3>3. CASE Close
      <4>1. UNCHANGED <<rcvd, out>>
        BY <3>3 DEF Close
      <4>2. QED
        BY <1>0, <1>1, <3>1, <4>1
    <3>4. CASE Read /\ ~Close
      <4>1. state' = state /\ out' = out /\ rcvd = Len(out) + Len(buffer) /\ buffer = <<>>
        BY <1>0, <3>1, <3>4 DEF Read, BufferIsOwed
      <4>2. Len(buffer) = 0 /\ Len(out') <= rcvd'
        BY <1>0, <4>1 DEF BufferIsOwed
      <4>3. rcvd' >= rcvd
        BY <1>0, <4>1, <4>2
      <4>4. QED
        BY <1>0, <3>1, <4>1, <4>3
    <3>5. CASE Write /\ ~Close
      <4>1. /\ state' = state /\ rcvd' = rcvd
            /\ \E k \in 1..Least(Len(buffer), Free) : out' = out \o SubSeq(buffer, 1, k)
        BY <3>5 DEF Write, WriteThen
      <4>2. Len(out') >= Len(out)
        <5>1. PICK x : out' = out \o x /\ x \in Seq(Nat)
          <6>1. PICK k \in 1..Least(Len(buffer), Free) : out' = out \o SubSeq(buffer, 1, k)
            BY <4>1
          <6>2. k \in 1..Len(buffer)
            <7>1. drained \in Nat /\ SndCap \in Nat
              BY <1>0, SocketAssumption DEF JavaInv, JavaTypeOK, SocketType
            <7>2. QED
              BY <1>0, <6>1, <7>1 DEF Least, Free
          <6>3. \A i \in 1..k : buffer[i] \in Nat
            BY <1>0, <6>2, ElementOfSeq
          <6>4. SubSeq(buffer, 1, k) \in Seq(Nat)
            BY <1>0, <6>2, <6>3, SubSeqProperties
          <6>5. QED
            BY <6>1, <6>4
        <5>2. Len(x) \in Nat /\ Len(out') = Len(out) + Len(x)
          BY <1>0, <5>1, ConcatProperties, LenProperties
        <5>3. QED
          BY <1>0, <5>2
      <4>3. QED
        BY <1>0, <3>1, <4>1, <4>2
    <3>6. QED
      BY <3>2, <3>3, <3>4, <3>5
  <2>3. QED
    BY <2>1, <2>2
<1>5. QED
  BY <1>2, <1>3, <1>4 DEF JavaNext, Worker

\* Every step of the Java server is a step of the echo channel.
LEMMA JavaChannelStep ==
  ASSUME JavaInv, JavaInv', [JavaNext]_JavaVars
  PROVE  [JavaChannel!Next]_(JavaChannel!vars)
<1>1. /\ rcvd' \in Nat /\ rcvd' >= rcvd
      /\ Len(out) \in Nat /\ Len(out') \in Nat /\ Len(out') >= Len(out)
      /\ state' = "closed" => out' = out
      /\ state = "closed" => UNCHANGED <<state, rcvd, out>>
  BY JavaMoves
<1>2. Len(out') <= rcvd' /\ out' = JavaChannel!Stream(Len(out'))
  <2>1. /\ out' \in Seq(Nat) /\ \A i \in 1..Len(out') : out'[i] = i
        /\ Len(out') <= rcvd'
    BY DEF JavaInv, JavaTypeOK, SocketType, BufferIsOwed, EchoIsPrefix
  <2>2. PICK s \in Seq(Nat) : s = out'
    BY <2>1
  <2>3. s = Channel!Stream(Len(s))
    BY <2>1, <2>2, ReplyIsStream
  <2>4. QED
    BY <2>1, <2>2, <2>3 DEF Channel!Stream, JavaChannel!Stream
<1>3. CASE state = "closed"
  BY <1>1, <1>3 DEF JavaChannel!vars
<1>4. CASE state # "closed" /\ state' = "closed"
  BY <1>1, <1>4 DEF JavaChannel!Next, JavaChannel!Close
<1>5. CASE state # "closed" /\ state' # "closed"
  <2>1. Len(out') \in Len(out)..rcvd'
    BY <1>1, <1>2
  <2>2. QED
    BY <1>1, <1>2, <1>5, <2>1 DEF JavaChannel!Next, JavaChannel!Echo
<1>6. QED
  BY <1>3, <1>4, <1>5

\* The Java server implements the echo channel for every buffer size, number of
\* spins, send buffer and peer: a partial write never lets the next read
\* overwrite what is left, and a channel closed at registration sends nothing.
THEOREM JavaServerImplementsChannel == JavaSpec => JavaImplementsChannel
<1>1. JavaInit => JavaChannel!Init
  BY DEF JavaInit, SocketInit, JavaChannel!Init
<1>2. JavaInv /\ JavaInv' /\ [JavaNext]_JavaVars => [JavaChannel!Next]_(JavaChannel!vars)
  BY JavaChannelStep
<1>3. JavaInit => JavaInv
  BY JavaStarts
<1>4. JavaInv /\ [JavaNext]_JavaVars => JavaInv'
  BY JavaStep
<1>5. QED
  BY <1>1, <1>2, <1>3, <1>4, PTL DEF JavaSpec, JavaImplementsChannel, JavaChannel!Spec

=============================================================================
