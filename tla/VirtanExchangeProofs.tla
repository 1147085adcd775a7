------------------------ MODULE VirtanExchangeProofs ------------------------
(***************************************************************************)
(* Proofs about VirtanExchange for every message length, capacity of the   *)
(* path and number of messages, however the writes are split.              *)
(***************************************************************************)
EXTENDS VirtanExchange, SequenceTheorems, TLAPS

-----------------------------------------------------------------------------
(* Queues.                                                                 *)

\* What the first element and the others of a queue are.
LEMMA PopFirst ==
  ASSUME NEW S, NEW s \in Seq(S), s # <<>>
  PROVE  /\ Len(s) \in Nat /\ 1 <= Len(s)
         /\ Head(s) = s[1] /\ Head(s) \in S
         /\ Tail(s) \in Seq(S) /\ Len(Tail(s)) = Len(s) - 1
         /\ \A i \in 1..(Len(s) - 1) : Tail(s)[i] = s[i + 1]
<1>1. Len(s) \in Nat /\ Len(s) # 0
  BY LenProperties, EmptySeq
<1>2. /\ Head(s) = s[1] /\ Head(s) \in S
      /\ Tail(s) \in Seq(S) /\ Len(Tail(s)) = Len(s) - 1
      /\ \A i \in 1..Len(Tail(s)) : Tail(s)[i] = s[i + 1]
  BY HeadTailProperties
<1>3. 1 <= Len(s)
  BY <1>1
<1>4. QED
  BY <1>1, <1>2, <1>3

\* What a queue is after one more element.
LEMMA PushLast ==
  ASSUME NEW S, NEW s \in Seq(S), NEW x \in S
  PROVE  /\ Len(s) \in Nat /\ Append(s, x) \in Seq(S) /\ Append(s, x) # <<>>
         /\ Len(Append(s, x)) = Len(s) + 1
         /\ \A i \in 1..Len(s) : Append(s, x)[i] = s[i]
         /\ Append(s, x)[Len(s) + 1] = x
<1>1. Len(s) \in Nat
  BY LenProperties
<1>2. QED
  BY <1>1, AppendProperties

-----------------------------------------------------------------------------
(* How many bytes a queue of write operations has still to write.          *)

\* An operation that goes on from position x; 0 is one that has failed.
Left(x) == IF x = 0 THEN 0 ELSE MsgLen + 1 - x

\* n is the sum of what the operations of s have left: p has the partial sums.
Owes(s, n) ==
  \E p \in [0..Len(s) -> Nat] :
    /\ p[0] = 0 /\ p[Len(s)] = n
    /\ \A i \in 1..Len(s) : p[i] = p[i - 1] + Left(s[i])
    /\ \A i, j \in 0..Len(s) : i <= j => p[i] <= p[j]

Ops == 0..(MsgLen + 1)

\* What a write operation has left to send is a number of bytes.
LEMMA LeftType ==
  ASSUME NEW x \in Ops
  PROVE  Left(x) \in Nat
BY ExchangeAssumption DEF Left, Ops

\* An empty queue owes nothing.
LEMMA OwesNothing == Owes(<<>>, 0)
<1> DEFINE p == [i \in 0..0 |-> 0]
<1>1. Len(<<>>) = 0
  OBVIOUS
<1>2. p \in [0..0 -> Nat] /\ p[0] = 0
  OBVIOUS
<1>3. \A i, j \in 0..0 : i <= j => p[i] <= p[j]
  OBVIOUS
<1> HIDE DEF p
<1>4. QED
  BY <1>1, <1>2, <1>3 DEF Owes

\* One more operation adds what it has left.
LEMMA OwesMore ==
  ASSUME NEW s \in Seq(Ops), NEW n \in Nat, Owes(s, n), NEW x \in Ops
  PROVE  Owes(Append(s, x), n + Left(x))
<1>1. PICK p \in [0..Len(s) -> Nat] :
        /\ p[0] = 0 /\ p[Len(s)] = n
        /\ \A i \in 1..Len(s) : p[i] = p[i - 1] + Left(s[i])
        /\ \A i, j \in 0..Len(s) : i <= j => p[i] <= p[j]
  BY DEF Owes
<1>2. PICK t : t = Append(s, x)
  OBVIOUS
<1>3. /\ Len(s) \in Nat /\ Len(t) = Len(s) + 1
      /\ \A i \in 1..Len(s) : t[i] = s[i]
      /\ t[Len(s) + 1] = x
  BY <1>2, PushLast
<1>4. PICK m \in Nat : m = Len(s)
  BY <1>3
<1>5. PICK l \in Nat : l = Left(x)
  BY LeftType
<1> DEFINE q == [i \in 0..(m + 1) |-> IF i <= m THEN p[i] ELSE n + l]
<1>6. \A i \in 0..m : p[i] \in Nat /\ p[i] <= n
  BY <1>1, <1>4
<1>7. \A i \in 0..(m + 1) : (i <= m => q[i] = p[i]) /\ (i = m + 1 => q[i] = n + l)
  BY <1>4
<1>8. q \in [0..(m + 1) -> Nat]
  BY <1>6
<1> HIDE DEF q
<1>9. q[0] = 0 /\ q[m + 1] = n + l
  BY <1>1, <1>4, <1>7
<1>10. \A i \in 1..(m + 1) : q[i] = q[i - 1] + Left(t[i])
  <2>1. SUFFICES ASSUME NEW i \in 1..(m + 1)
                 PROVE  q[i] = q[i - 1] + Left(t[i])
    OBVIOUS
  <2>2. CASE i <= m
    BY <1>1, <1>3, <1>4, <1>7, <2>2
  <2>3. CASE i = m + 1
    <3>1. q[i] = n + l /\ q[i - 1] = p[m] /\ t[i] = x
      BY <1>3, <1>4, <1>7, <2>3
    <3>2. QED
      BY <1>1, <1>4, <1>5, <3>1
  <2>4. QED
    BY <2>2, <2>3
<1>11. \A i, j \in 0..(m + 1) : i <= j => q[i] <= q[j]
  <2>1. SUFFICES ASSUME NEW i \in 0..(m + 1), NEW j \in 0..(m + 1), i <= j
                 PROVE  q[i] <= q[j]
    OBVIOUS
  <2>2. CASE j <= m
    BY <1>1, <1>4, <1>7, <2>1, <2>2
  <2>3. CASE j = m + 1 /\ i <= m
    <3>1. q[j] = n + l /\ q[i] = p[i] /\ p[i] \in Nat /\ p[i] <= n
      BY <1>6, <1>7, <2>3
    <3>2. QED
      BY <3>1
  <2>4. CASE j = m + 1 /\ i = m + 1
    BY <1>7, <2>4
  <2>5. QED
    BY <2>1, <2>2, <2>3, <2>4
<1>12. Owes(t, n + l)
  BY <1>3, <1>4, <1>8, <1>9, <1>10, <1>11 DEF Owes
<1>13. QED
  BY <1>2, <1>5, <1>12

\* Without its first operation a queue owes that much less.
LEMMA OwesLess ==
  ASSUME NEW s \in Seq(Ops), NEW n \in Nat, Owes(s, n), s # <<>>
  PROVE  \E k \in Nat : n = Left(Head(s)) + k /\ Owes(Tail(s), k)
<1>1. PICK p \in [0..Len(s) -> Nat] :
        /\ p[0] = 0 /\ p[Len(s)] = n
        /\ \A i \in 1..Len(s) : p[i] = p[i - 1] + Left(s[i])
        /\ \A i, j \in 0..Len(s) : i <= j => p[i] <= p[j]
  BY DEF Owes
<1>2. PICK t : t = Tail(s)
  OBVIOUS
<1>3. /\ Len(s) \in Nat /\ 1 <= Len(s) /\ Head(s) = s[1] /\ Head(s) \in Ops
      /\ Len(t) = Len(s) - 1
      /\ \A i \in 1..(Len(s) - 1) : t[i] = s[i + 1]
  BY <1>2, PopFirst
<1>4. PICK m \in Nat : Len(s) = m + 1 /\ Len(t) = m
  BY <1>3
<1>5. PICK l \in Nat : l = Left(Head(s))
  BY <1>3, LeftType
<1>6. p[1] = l
  BY <1>1, <1>3, <1>4, <1>5
<1>7. \A i \in 0..(m + 1) : p[i] \in Nat /\ (1 <= i => l <= p[i])
  BY <1>1, <1>4, <1>6
<1> DEFINE q == [i \in 0..m |-> p[i + 1] - l]
<1>8. \A i \in 0..m : q[i] = p[i + 1] - l /\ q[i] \in Nat
  BY <1>7
<1>9. q \in [0..m -> Nat]
  BY <1>8
<1> HIDE DEF q
<1>10. q[0] = 0 /\ q[m] = n - l /\ n - l \in Nat
  <2>1. q[0] = p[0 + 1] - l /\ q[m] = p[m + 1] - l /\ q[m] \in Nat
    BY <1>8
  <2>2. q[0] = l - l /\ q[m] = n - l
    BY <1>1, <1>4, <1>6, <2>1
  <2>3. QED
    BY <2>1, <2>2
<1>11. \A i \in 1..m : q[i] = q[i - 1] + Left(t[i])
  <2>1. SUFFICES ASSUME NEW i \in 1..m
                 PROVE  q[i] = q[i - 1] + Left(t[i])
    OBVIOUS
  <2>2. t[i] = s[i + 1] /\ q[i] = p[i + 1] - l /\ q[i - 1] = p[i] - l
    BY <1>3, <1>4, <1>8
  <2>3. p[i + 1] = p[i] + Left(s[i + 1])
    BY <1>1, <1>4
  <2>4. Left(s[i + 1]) \in Nat /\ p[i] \in Nat
    <3>1. s[i + 1] \in Ops
      BY <1>4, LenProperties
    <3>2. Left(s[i + 1]) \in Nat
      BY <3>1, LeftType
    <3>3. i \in 0..(m + 1)
      OBVIOUS
    <3>4. QED
      BY <1>7, <3>2, <3>3
  <2>5. QED
    BY <2>2, <2>3, <2>4
<1>12. \A i, j \in 0..m : i <= j => q[i] <= q[j]
  <2>1. SUFFICES ASSUME NEW i \in 0..m, NEW j \in 0..m, i <= j
                 PROVE  q[i] <= q[j]
    OBVIOUS
  <2>2. p[i + 1] <= p[j + 1] /\ p[i + 1] \in Nat /\ p[j + 1] \in Nat
    BY <1>1, <1>4, <1>7, <2>1
  <2>3. QED
    BY <1>8, <2>2
<1>13. Owes(t, n - l)
  BY <1>4, <1>9, <1>10, <1>11, <1>12 DEF Owes
<1>14. n = l + (n - l)
  OBVIOUS
<1>15. QED
  BY <1>2, <1>5, <1>10, <1>13, <1>14

-----------------------------------------------------------------------------
(* The inductive invariant.                                                *)

\* While the connection is in order, tqueue has a timer for every message
\* without a reply, in the order of the messages.
TimersInOrder ==
  ~errored =>
    /\ Len(tqueue) = sent - msgs
    /\ \A i \in 1..Len(tqueue) : tqueue[i] = msgs + i

\* The bytes of n messages.
Messages(n) == MsgLen * n

\* The bytes under way, those read of the next reply and those still to be
\* written are bytes of messages without a reply.
BytesAreOwed ==
  ~errored =>
    \E w, r \in Nat :
      /\ Owes(wq, w) /\ Owes(ready, r)
      /\ Len(wire) + Len(read_buf) + w + r <= Messages(sent - msgs)

\* The position in send_buf of the byte that follows the one at i.
After(i) == IF i = MsgLen THEN 1 ELSE i + 1

\* As long as no write was short, every operation writes a whole message; the
\* bytes read and then those under way are the messages one after the other.
MessagesAreWhole ==
  ~split =>
    /\ \A i \in 1..Len(wq) : wq[i] = 1
    /\ \A i \in 1..Len(ready) : ready[i] \notin 1..MsgLen
    /\ \A i \in 1..Len(read_buf) : read_buf[i] = i
    /\ wire = <<>> => Len(read_buf) \in {0, MsgLen}
    /\ wire # <<>> => wire[1] = IF Len(read_buf) = MsgLen THEN 1 ELSE Len(read_buf) + 1
    /\ wire # <<>> => wire[Len(wire)] = MsgLen
    /\ \A i \in 1..(Len(wire) - 1) : wire[i + 1] = After(wire[i])

\* Before connect the connection has done nothing.
NothingBefore == ~started => sent = 0 /\ waits = 0 /\ ~reading /\ read_buf = <<>>

ExchangeInv ==
  /\ OneErrorPerConnection
  /\ ~aborted
  /\ NothingBefore
  /\ TimersInOrder /\ BytesAreOwed /\ MessagesAreWhole
  /\ MismatchNeedsShortWrite

-----------------------------------------------------------------------------
(* The steps.                                                              *)

\* The types as separate facts.
LEMMA Types ==
  ASSUME TypeOK
  PROVE  /\ started \in BOOLEAN /\ errored \in BOOLEAN /\ aborted \in BOOLEAN
         /\ split \in BOOLEAN /\ reading \in BOOLEAN /\ rst \in BOOLEAN
         /\ exchange_errors \in Nat /\ MsgLen \in Nat /\ 1 <= MsgLen /\ PathCap \in Nat
         /\ sent \in Nat /\ msgs \in Nat /\ msgs <= sent /\ sent <= MaxMsgs
         /\ Len(tqueue) \in Nat /\ Len(wq) \in Nat /\ Len(ready) \in Nat
         /\ Len(wire) \in Nat /\ Len(read_buf) \in Nat
         /\ wq \in Seq(Ops) /\ ready \in Seq(Ops)
<1>1. /\ started \in BOOLEAN /\ errored \in BOOLEAN /\ aborted \in BOOLEAN
      /\ split \in BOOLEAN /\ reading \in BOOLEAN /\ rst \in BOOLEAN
  BY DEF TypeOK
<1>2. sent \in Nat /\ sent <= MaxMsgs /\ exchange_errors \in Nat
  BY ExchangeAssumption DEF TypeOK
<1>3. msgs \in Nat /\ msgs <= sent
  BY <1>2 DEF TypeOK
<1>4. /\ Len(tqueue) \in Nat /\ Len(wq) \in Nat /\ Len(ready) \in Nat
      /\ Len(wire) \in Nat /\ Len(read_buf) \in Nat
  BY LenProperties DEF TypeOK
<1>5. MsgLen \in Nat /\ 1 <= MsgLen /\ PathCap \in Nat
  BY ExchangeAssumption
<1>6. ready \in Seq(Ops)
  BY DEF TypeOK, Ops
<1>7. wq \in Seq(Ops)
  <2>1. wq \in [1..Len(wq) -> 1..MsgLen]
    BY LenProperties DEF TypeOK
  <2>2. wq \in [1..Len(wq) -> Ops]
    BY <1>5, <2>1 DEF Ops
  <2>3. QED
    BY <1>4, <2>2, SeqDef
<1>8. QED
  BY <1>1, <1>2, <1>3, <1>4, <1>5, <1>6, <1>7

\* The bytes of one more, or one less, message.
LEMMA OneMessage ==
  ASSUME NEW n \in Int
  PROVE  /\ Messages(n) \in Int
         /\ Messages(n + 1) = Messages(n) + MsgLen
         /\ Messages(n - 1) = Messages(n) - MsgLen
         /\ n = 0 => Messages(n) = 0
<1>1. MsgLen \in Int
  BY ExchangeAssumption
<1>2. MsgLen * n \in Int
  BY <1>1
<1>3. MsgLen * (n + 1) = MsgLen * n + MsgLen
  BY <1>1
<1>4. MsgLen * (n - 1) = MsgLen * n - MsgLen
  BY <1>1
<1>5. MsgLen * 0 = 0
  BY <1>1
<1>6. QED
  BY <1>2, <1>3, <1>4, <1>5 DEF Messages

\* The invariant holds initially.
LEMMA ExchangeInit ==
  ASSUME Init
  PROVE  ExchangeInv
<1> USE DEF Init
<1>1. /\ tqueue \in Seq(1..MaxMsgs) /\ Len(tqueue) = 0
      /\ wq \in Seq(1..MsgLen) /\ Len(wq) = 0
      /\ ready \in Seq(0..(MsgLen + 1)) /\ Len(ready) = 0
      /\ wire \in Seq(1..MsgLen) /\ Len(wire) = 0
      /\ read_buf \in Seq(1..MsgLen) /\ Len(read_buf) = 0
  OBVIOUS
<1>2. TypeOK
  <2>1. {started, errored, aborted, split, reading, rst} \subseteq BOOLEAN
    OBVIOUS
  <2>2. /\ exchange_errors \in Nat /\ msgs \in 0..sent /\ sent \in 0..MaxMsgs /\ waits \in 0..1
        /\ Len(wire) <= PathCap /\ Len(read_buf) <= MsgLen
    BY <1>1, ExchangeAssumption
  <2>3. QED
    BY <1>1, <2>1, <2>2 DEF TypeOK
<1>3. BytesAreOwed
  <2>1. Messages(sent - msgs) = 0
    BY OneMessage
  <2>2. Len(wire) + Len(read_buf) + 0 + 0 <= Messages(sent - msgs)
    BY <1>1, <2>1
  <2>3. QED
    BY <2>2, OwesNothing DEF BytesAreOwed
<1>4. MessagesAreWhole
  BY <1>1 DEF MessagesAreWhole
<1>5. TimersInOrder
  BY <1>1 DEF TimersInOrder
<1>6. QED
  BY <1>2, <1>3, <1>4, <1>5
  DEF ExchangeInv, OneErrorPerConnection, NothingBefore, MismatchNeedsShortWrite

\* A message is sent: its timer and its write operation are queued.
LEMMA SendPreserves ==
  ASSUME ExchangeInv, SendMessage(0), sent < MaxMsgs, started' = TRUE,
         reading' \in BOOLEAN, read_buf' = read_buf,
         UNCHANGED <<errored, cause, count, ready, split, wire, rst>>
  PROVE  ExchangeInv'
<1> USE DEF ExchangeInv, OneErrorPerConnection, SendMessage, Rearm
<1>1. sent' = sent + 1 /\ sent' \in 0..MaxMsgs /\ msgs' \in 0..sent' /\ waits' \in 0..1
  BY Types, ExchangeAssumption DEF count
<1>2. aborted' = FALSE
  <2>1. ~(0 > 0)
    OBVIOUS
  <2>2. QED
    BY <2>1, Types
<1>3. sent + 1 \in 1..MaxMsgs /\ 1 \in 1..MsgLen /\ 1 \in Ops
  BY Types, ExchangeAssumption DEF Ops
<1>4. /\ tqueue' \in Seq(1..MaxMsgs) /\ Len(tqueue') = Len(tqueue) + 1
      /\ \A i \in 1..Len(tqueue) : tqueue'[i] = tqueue[i]
      /\ tqueue'[Len(tqueue) + 1] = sent + 1
  BY <1>3, PushLast DEF TypeOK
<1>5. /\ wq' \in Seq(1..MsgLen) /\ Len(wq') = Len(wq) + 1
      /\ \A i \in 1..Len(wq) : wq'[i] = wq[i]
      /\ wq'[Len(wq) + 1] = 1
  BY <1>3, PushLast DEF TypeOK
<1>6. TypeOK'
  <2>1. {started, errored, aborted, split, reading, rst}' \subseteq BOOLEAN
    BY <1>2, Types
  <2>2. QED
    BY <1>1, <1>4, <1>5, <2>1 DEF TypeOK, count
<1>7. TimersInOrder'
  <2>1. SUFFICES ASSUME ~errored
                 PROVE  /\ Len(tqueue') = sent' - msgs'
                        /\ \A i \in 1..Len(tqueue') : tqueue'[i] = msgs' + i
    BY DEF TimersInOrder
  <2>2. msgs' = msgs /\ Len(tqueue) = sent - msgs
        /\ \A i \in 1..Len(tqueue) : tqueue[i] = msgs + i
    BY <2>1 DEF TimersInOrder, count
  <2>3. Len(tqueue') = sent' - msgs'
    <3>1. PICK a \in Nat, b \in Nat : a = sent /\ b = msgs
      BY Types
    <3>2. (a - b) + 1 = (a + 1) - b
      OBVIOUS
    <3> HIDE DEF ExchangeInv, OneErrorPerConnection, SendMessage, Rearm
    <3>3. QED
      BY <1>1, <1>4, <2>2, <3>1, <3>2
  <2>4. ASSUME NEW i \in 1..Len(tqueue')
        PROVE  tqueue'[i] = msgs' + i
    <3>1. CASE i \in 1..Len(tqueue)
      BY <1>4, <2>2, <3>1
    <3>2. CASE i = Len(tqueue) + 1
      <4>1. PICK a \in Nat, b \in Nat : a = sent /\ b = msgs
        BY Types
      <4> HIDE DEF ExchangeInv, OneErrorPerConnection, SendMessage, Rearm
      <4>2. i = (a - b) + 1
        BY <2>2, <3>2, <4>1
      <4>3. b + ((a - b) + 1) = a + 1
        OBVIOUS
      <4>4. b + i = a + 1
        BY <4>2, <4>3
      <4>5. tqueue'[i] = a + 1
        BY <1>4, <3>2, <4>1
      <4>6. QED
        BY <2>2, <4>1, <4>4, <4>5
    <3>3. PICK l \in Nat : l = Len(tqueue)
      BY Types
    <3> HIDE DEF ExchangeInv, OneErrorPerConnection, SendMessage, Rearm
    <3>4. i \in 1..(l + 1)
      BY <1>4, <3>3
    <3>5. i \in 1..l \/ i = l + 1
      BY <3>4
    <3>6. QED
      BY <3>1, <3>2, <3>3, <3>5
  <2>5. QED
    BY <2>3, <2>4
<1>8. BytesAreOwed'
  <2>1. SUFFICES ASSUME ~errored
                 PROVE  \E w, r \in Nat :
                          /\ Owes(wq', w) /\ Owes(ready', r)
                          /\ Len(wire') + Len(read_buf') + w + r <= Messages(sent' - msgs')
    BY DEF BytesAreOwed
  <2>2. PICK w \in Nat, r \in Nat :
          /\ Owes(wq, w) /\ Owes(ready, r)
          /\ Len(wire) + Len(read_buf) + w + r <= Messages(sent - msgs)
    BY <2>1 DEF BytesAreOwed
  <2>3. Owes(wq', w + Left(1))
    BY <1>3, <2>2, OwesMore, Types
  <2>4. Left(1) = MsgLen
    BY Types DEF Left
  <2>5. PICK n \in Int : n = sent - msgs
    BY Types
  <2>6. sent' - msgs' = n + 1
    <3>1. msgs' = msgs /\ sent \in Int /\ msgs \in Int
      BY Types DEF count
    <3>2. sent' - msgs' = (sent - msgs) + 1
      BY <1>1, <3>1
    <3>3. QED
      BY <2>5, <3>2
  <2>7. Messages(sent' - msgs') = Messages(n) + MsgLen /\ Messages(n) \in Int
    BY <2>6, OneMessage
  <2>8. Len(wire) + Len(read_buf) + (w + MsgLen) + r <= Messages(n) + MsgLen
    <3>1. PICK a \in Nat, b \in Nat, c \in Int :
            a = Len(wire) /\ b = Len(read_buf) /\ c = Messages(n)
      BY <2>7, Types
    <3>2. a + b + w + r <= c
      BY <2>2, <2>5, <3>1
    <3>3. PICK k \in Nat : k = MsgLen
      BY Types
    <3>4. a + b + (w + k) + r <= c + k
      BY <3>2
    <3>5. QED
      BY <3>1, <3>3, <3>4
  <2>9. w + MsgLen \in Nat
    BY Types
  <2>10. QED
    BY <2>2, <2>3, <2>4, <2>7, <2>8, <2>9
<1>9. MessagesAreWhole'
  <2>1. ~split => \A i \in 1..Len(wq') : wq'[i] = 1
    <3>1. \A i \in 1..Len(wq') : i \in 1..Len(wq) \/ i = Len(wq) + 1
      BY <1>5, Types
    <3>2. QED
      BY <1>5, <3>1 DEF MessagesAreWhole
  <2>2. QED
    BY <2>1 DEF MessagesAreWhole
<1>10. QED
  BY <1>2, <1>6, <1>7, <1>8, <1>9 DEF NothingBefore, MismatchNeedsShortWrite, count

\* connect and send_staff.
LEMMA SendStep ==
  ASSUME ExchangeInv, connect \/ send_staff
  PROVE  ExchangeInv'
<1>1. TypeOK
  BY DEF ExchangeInv, OneErrorPerConnection
<1>2. CASE connect
  <2>1. sent < MaxMsgs /\ read_buf' = read_buf
    BY <1>2, ExchangeAssumption DEF connect, ExchangeInv, NothingBefore
  <2>2. QED
    BY <1>2, <2>1, SendPreserves DEF connect
<1>3. CASE send_staff /\ ~errored
  <2>1. waits - 1 = 0 /\ waits # 0
    BY <1>1, <1>3 DEF send_staff, TypeOK
  <2>2. SendMessage(0) /\ sent < MaxMsgs
    BY <1>3, <2>1 DEF send_staff
  <2>3. started = TRUE
    BY <1>1, <2>1, Types DEF ExchangeInv, NothingBefore
  <2>4. reading' \in BOOLEAN
    BY <1>1, <1>3, Types DEF send_staff, reply
  <2>5. QED
    BY <1>3, <2>2, <2>3, <2>4, SendPreserves DEF send_staff, reply
<1>4. CASE send_staff /\ errored
  <2>1. waits' \in 0..1 /\ waits # 0
    BY <1>1, <1>4 DEF send_staff, TypeOK
  <2>2. UNCHANGED <<started, errored, cause, count, aborted, sent, tqueue, wq, ready, split, reply, rst>>
    BY <1>4 DEF send_staff
  <2>3. TypeOK'
    BY <1>1, <2>1, <2>2 DEF TypeOK, count, reply
  <2>4. TimersInOrder' /\ BytesAreOwed'
    BY <1>4, <2>2 DEF TimersInOrder, BytesAreOwed
  <2>5. MessagesAreWhole'
    BY <2>2 DEF MessagesAreWhole, reply, ExchangeInv
  <2>6. QED
    BY <2>1, <2>2, <2>3, <2>4, <2>5
    DEF ExchangeInv, OneErrorPerConnection, NothingBefore, MismatchNeedsShortWrite, count, reply
<1>5. QED
  BY <1>2, <1>3, <1>4

\* A part of send_buf: consecutive positions.
LEMMA Chunk ==
  ASSUME NEW from \in 1..MsgLen, NEW k \in Nat \ {0}, from + k - 1 <= MsgLen
  PROVE  /\ SubSeq(send_buf, from, from + k - 1) \in Seq(1..MsgLen)
         /\ Len(SubSeq(send_buf, from, from + k - 1)) = k
         /\ \A i \in 1..k : SubSeq(send_buf, from, from + k - 1)[i] = from + i - 1
<1>1. MsgLen \in Nat
  BY ExchangeAssumption
<1>2. send_buf \in [1..MsgLen -> 1..MsgLen] /\ \A i \in 1..MsgLen : send_buf[i] = i
  BY DEF send_buf
<1>3. send_buf \in Seq(1..MsgLen) /\ Len(send_buf) = MsgLen
  BY <1>1, <1>2, SeqDef
<1>4. PICK to \in Int : to = from + k - 1
  BY <1>1
<1>5. from <= to /\ (to - from) + 1 = k /\ to <= MsgLen
  BY <1>1, <1>4
<1>6. \A i \in from..to : send_buf[i] \in 1..MsgLen
  BY <1>1, <1>2, <1>4, <1>5
<1>7. /\ SubSeq(send_buf, from, to) \in Seq(1..MsgLen)
      /\ Len(SubSeq(send_buf, from, to)) = (to - from) + 1
      /\ \A i \in 1..((to - from) + 1) : SubSeq(send_buf, from, to)[i] = send_buf[from + i - 1]
  <2>1. PICK b \in Seq(1..MsgLen) : b = send_buf
    BY <1>3
  <2>2. \A i \in from..to : b[i] \in 1..MsgLen
    BY <1>6, <2>1
  <2>3. /\ SubSeq(b, from, to) \in Seq(1..MsgLen)
        /\ Len(SubSeq(b, from, to)) = IF from <= to THEN (to - from) + 1 ELSE 0
        /\ \A i \in 1..((to - from) + 1) : SubSeq(b, from, to)[i] = b[from + i - 1]
    BY <2>2, SubSeqProperties
  <2>4. QED
    BY <1>5, <2>1, <2>3
<1>8. \A i \in 1..k : from + i - 1 \in 1..MsgLen
  BY <1>1, <1>4, <1>5
<1>9. QED
  BY <1>2, <1>4, <1>5, <1>7, <1>8

\* The wire after a write of k bytes from position from on.
Wrote(s, from, k) == s \o SubSeq(send_buf, from, from + k - 1)

\* A write appends k bytes of the message, each in its place.
LEMMA Written ==
  ASSUME NEW s \in Seq(1..MsgLen), NEW from \in 1..MsgLen, NEW k \in Nat \ {0},
         from + k - 1 <= MsgLen
  PROVE  /\ Wrote(s, from, k) \in Seq(1..MsgLen) /\ Wrote(s, from, k) # <<>>
         /\ Len(s) \in Nat /\ Len(Wrote(s, from, k)) = Len(s) + k
         /\ \A i \in 1..Len(s) : Wrote(s, from, k)[i] = s[i]
         /\ \A i \in 1..k : Wrote(s, from, k)[Len(s) + i] = from + i - 1
<1>1. PICK c, t : c = SubSeq(send_buf, from, from + k - 1) /\ t = Wrote(s, from, k)
  OBVIOUS
<1>2. c \in Seq(1..MsgLen) /\ Len(c) = k /\ \A i \in 1..k : c[i] = from + i - 1
  BY <1>1, Chunk
<1>3. /\ t \in Seq(1..MsgLen) /\ Len(s) \in Nat /\ Len(t) = Len(s) + Len(c)
      /\ \A i \in 1..(Len(s) + Len(c)) :
           t[i] = IF i <= Len(s) THEN s[i] ELSE c[i - Len(s)]
  <2>1. t = s \o c
    BY <1>1 DEF Wrote
  <2>2. QED
    BY <1>2, <2>1, ConcatProperties, LenProperties
<1>4. PICK m \in Nat : m = Len(s)
  BY <1>3
<1>5. \A i \in 1..m : i \in 1..(m + k) /\ i <= m
  OBVIOUS
<1>6. \A i \in 1..k : m + i \in 1..(m + k) /\ ~(m + i <= m) /\ (m + i) - m = i
  OBVIOUS
<1>7. Len(t) = m + k /\ m + k # 0
  BY <1>2, <1>3, <1>4
<1>8. t # <<>>
  BY <1>7
<1>9. \A i \in 1..m : t[i] = s[i]
  BY <1>2, <1>3, <1>4, <1>5
<1>10. \A i \in 1..k : t[m + i] = from + i - 1
  <2>1. SUFFICES ASSUME NEW i \in 1..k
                 PROVE  t[m + i] = from + i - 1
    OBVIOUS
  <2>2. m + i \in 1..(Len(s) + Len(c)) /\ ~(m + i <= Len(s))
    BY <1>2, <1>4, <1>6
  <2>3. t[m + i] = c[(m + i) - Len(s)]
    BY <1>3, <2>2
  <2>4. (m + i) - Len(s) = i
    BY <1>4, <1>6
  <2>5. QED
    BY <1>2, <2>3, <2>4
<1>11. QED
  BY <1>1, <1>3, <1>4, <1>7, <1>8, <1>9, <1>10

\* A whole message written after whole messages.
LEMMA WholeAfterWhole ==
  ASSUME NEW s \in Seq(1..MsgLen), NEW t \in Seq(1..MsgLen), NEW b \in 0..MsgLen,
         Len(t) = Len(s) + MsgLen,
         \A i \in 1..Len(s) : t[i] = s[i],
         \A i \in 1..MsgLen : t[Len(s) + i] = i,
         s = <<>> => b \in {0, MsgLen},
         s # <<>> => s[1] = IF b = MsgLen THEN 1 ELSE b + 1,
         s # <<>> => s[Len(s)] = MsgLen,
         \A i \in 1..(Len(s) - 1) : s[i + 1] = After(s[i])
  PROVE  /\ t[1] = IF b = MsgLen THEN 1 ELSE b + 1
         /\ t[Len(t)] = MsgLen
         /\ \A i \in 1..(Len(t) - 1) : t[i + 1] = After(t[i])
<1>1. PICK m \in Nat, l \in Nat : m = Len(s) /\ l = MsgLen
  BY ExchangeAssumption, LenProperties
<1>2. 1 <= l /\ (s = <<>> <=> m = 0)
  BY <1>1, ExchangeAssumption, EmptySeq
<1>3. t[1] = IF b = MsgLen THEN 1 ELSE b + 1
  <2>1. CASE m = 0
    <3>1. t[0 + 1] = 1 /\ b \in {0, l}
      BY <1>1, <1>2, <2>1
    <3>2. QED
      BY <1>1, <1>2, <3>1
  <2>2. CASE m # 0
    <3>1. 1 \in 1..m
      BY <2>2
    <3>2. QED
      BY <1>1, <1>2, <2>2, <3>1
  <2>3. QED
    BY <2>1, <2>2
<1>4. t[Len(t)] = MsgLen
  <2>1. l \in 1..l
    BY <1>2
  <2>2. QED
    BY <1>1, <2>1
<1>5. ASSUME NEW i \in 1..(Len(t) - 1)
      PROVE  t[i + 1] = After(t[i])
  <2>1. i \in 1..(m + l - 1)
    BY <1>1
  <2>2. CASE i < m
    <3>1. i \in 1..m /\ i + 1 \in 1..m /\ i \in 1..(m - 1)
      BY <2>1, <2>2
    <3>2. QED
      BY <1>1, <3>1
  <2>3. CASE i = m
    <3>1. m \in 1..m /\ m # 0
      BY <2>1, <2>3
    <3>2. t[i] = s[m] /\ s[m] = l
      BY <1>1, <1>2, <2>3, <3>1
    <3>3. t[i + 1] = 1
      BY <1>1, <1>2, <2>3
    <3>4. QED
      BY <1>1, <3>2, <3>3 DEF After
  <2>4. CASE i > m
    <3>1. PICK j \in 1..l : i = m + j /\ j + 1 \in 1..l
      <4>1. i - m \in 1..l /\ i = m + (i - m) /\ (i - m) + 1 \in 1..l
        BY <2>1, <2>4
      <4>2. QED
        BY <4>1
    <3>2. t[i] = j
      BY <1>1, <3>1
    <3>3. i + 1 = m + (j + 1)
      BY <3>1
    <3>4. t[i + 1] = j + 1
      BY <1>1, <3>1, <3>3
    <3>5. j # l
      BY <3>1
    <3>6. QED
      BY <1>1, <3>2, <3>4, <3>5 DEF After
  <2>5. QED
    BY <2>1, <2>2, <2>3, <2>4
<1>6. QED
  BY <1>3, <1>4, <1>5

\* External: a write_some operation fails, writes a part or writes the rest.
LEMMA WriteSomeStep ==
  ASSUME ExchangeInv, WriteSome
  PROVE  ExchangeInv'
<1> USE DEF ExchangeInv, OneErrorPerConnection
<1>1. UNCHANGED <<started, errored, cause, count, waits, aborted, sent, tqueue,
                  reading, read_buf, rst>>
      /\ wq # <<>> /\ wq' = Tail(wq)
  BY DEF WriteSome
<1>2. PICK from \in 1..MsgLen : from = Head(wq)
  BY <1>1, PopFirst DEF TypeOK
<1>3. /\ wq' \in Seq(1..MsgLen) /\ Len(wq') = Len(wq) - 1 /\ from = wq[1]
      /\ \A i \in 1..(Len(wq) - 1) : wq'[i] = wq[i + 1]
      /\ 1 <= Len(wq)
  BY <1>1, <1>2, PopFirst DEF TypeOK
<1>4. ~split => from = 1 /\ \A i \in 1..Len(wq') : wq'[i] = 1
  <2>1. \A i \in 1..(Len(wq) - 1) : i + 1 \in 1..Len(wq)
    BY Types
  <2>2. 1 \in 1..Len(wq)
    BY <1>3, Types
  <2>3. QED
    BY <1>3, <2>1, <2>2 DEF MessagesAreWhole
<1>5. TimersInOrder' /\ NothingBefore' /\ aborted' = FALSE
  BY <1>1, Types DEF TimersInOrder, NothingBefore, count
<1>6. ~errored => \E w, v, r \in Nat :
                    /\ Owes(wq, w) /\ Owes(ready, r) /\ Owes(wq', v) /\ w = Left(from) + v
                    /\ Len(wire) + Len(read_buf) + w + r <= Messages(sent - msgs)
  BY <1>1, <1>2, OwesLess, Types DEF BytesAreOwed
<1>7. Messages(sent - msgs) \in Int
  <2>1. sent - msgs \in Int
    BY Types
  <2>2. QED
    BY <2>1, OneMessage
<1>8. PICK l \in Nat, room \in Nat, len \in Nat, cap \in Nat :
         /\ l = MsgLen /\ len = Len(wire) /\ cap = PathCap /\ len <= cap
         /\ room = cap - len /\ Room = room
  <2>1. Len(wire) \in Nat /\ Len(wire) <= PathCap /\ PathCap \in Nat /\ MsgLen \in Nat
    BY Types DEF TypeOK
  <2>2. PathCap - Len(wire) \in Nat /\ Room = PathCap - Len(wire)
    BY <2>1 DEF Room
  <2>3. QED
    BY <2>1, <2>2
<1>9. from \in Nat /\ 1 <= from /\ from <= l
  BY <1>8
<1>10. CASE rst /\ ready' = Append(ready, 0) /\ UNCHANGED <<split, wire>>
  <2>1. 0 \in Ops /\ 0 \notin 1..MsgLen /\ Left(0) = 0 /\ Left(from) \in Nat
    BY Types DEF Ops, Left
  <2>2. /\ ready' \in Seq(0..(MsgLen + 1)) /\ Len(ready') = Len(ready) + 1
        /\ \A i \in 1..Len(ready) : ready'[i] = ready[i]
        /\ ready'[Len(ready) + 1] = 0
    BY <1>10, <2>1, PushLast, Types DEF Ops
  <2>3. TypeOK'
    BY <1>1, <1>3, <1>10, <2>2 DEF TypeOK, count
  <2>4. BytesAreOwed'
    <3>1. SUFFICES ASSUME ~errored
                   PROVE  \E w, r \in Nat :
                            /\ Owes(wq', w) /\ Owes(ready', r)
                            /\ Len(wire') + Len(read_buf') + w + r <= Messages(sent' - msgs')
      BY <1>1 DEF BytesAreOwed
    <3>2. PICK w \in Nat, v \in Nat, r \in Nat :
                    /\ Owes(wq, w) /\ Owes(ready, r) /\ Owes(wq', v) /\ w = Left(from) + v
                    /\ Len(wire) + Len(read_buf) + w + r <= Messages(sent - msgs)
      BY <1>6, <3>1
    <3>3. r + Left(0) = r
      BY <2>1
    <3>4. Owes(ready', r)
      BY <1>10, <2>1, <3>2, <3>3, OwesMore, Types
    <3>5. PICK a \in Nat, b \in Nat, c \in Int, rest \in Nat :
            a = Len(wire) /\ b = Len(read_buf) /\ c = Messages(sent - msgs) /\ rest = Left(from)
      BY <1>7, <2>1, Types
    <3>6. a + b + v + r <= c
      <4>1. a + b + w + r <= c /\ w = rest + v
        BY <3>2, <3>5
      <4>2. QED
        BY <4>1
    <3>7. Len(wire') + Len(read_buf') + v + r <= Messages(sent' - msgs')
      BY <1>1, <1>10, <3>5, <3>6 DEF count
    <3>8. QED
      BY <3>2, <3>4, <3>7
  <2>5. MessagesAreWhole'
    <3>1. \A i \in 1..Len(ready') : i \in 1..Len(ready) \/ i = Len(ready) + 1
      BY <2>2, Types
    <3>2. ~split => \A i \in 1..Len(ready') : ready'[i] \notin 1..MsgLen
      BY <2>1, <2>2, <3>1 DEF MessagesAreWhole
    <3>3. QED
      BY <1>1, <1>4, <1>10, <3>2 DEF MessagesAreWhole
  <2>6. QED
    BY <1>1, <1>5, <1>10, <2>3, <2>4, <2>5 DEF MismatchNeedsShortWrite, count
<1>11. CASE /\ ~rst /\ Least(MsgLen - from + 1, Room) > 0
           /\ LET k == Least(MsgLen - from + 1, Room)
              IN  /\ wire' = wire \o SubSeq(send_buf, from, from + k - 1)
                  /\ ready' = Append(ready, from + k)
                  /\ split' = (split \/ from + k <= MsgLen)
  <2>1. PICK k \in Int : k = Least(l - from + 1, room)
    <3>1. l - from + 1 \in Int /\ room \in Int
      BY <1>9
    <3>2. Least(l - from + 1, room) \in Int
      BY <3>1 DEF Least
    <3>3. QED
      BY <3>2
  <2>2. /\ k \in Nat \ {0} /\ k = Least(MsgLen - from + 1, Room)
        /\ from + k - 1 <= MsgLen /\ k <= room
    <3>1. k = Least(MsgLen - from + 1, Room) /\ k > 0
      BY <1>11, <1>8, <2>1
    <3>2. k <= l - from + 1 /\ k <= room
      BY <1>9, <2>1 DEF Least
    <3>3. QED
      BY <1>8, <1>9, <3>1, <3>2
  <2>3. /\ wire' = wire \o SubSeq(send_buf, from, from + k - 1)
        /\ ready' = Append(ready, from + k)
        /\ split' = (split \/ from + k <= MsgLen)
    BY <1>11, <2>2
  <2>4. wire \in Seq(1..MsgLen)
    BY DEF TypeOK
  <2>5. /\ wire' \in Seq(1..MsgLen) /\ wire' # <<>>
        /\ Len(wire') = Len(wire) + k
        /\ \A i \in 1..Len(wire) : wire'[i] = wire[i]
        /\ \A i \in 1..k : wire'[Len(wire) + i] = from + i - 1
    <3>1. PICK s, t : s = wire /\ t = wire'
      OBVIOUS
    <3>2. s \in Seq(1..MsgLen) /\ t = Wrote(s, from, k)
      BY <2>3, <2>4, <3>1 DEF Wrote
    <3>3. /\ t \in Seq(1..MsgLen) /\ t # <<>>
          /\ Len(t) = Len(s) + k
          /\ \A i \in 1..Len(s) : t[i] = s[i]
          /\ \A i \in 1..k : t[Len(s) + i] = from + i - 1
      <4>1. k \in Nat \ {0} /\ from + k - 1 <= MsgLen
        BY <2>2
      <4>2. /\ Wrote(s, from, k) \in Seq(1..MsgLen) /\ Wrote(s, from, k) # <<>>
            /\ Len(Wrote(s, from, k)) = Len(s) + k
            /\ \A i \in 1..Len(s) : Wrote(s, from, k)[i] = s[i]
            /\ \A i \in 1..k : Wrote(s, from, k)[Len(s) + i] = from + i - 1
        BY <3>2, <4>1, Written
      <4>3. QED
        BY <3>2, <4>2
    <3>4. QED
      BY <3>1, <3>3
  <2>6. from + k \in Ops /\ from + k # 0
    BY <1>8, <1>9, <2>2 DEF Ops
  <2>7. /\ ready' \in Seq(0..(MsgLen + 1)) /\ Len(ready') = Len(ready) + 1
        /\ \A i \in 1..Len(ready) : ready'[i] = ready[i]
        /\ ready'[Len(ready) + 1] = from + k
    BY <2>3, <2>6, PushLast, Types DEF Ops
  <2>8. Len(wire') <= PathCap
    BY <1>8, <2>2, <2>5
  <2>9. split' \in BOOLEAN /\ (split => split')
    BY <2>3, Types
  <2>10. TypeOK'
    <3>1. {started, errored, aborted, split, reading, rst}' \subseteq BOOLEAN
      BY <1>1, <2>9, Types
    <3>2. QED
      BY <1>1, <1>3, <2>5, <2>7, <2>8, <3>1 DEF TypeOK, count
  <2>11. BytesAreOwed'
    <3>1. SUFFICES ASSUME ~errored
                   PROVE  \E w, r \in Nat :
                            /\ Owes(wq', w) /\ Owes(ready', r)
                            /\ Len(wire') + Len(read_buf') + w + r <= Messages(sent' - msgs')
      BY <1>1 DEF BytesAreOwed
    <3>2. PICK w \in Nat, v \in Nat, r \in Nat :
                    /\ Owes(wq, w) /\ Owes(ready, r) /\ Owes(wq', v) /\ w = Left(from) + v
                    /\ Len(wire) + Len(read_buf) + w + r <= Messages(sent - msgs)
      BY <1>6, <3>1
    <3>3. PICK x \in Nat : x = Left(from + k)
      BY <2>6, LeftType
    <3>4. Owes(ready', r + x)
      BY <2>3, <2>6, <3>2, <3>3, OwesMore, Types
    <3>5. Left(from) = x + k
      <4>1. Left(from) = l + 1 - from /\ x = l + 1 - (from + k)
        BY <1>8, <1>9, <2>6, <3>3 DEF Left
      <4>2. QED
        BY <1>9, <4>1
    <3>6. PICK a \in Nat, b \in Nat, c \in Int :
            a = Len(wire) /\ b = Len(read_buf) /\ c = Messages(sent - msgs)
      BY <1>7, Types
    <3>7. (a + k) + b + v + (r + x) <= c
      <4>1. a + b + w + r <= c /\ w = (x + k) + v
        BY <3>2, <3>5, <3>6
      <4>2. QED
        BY <4>1
    <3>8. Len(wire') + Len(read_buf') + v + (r + x) <= Messages(sent' - msgs')
      BY <1>1, <2>5, <3>6, <3>7 DEF count
    <3>9. r + x \in Nat
      OBVIOUS
    <3>10. QED
      BY <3>2, <3>4, <3>8, <3>9
  <2>12. MessagesAreWhole'
    <3>1. SUFFICES ASSUME ~split'
                   PROVE  MessagesAreWhole'
      BY DEF MessagesAreWhole
    <3>2. ~split /\ from = 1 /\ k = MsgLen
      <4>1. ~split /\ ~(from + k <= MsgLen)
        BY <2>3, <3>1
      <4>2. from = 1
        BY <1>4, <4>1
      <4>3. QED
        BY <1>8, <2>2, <4>1, <4>2
    <3>3. \A i \in 1..Len(ready') : ready'[i] \notin 1..MsgLen
      <4>1. \A i \in 1..Len(ready') : i \in 1..Len(ready) \/ i = Len(ready) + 1
        BY <2>7, Types
      <4>2. from + k \notin 1..MsgLen
        BY <3>2, Types
      <4>3. QED
        BY <2>7, <3>2, <4>1, <4>2 DEF MessagesAreWhole
    <3>4. PICK b \in 0..MsgLen : b = Len(read_buf)
      BY Types DEF TypeOK
    <3>5. \A i \in 1..MsgLen : wire'[Len(wire) + i] = i
      <4>1. \A i \in 1..MsgLen : 1 + i - 1 = i
        BY Types
      <4>2. QED
        BY <2>5, <3>2, <4>1
    <3>6. /\ wire = <<>> => b \in {0, MsgLen}
          /\ wire # <<>> => wire[1] = IF b = MsgLen THEN 1 ELSE b + 1
          /\ wire # <<>> => wire[Len(wire)] = MsgLen
          /\ \A i \in 1..(Len(wire) - 1) : wire[i + 1] = After(wire[i])
      BY <3>2, <3>4 DEF MessagesAreWhole
    <3>7. PICK s \in Seq(1..MsgLen), t \in Seq(1..MsgLen) : s = wire /\ t = wire'
      BY <2>4, <2>5
    <3>8. /\ t[1] = IF b = MsgLen THEN 1 ELSE b + 1
          /\ t[Len(t)] = MsgLen
          /\ \A i \in 1..(Len(t) - 1) : t[i + 1] = After(t[i])
      <4>1. Len(t) = Len(s) + MsgLen /\ \A i \in 1..Len(s) : t[i] = s[i]
        BY <2>5, <3>2, <3>7
      <4>2. \A i \in 1..MsgLen : t[Len(s) + i] = i
        BY <3>5, <3>7
      <4>3. /\ s = <<>> => b \in {0, MsgLen}
            /\ s # <<>> => s[1] = IF b = MsgLen THEN 1 ELSE b + 1
            /\ s # <<>> => s[Len(s)] = MsgLen
            /\ \A i \in 1..(Len(s) - 1) : s[i + 1] = After(s[i])
        BY <3>6, <3>7
      <4>4. QED
        BY <4>1, <4>2, <4>3, WholeAfterWhole
    <3>9. \A i \in 1..Len(read_buf') : read_buf'[i] = i
      BY <1>1, <3>2 DEF MessagesAreWhole
    <3>10. QED
      BY <1>1, <1>4, <2>5, <3>2, <3>3, <3>4, <3>7, <3>8, <3>9 DEF MessagesAreWhole
  <2>13. QED
    BY <1>1, <1>5, <2>9, <2>10, <2>11, <2>12 DEF MismatchNeedsShortWrite, count
<1>12. QED
  BY <1>2, <1>10, <1>11 DEF WriteSome

\* The handlers of write operations: the rest of a short write is queued again,
\* or the write is over.
LEMMA WrittenStep ==
  ASSUME ExchangeInv, WriteRest \/ stub
  PROVE  ExchangeInv'
<1> USE DEF ExchangeInv, OneErrorPerConnection
<1>1. UNCHANGED <<started, msgs, waits, aborted, sent, tqueue, split, reply, rst>>
      /\ ready # <<>> /\ ready' = Tail(ready)
  BY DEF WriteRest, stub, count
<1>2. PICK x \in Ops : x = Head(ready)
  BY <1>1, PopFirst, Types
<1>3. /\ ready' \in Seq(Ops) /\ Len(ready') = Len(ready) - 1 /\ x = ready[1]
      /\ \A i \in 1..(Len(ready) - 1) : ready'[i] = ready[i + 1]
      /\ 1 <= Len(ready)
  BY <1>1, <1>2, PopFirst, Types
<1>4. ~split => x \notin 1..MsgLen /\ \A i \in 1..Len(ready') : ready'[i] \notin 1..MsgLen
  <2>1. \A i \in 1..(Len(ready) - 1) : i + 1 \in 1..Len(ready)
    BY Types
  <2>2. 1 \in 1..Len(ready)
    BY <1>3, Types
  <2>3. QED
    BY <1>3, <2>1, <2>2 DEF MessagesAreWhole
<1>5. ~errored => \E w, r, v \in Nat :
                    /\ Owes(wq, w) /\ Owes(ready, r) /\ Owes(ready', v) /\ r = Left(x) + v
                    /\ Len(wire) + Len(read_buf) + w + r <= Messages(sent - msgs)
  BY <1>1, <1>2, OwesLess, Types DEF BytesAreOwed
<1>6. Messages(sent - msgs) \in Int
  <2>1. sent - msgs \in Int
    BY Types
  <2>2. QED
    BY <2>1, OneMessage
<1>7. ready' \in Seq(0..(MsgLen + 1))
  BY <1>3 DEF Ops
<1>8. PICK l \in Nat : l = Left(x)
  BY LeftType
<1>9. CASE WriteRest
  <2>1. x \in 1..MsgLen /\ wq' = Append(wq, x) /\ UNCHANGED <<errored, cause, count>>
    BY <1>2, <1>9 DEF WriteRest
  <2>2. split = TRUE
    BY <1>4, <2>1, Types
  <2>3. wq' \in Seq(1..MsgLen)
    BY <2>1, PushLast DEF TypeOK
  <2>4. TypeOK'
    BY <1>1, <1>7, <2>1, <2>3 DEF TypeOK, reply, count
  <2>5. BytesAreOwed'
    <3>1. SUFFICES ASSUME ~errored
                   PROVE  \E w, r \in Nat :
                            /\ Owes(wq', w) /\ Owes(ready', r)
                            /\ Len(wire') + Len(read_buf') + w + r <= Messages(sent' - msgs')
      BY <2>1 DEF BytesAreOwed
    <3>2. PICK w \in Nat, r \in Nat, v \in Nat :
                    /\ Owes(wq, w) /\ Owes(ready, r) /\ Owes(ready', v) /\ r = Left(x) + v
                    /\ Len(wire) + Len(read_buf) + w + r <= Messages(sent - msgs)
      BY <1>5, <3>1
    <3>3. Owes(wq', w + l)
      BY <1>8, <2>1, <3>2, OwesMore, Types
    <3>4. PICK a \in Nat, b \in Nat, c \in Int :
            a = Len(wire) /\ b = Len(read_buf) /\ c = Messages(sent - msgs)
      BY <1>6, Types
    <3>5. a + b + (w + l) + v <= c
      <4>1. a + b + w + r <= c /\ r = l + v
        BY <1>8, <3>2, <3>4
      <4>2. QED
        BY <4>1
    <3>6. Len(wire') + Len(read_buf') + (w + l) + v <= Messages(sent' - msgs')
      BY <1>1, <2>1, <3>4, <3>5 DEF reply, count
    <3>7. w + l \in Nat
      OBVIOUS
    <3>8. QED
      BY <3>2, <3>3, <3>6, <3>7
  <2>6. MessagesAreWhole' /\ MismatchNeedsShortWrite'
    BY <1>1, <2>2 DEF MessagesAreWhole, MismatchNeedsShortWrite
  <2>7. TimersInOrder' /\ NothingBefore'
    BY <1>1, <2>1 DEF TimersInOrder, NothingBefore, reply, count
  <2>8. QED
    BY <1>1, <2>1, <2>4, <2>5, <2>6, <2>7 DEF count
<1>10. CASE stub
  <2>1. x \notin 1..MsgLen /\ wq' = wq
    BY <1>2, <1>10 DEF stub
  <2>2. l = 0
    BY <1>8, <2>1, Types DEF Left, Ops
  <2>3. \/ ~errored /\ Error("send")
        \/ UNCHANGED <<errored, cause, exchange_errors>>
    BY <1>10 DEF stub
  <2>4. /\ errored' \in BOOLEAN /\ exchange_errors' \in Nat
        /\ (errored => errored')
        /\ cause' \in {cause, "send"}
    <3>1. CASE ~errored /\ Error("send")
      <4>1. errored' = TRUE /\ cause' = "send" /\ exchange_errors' = exchange_errors + 1
        BY <3>1 DEF Error
      <4>2. exchange_errors' \in Nat
        BY <4>1, Types
      <4>3. QED
        BY <4>1, <4>2
    <3>2. CASE UNCHANGED <<errored, cause, exchange_errors>>
      BY <3>2, Types
    <3>3. QED
      BY <2>3, <3>1, <3>2
  <2>5. exchange_errors' = IF errored' THEN 1 ELSE 0
    <3>1. CASE ~errored /\ Error("send")
      BY <3>1 DEF Error
    <3>2. CASE UNCHANGED <<errored, cause, exchange_errors>>
      BY <3>2
    <3>3. QED
      BY <2>3, <3>1, <3>2
  <2>6. TypeOK'
    <3>1. {started, errored, aborted, split, reading, rst}' \subseteq BOOLEAN
      BY <1>1, <2>4, Types DEF reply
    <3>2. QED
      BY <1>1, <1>7, <2>1, <2>4, <3>1 DEF TypeOK, reply
  <2>7. BytesAreOwed'
    <3>1. SUFFICES ASSUME ~errored
                   PROVE  \E w, r \in Nat :
                            /\ Owes(wq', w) /\ Owes(ready', r)
                            /\ Len(wire') + Len(read_buf') + w + r <= Messages(sent' - msgs')
      BY <2>4 DEF BytesAreOwed
    <3>2. PICK w \in Nat, r \in Nat, v \in Nat :
                    /\ Owes(wq, w) /\ Owes(ready, r) /\ Owes(ready', v) /\ r = Left(x) + v
                    /\ Len(wire) + Len(read_buf) + w + r <= Messages(sent - msgs)
      BY <1>5, <3>1
    <3>3. r = v
      <4>1. r = 0 + v
        BY <1>8, <2>2, <3>2
      <4>2. QED
        BY <4>1
    <3>4. UNCHANGED <<wire, read_buf, sent, msgs>>
      BY <1>1 DEF reply
    <3>5. QED
      BY <2>1, <3>2, <3>3, <3>4
  <2>8. MessagesAreWhole'
    BY <1>1, <1>4, <2>1 DEF MessagesAreWhole, reply
  <2>9. MismatchNeedsShortWrite'
    BY <1>1, <2>4 DEF MismatchNeedsShortWrite
  <2>10. TimersInOrder' /\ NothingBefore'
    BY <1>1, <2>4 DEF TimersInOrder, NothingBefore, reply
  <2>11. QED
    BY <1>1, <2>5, <2>6, <2>7, <2>8, <2>9, <2>10
<1>11. QED
  BY <1>9, <1>10

\* External: a byte that has come back is read.
LEMMA ReadStep ==
  ASSUME ExchangeInv, ReadSome
  PROVE  ExchangeInv'
<1> USE DEF ExchangeInv, OneErrorPerConnection
<1>1. /\ UNCHANGED <<started, errored, cause, count, waits, aborted, sent, tqueue, write, reading, rst>>
      /\ reading /\ wire # <<>> /\ Len(read_buf) < MsgLen
      /\ wire' = Tail(wire) /\ read_buf' = Append(read_buf, Head(wire))
  BY DEF ReadSome
<1>2. /\ wire' \in Seq(1..MsgLen) /\ Len(wire') = Len(wire) - 1 /\ 1 <= Len(wire)
      /\ Head(wire) = wire[1] /\ Head(wire) \in 1..MsgLen
      /\ \A i \in 1..(Len(wire) - 1) : wire'[i] = wire[i + 1]
  BY <1>1, PopFirst DEF TypeOK
<1>3. /\ read_buf' \in Seq(1..MsgLen) /\ Len(read_buf') = Len(read_buf) + 1
      /\ \A i \in 1..Len(read_buf) : read_buf'[i] = read_buf[i]
      /\ read_buf'[Len(read_buf) + 1] = Head(wire)
  BY <1>1, <1>2, PushLast DEF TypeOK
<1>4. PICK a \in Nat, b \in Nat, l \in Nat, n \in Nat :
        /\ a = Len(wire) /\ b = Len(read_buf) /\ l = MsgLen /\ b < l /\ a = n + 1
  <2>1. Len(wire) - 1 \in Nat /\ Len(wire) = (Len(wire) - 1) + 1
    BY <1>2, Types
  <2>2. QED
    BY <1>1, <2>1, Types
<1>5. Len(wire') = n /\ Len(read_buf') = b + 1
  BY <1>2, <1>3, <1>4
<1>6. TypeOK'
  <2>1. Len(wire') <= PathCap /\ Len(read_buf') <= MsgLen
    <3>1. n + 1 <= PathCap /\ PathCap \in Nat
      BY <1>4, Types DEF TypeOK
    <3>2. QED
      BY <1>4, <1>5, <3>1
  <2>2. QED
    BY <1>1, <1>2, <1>3, <2>1 DEF TypeOK, count, write
<1>7. BytesAreOwed'
  <2>1. SUFFICES ASSUME ~errored
                 PROVE  \E w, r \in Nat :
                          /\ Owes(wq', w) /\ Owes(ready', r)
                          /\ Len(wire') + Len(read_buf') + w + r <= Messages(sent' - msgs')
    BY <1>1 DEF BytesAreOwed
  <2>2. PICK w \in Nat, r \in Nat :
          /\ Owes(wq, w) /\ Owes(ready, r)
          /\ Len(wire) + Len(read_buf) + w + r <= Messages(sent - msgs)
    BY <2>1 DEF BytesAreOwed
  <2>3. (n + 1) + b + w + r = n + (b + 1) + w + r
    OBVIOUS
  <2>4. Len(wire') + Len(read_buf') + w + r <= Messages(sent' - msgs')
    <3>1. (n + 1) + b + w + r <= Messages(sent - msgs)
      BY <1>4, <2>2
    <3>2. n + (b + 1) + w + r <= Messages(sent - msgs)
      BY <2>3, <3>1
    <3>3. sent' = sent /\ msgs' = msgs
      BY <1>1 DEF count
    <3>4. QED
      BY <1>5, <3>2, <3>3
  <2>5. QED
    BY <1>1, <2>2, <2>4 DEF write
<1>8. MessagesAreWhole'
  <2>1. SUFFICES ASSUME ~split
                 PROVE  MessagesAreWhole'
    BY <1>1 DEF MessagesAreWhole, write
  <2>2. /\ \A i \in 1..b : read_buf[i] = i
        /\ wire[1] = b + 1 /\ wire[a] = l
        /\ \A i \in 1..n : wire[i + 1] = After(wire[i])
    <3>1. a - 1 = n /\ b # l
      BY <1>4
    <3>2. /\ \A i \in 1..Len(read_buf) : read_buf[i] = i
          /\ wire[1] = IF Len(read_buf) = MsgLen THEN 1 ELSE Len(read_buf) + 1
          /\ wire[Len(wire)] = MsgLen
          /\ \A i \in 1..(Len(wire) - 1) : wire[i + 1] = After(wire[i])
      BY <1>1, <2>1 DEF MessagesAreWhole
    <3>3. wire[1] = b + 1 /\ wire[a] = l /\ \A i \in 1..b : read_buf[i] = i
      BY <1>4, <3>1, <3>2
    <3>4. Len(wire) - 1 = n
      BY <1>4, <3>1
    <3>5. QED
      BY <3>2, <3>3, <3>4
  <2>3. \A i \in 1..Len(read_buf') : read_buf'[i] = i
    <3>1. \A i \in 1..(b + 1) : i \in 1..b \/ i = b + 1
      OBVIOUS
    <3>2. QED
      BY <1>2, <1>3, <1>4, <1>5, <2>2, <3>1
  <2>4. \A i \in 1..n : wire'[i] = wire[i + 1]
    <3>1. a - 1 = n
      BY <1>4
    <3>2. QED
      BY <1>2, <1>4, <3>1
  <2>5. wire' = <<>> => Len(read_buf') \in {0, MsgLen}
    <3>1. SUFFICES ASSUME wire' = <<>>
                   PROVE  Len(read_buf') \in {0, MsgLen}
      OBVIOUS
    <3>2. n = 0
      BY <1>5, <3>1
    <3>3. a = 1
      BY <1>4, <3>2
    <3>4. b + 1 = l
      BY <2>2, <3>3
    <3>5. QED
      BY <1>4, <1>5, <3>4
  <2>6. ASSUME wire' # <<>>
        PROVE  /\ wire'[1] = IF Len(read_buf') = MsgLen THEN 1 ELSE Len(read_buf') + 1
               /\ wire'[Len(wire')] = MsgLen
    <3>1. n # 0
      BY <1>2, <1>5, <2>6, EmptySeq
    <3>2. 1 \in 1..n /\ n \in 1..n
      BY <3>1
    <3>3. wire'[1] = wire[1 + 1] /\ wire[1 + 1] = After(b + 1)
      BY <2>2, <2>4, <3>2
    <3>4. wire'[n] = wire[n + 1]
      BY <2>4, <3>2
    <3>5. wire'[n] = l
      BY <1>4, <2>2, <3>4
    <3>6. QED
      BY <1>4, <1>5, <3>3, <3>5 DEF After
  <2>7. \A i \in 1..(Len(wire') - 1) : wire'[i + 1] = After(wire'[i])
    <3>1. SUFFICES ASSUME NEW i \in 1..(n - 1)
                   PROVE  wire'[i + 1] = After(wire'[i])
      BY <1>5
    <3>2. i \in 1..n /\ i + 1 \in 1..n
      OBVIOUS
    <3>3. wire'[i] = wire[i + 1] /\ wire'[i + 1] = wire[(i + 1) + 1]
      BY <2>4, <3>2
    <3>4. wire[(i + 1) + 1] = After(wire[i + 1])
      BY <2>2, <3>2
    <3>5. QED
      BY <3>3, <3>4
  <2>8. QED
    BY <1>1, <2>1, <2>3, <2>5, <2>6, <2>7 DEF MessagesAreWhole, write
<1>9. QED
  BY <1>1, <1>6, <1>7, <1>8
  DEF TimersInOrder, NothingBefore, MismatchNeedsShortWrite, count, write

\* When a reply is whole there is a message without a reply, and its timer is
\* the first.
LEMMA FrontIsRight ==
  ASSUME ExchangeInv, Whole, ~errored
  PROVE  tqueue # <<>> /\ Head(tqueue) = msgs + 1 /\ Len(tqueue) = sent - msgs /\ msgs < sent
<1> USE DEF ExchangeInv, OneErrorPerConnection
<1>1. PICK w \in Nat, r \in Nat :
        Len(wire) + Len(read_buf) + w + r <= Messages(sent - msgs)
  BY DEF BytesAreOwed
<1>2. sent - msgs # 0
  <2>1. SUFFICES ASSUME sent - msgs = 0
                 PROVE  FALSE
    OBVIOUS
  <2>2. Messages(sent - msgs) = 0
    BY <2>1, OneMessage
  <2>3. PICK a \in Nat, b \in Nat : a = Len(wire) /\ b = Len(read_buf) /\ 1 <= b
    BY Types DEF Whole
  <2>4. a + b + w + r <= 0
    BY <1>1, <2>2, <2>3
  <2>5. QED
    BY <2>3, <2>4
<1>3. Len(tqueue) = sent - msgs /\ \A i \in 1..Len(tqueue) : tqueue[i] = msgs + i
  BY DEF TimersInOrder
<1>4. tqueue # <<>> /\ Len(tqueue) # 0
  BY <1>2, <1>3
<1>5. Head(tqueue) = tqueue[1] /\ 1 <= Len(tqueue)
  BY <1>4, PopFirst DEF TypeOK
<1>6. msgs < sent
  BY <1>2, Types
<1>7. 1 \in 1..Len(tqueue)
  BY <1>5, Types
<1>8. QED
  BY <1>3, <1>4, <1>5, <1>6, <1>7

\* A read has completed or failed, and the reply is rejected or accepted.
LEMMA CompareStep ==
  ASSUME ExchangeInv, compare_staff
  PROVE  ExchangeInv'
<1> USE DEF ExchangeInv, OneErrorPerConnection
<1>1. UNCHANGED <<started, ready, split, wire, rst, waits, aborted, wq, sent>> /\ reading
  BY DEF compare_staff, Rejected, Accepted
<1>2. started = TRUE
  BY <1>1, Types DEF NothingBefore
<1>3. CASE /\ errored /\ reading' = FALSE
           /\ UNCHANGED <<errored, cause, count, tqueue, read_buf>>
  <2>1. TypeOK'
    <3>1. {started, errored, aborted, split, reading, rst}' \subseteq BOOLEAN
      BY <1>1, <1>3, Types
    <3>2. QED
      BY <1>1, <1>3, <3>1 DEF TypeOK, count
  <2>2. QED
    BY <1>1, <1>2, <1>3, <2>1
    DEF TimersInOrder, BytesAreOwed, MessagesAreWhole, NothingBefore,
        MismatchNeedsShortWrite, count
<1>4. ASSUME NEW what \in {"read", "mismatch", "late"}, Rejected(what), ~errored,
             tqueue' \in Seq(1..MaxMsgs), what = "mismatch" => split
      PROVE  ExchangeInv'
  <2>1. /\ errored' = TRUE /\ cause' = what /\ exchange_errors' = exchange_errors + 1
        /\ reading' = FALSE /\ UNCHANGED <<msgs, read_buf>>
    BY <1>4 DEF Rejected, Error
  <2>2. exchange_errors' = 1
    BY <1>4, <2>1
  <2>3. TypeOK'
    <3>1. {started, errored, aborted, split, reading, rst}' \subseteq BOOLEAN
      BY <1>1, <2>1, Types
    <3>2. QED
      BY <1>1, <1>4, <2>1, <2>2, <3>1 DEF TypeOK
  <2>4. MessagesAreWhole'
    BY <1>1, <2>1 DEF MessagesAreWhole
  <2>5. QED
    BY <1>1, <1>2, <1>4, <2>1, <2>2, <2>3, <2>4
    DEF TimersInOrder, BytesAreOwed, NothingBefore, MismatchNeedsShortWrite
<1>5. CASE ~errored /\ ~Whole /\ Rejected("read") /\ UNCHANGED tqueue
  BY <1>4, <1>5 DEF TypeOK
<1>6. CASE ~errored /\ Whole /\ ~Match /\ Rejected("mismatch") /\ UNCHANGED tqueue
  <2>1. split
    <3>1. SUFFICES ASSUME ~split
                   PROVE  FALSE
      OBVIOUS
    <3>2. \A i \in 1..CmpLen : i \in 1..Len(read_buf) /\ send_buf[i] = i
      BY <1>6, ExchangeAssumption DEF Whole, send_buf
    <3>3. \A i \in 1..CmpLen : read_buf[i] = send_buf[i]
      BY <3>1, <3>2 DEF MessagesAreWhole
    <3>4. QED
      BY <1>6, <3>3 DEF Match, Whole
  <2>2. QED
    BY <1>4, <1>6, <2>1 DEF TypeOK
<1>7. CASE ~errored /\ Whole /\ tqueue # <<>> /\ tqueue' = Tail(tqueue) /\ Rejected("late")
  <2>1. tqueue' \in Seq(1..MaxMsgs)
    BY <1>7, PopFirst DEF TypeOK
  <2>2. QED
    BY <1>4, <1>7, <2>1
<1>8. CASE ~errored /\ Whole /\ tqueue # <<>> /\ Accepted
  <2>1. /\ tqueue' = Tail(tqueue) /\ msgs' = msgs + 1 /\ read_buf' = <<>>
        /\ UNCHANGED <<errored, cause, exchange_errors, reading>>
    BY <1>8 DEF Accepted
  <2>2. Len(tqueue) = sent - msgs /\ msgs < sent
    BY <1>8, FrontIsRight
  <2>3. /\ tqueue' \in Seq(1..MaxMsgs) /\ Len(tqueue') = Len(tqueue) - 1
        /\ \A i \in 1..(Len(tqueue) - 1) : tqueue'[i] = tqueue[i + 1]
    BY <1>8, <2>1, PopFirst DEF TypeOK
  <2>4. msgs' \in 0..sent
    BY <2>1, <2>2, Types
  <2>5. read_buf' \in Seq(1..MsgLen) /\ Len(read_buf') = 0 /\ Len(read_buf') <= MsgLen
    BY <2>1, Types
  <2>6. TypeOK'
    BY <1>1, <2>1, <2>3, <2>4, <2>5 DEF TypeOK
  <2>7. TimersInOrder'
    <3>1. \A i \in 1..Len(tqueue) : tqueue[i] = msgs + i
      BY <1>8 DEF TimersInOrder
    <3>2. PICK a \in Int, b \in Int : a = sent /\ b = msgs
      BY Types
    <3>3. Len(tqueue') = sent' - msgs'
      <4>1. (a - b) - 1 = a - (b + 1)
        OBVIOUS
      <4>2. QED
        BY <1>1, <2>1, <2>2, <2>3, <3>2, <4>1
    <3>4. ASSUME NEW i \in 1..Len(tqueue')
          PROVE  tqueue'[i] = msgs' + i
      <4>1. i \in 1..(Len(tqueue) - 1) /\ i + 1 \in 1..Len(tqueue)
        BY <2>3, Types
      <4>2. tqueue'[i] = msgs + (i + 1)
        BY <2>3, <3>1, <4>1
      <4>3. b + (i + 1) = (b + 1) + i
        OBVIOUS
      <4>4. QED
        BY <2>1, <3>2, <4>2, <4>3
    <3>5. QED
      BY <3>3, <3>4 DEF TimersInOrder
  <2>8. BytesAreOwed'
    <3>1. PICK w \in Nat, r \in Nat :
            /\ Owes(wq, w) /\ Owes(ready, r)
            /\ Len(wire) + Len(read_buf) + w + r <= Messages(sent - msgs)
      BY <1>8 DEF BytesAreOwed
    <3>2. PICK n \in Int : n = sent - msgs
      BY Types
    <3>3. sent' - msgs' = n - 1
      <4>1. PICK a \in Int, b \in Int : a = sent /\ b = msgs
        BY Types
      <4>2. a - (b + 1) = (a - b) - 1
        OBVIOUS
      <4>3. QED
        BY <1>1, <2>1, <3>2, <4>1, <4>2
    <3>4. Messages(n) \in Int /\ Messages(sent' - msgs') = Messages(n) - MsgLen
      BY <3>3, OneMessage
    <3>5. PICK a \in Nat, l \in Nat, c \in Int : a = Len(wire) /\ l = MsgLen /\ c = Messages(n)
      BY <3>4, Types
    <3>6. a + l + w + r <= c
      BY <1>8, <3>1, <3>2, <3>5 DEF Whole
    <3>7. a + 0 + w + r <= c - l
      BY <3>6
    <3>8. Len(wire') + Len(read_buf') + w + r <= Messages(sent' - msgs')
      BY <1>1, <2>5, <3>4, <3>5, <3>7
    <3>9. QED
      BY <1>1, <3>1, <3>8 DEF BytesAreOwed
  <2>9. MessagesAreWhole'
    <3>1. SUFFICES ASSUME ~split
                   PROVE  MessagesAreWhole'
      BY <1>1 DEF MessagesAreWhole
    <3>2. wire # <<>> => wire[1] = 1
      BY <1>8, <3>1 DEF MessagesAreWhole, Whole
    <3>3. 0 # MsgLen /\ 0 + 1 = 1
      BY Types
    <3>4. wire' # <<>> => wire'[1] = IF Len(read_buf') = MsgLen THEN 1 ELSE Len(read_buf') + 1
      BY <1>1, <2>5, <3>2, <3>3
    <3>5. \A i \in 1..Len(read_buf') : read_buf'[i] = i
      BY <2>5
    <3>6. QED
      BY <1>1, <2>5, <3>1, <3>4, <3>5 DEF MessagesAreWhole
  <2>10. QED
    BY <1>1, <1>2, <2>1, <2>6, <2>7, <2>8, <2>9 DEF NothingBefore, MismatchNeedsShortWrite
<1>9. QED
  BY <1>3, <1>5, <1>6, <1>7, <1>8 DEF compare_staff

\* Every step preserves the invariant.
LEMMA ExchangeStep ==
  ASSUME ExchangeInv, [Next]_vars
  PROVE  ExchangeInv'
<1>1. CASE ConnectionFails
  <2>1. TypeOK'
    <3>1. {started, errored, aborted, split, reading, rst}' \subseteq BOOLEAN
      BY <1>1, Types DEF ConnectionFails, ExchangeInv, OneErrorPerConnection, write, reply
    <3>2. QED
      BY <1>1, <3>1
      DEF ConnectionFails, ExchangeInv, OneErrorPerConnection, TypeOK, count, write, reply
  <2>2. QED
    BY <1>1, <2>1
    DEF ConnectionFails, ExchangeInv, OneErrorPerConnection, TimersInOrder, BytesAreOwed,
        MessagesAreWhole, NothingBefore, MismatchNeedsShortWrite, count, write, reply
<1>2. CASE UNCHANGED vars
  <2>1. TypeOK'
    BY <1>2 DEF vars, ExchangeInv, OneErrorPerConnection, TypeOK, count, write, reply
  <2>2. QED
    BY <1>2, <2>1
    DEF vars, ExchangeInv, OneErrorPerConnection, TimersInOrder, BytesAreOwed,
        MessagesAreWhole, NothingBefore, MismatchNeedsShortWrite, count, write, reply
<1>3. QED
  BY <1>1, <1>2, SendStep, WriteSomeStep, WrittenStep, ReadStep, CompareStep DEF Next

\* The invariant holds in every state.
LEMMA ExchangeInvariant == Spec => []ExchangeInv
<1>1. Init => ExchangeInv
  BY ExchangeInit
<1>2. ExchangeInv /\ [Next]_vars => ExchangeInv'
  BY ExchangeStep
<1>3. QED
  BY <1>1, <1>2, PTL DEF Spec

-----------------------------------------------------------------------------
(* The theorems.                                                           *)

\* A connection adds at most one to exchange_errors, however many of its
\* outstanding writes and reads fail after the first.
THEOREM ErrorsAreCountedOnce == Spec => []OneErrorPerConnection
<1>1. ExchangeInv => OneErrorPerConnection
  BY DEF ExchangeInv
<1>2. QED
  BY <1>1, ExchangeInvariant, PTL

\* The assert(!e) of send_staff holds, and when compare_staff has a whole reply
\* tqueue.front() is there and is the timer of the message answered, even when
\* short writes have mixed the bytes of several messages.
THEOREM TimersMatchReplies == Spec => []TimersAreRight
<1>1. ExchangeInv => TimersAreRight
  BY FrontIsRight DEF ExchangeInv, TimersAreRight
<1>2. QED
  BY <1>1, ExchangeInvariant, PTL

\* Against a faithful server strncmp in compare_staff finds a difference only
\* if some write was short.
THEOREM RepliesMatch == Spec => []MismatchNeedsShortWrite
<1>1. ExchangeInv => MismatchNeedsShortWrite
  BY DEF ExchangeInv
<1>2. QED
  BY <1>1, ExchangeInvariant, PTL

-----------------------------------------------------------------------------
(* No message is forgotten.  The run `exchange' checks that every message  *)
(* is settled, which needs fairness; what can be proved is that nothing    *)
(* stands still in between: there is always a handler to run.              *)

\* A connection that is in order always has an async_read outstanding, so that
\* whatever comes back is read.
ReadGoesOn == started /\ ~errored => reading

\* While the connection holds, the bytes written, being read and still to be
\* written are all the bytes of the messages without a reply: a short write
\* leaves nothing behind.
NoByteIsLost ==
  ~errored /\ ~rst =>
    \E w, r \in Nat :
      /\ Owes(wq, w) /\ Owes(ready, r)
      /\ Len(wire) + Len(read_buf) + w + r = Messages(sent - msgs)

\* A handler can run or, on the side of the service, an operation complete: the
\* handler of a write, a write that has failed or finds room, a read that finds a
\* byte, and the handler of a read that is complete or has failed.
HandlerIsDue ==
  \/ ready # <<>>
  \/ wq # <<>> /\ (rst \/ Room > 0)
  \/ reading /\ wire # <<>> /\ Len(read_buf) < MsgLen
  \/ reading /\ (Whole \/ rst)

\* The read goes on: compare_staff starts the next one unless it has counted an
\* error.
LEMMA ReadStays ==
  ASSUME TypeOK, ReadGoesOn, [Next]_vars
  PROVE  ReadGoesOn'
<1>1. CASE connect
  BY <1>1 DEF connect, ReadGoesOn
<1>2. CASE send_staff
  BY <1>2 DEF send_staff, ReadGoesOn, reply
<1>3. CASE WriteSome
  BY <1>3 DEF WriteSome, ReadGoesOn
<1>4. CASE WriteRest
  BY <1>4 DEF WriteRest, ReadGoesOn, reply
<1>5. CASE stub
  <2>1. errored => errored'
    BY <1>5 DEF stub, Error
  <2>2. QED
    BY <1>5, <2>1 DEF stub, ReadGoesOn, reply
<1>6. CASE ReadSome
  BY <1>6 DEF ReadSome, ReadGoesOn
<1>7. CASE compare_staff
  <2>1. CASE errored'
    BY <2>1 DEF ReadGoesOn
  <2>2. CASE ~errored'
    <3>1. \A what : ~Rejected(what)
      BY <2>2 DEF Rejected, Error
    <3>2. ~errored /\ Accepted /\ started' = started
      BY <1>7, <2>2, <3>1 DEF compare_staff
    <3>3. QED
      BY <3>2 DEF ReadGoesOn, Accepted
  <2>3. QED
    BY <2>1, <2>2
<1>8. CASE ConnectionFails
  BY <1>8 DEF ConnectionFails, ReadGoesOn, reply
<1>9. CASE UNCHANGED vars
  BY <1>9 DEF vars, ReadGoesOn, reply
<1>10. QED
  BY <1>1, <1>2, <1>3, <1>4, <1>5, <1>6, <1>7, <1>8, <1>9 DEF Next

\* A message that is sent adds its bytes to those to be written.
LEMMA SentIsKept ==
  ASSUME ExchangeInv, NoByteIsLost, ~errored, ~rst,
         wq' = Append(wq, 1), sent' = sent + 1,
         Len(read_buf') = Len(read_buf), UNCHANGED <<msgs, ready, wire>>
  PROVE  NoByteIsLost'
<1> USE DEF ExchangeInv, OneErrorPerConnection
<1>1. PICK w \in Nat, r \in Nat :
        /\ Owes(wq, w) /\ Owes(ready, r)
        /\ Len(wire) + Len(read_buf) + w + r = Messages(sent - msgs)
  BY DEF NoByteIsLost
<1>2. 1 \in Ops /\ Left(1) = MsgLen /\ w + MsgLen \in Nat
  <2>1. MsgLen \in Nat /\ 1 <= MsgLen
    BY ExchangeAssumption
  <2> HIDE DEF ExchangeInv, OneErrorPerConnection
  <2>2. QED
    BY <2>1 DEF Ops, Left
<1>3. Owes(wq', w + MsgLen)
  <2>1. Owes(Append(wq, 1), w + Left(1))
    BY <1>1, <1>2, OwesMore, Types
  <2>2. QED
    BY <1>2, <2>1
<1>4. PICK n \in Int : n = sent - msgs /\ sent' - msgs' = n + 1
  <2>1. PICK a \in Int, b \in Int : a = sent /\ b = msgs
    <3>1. sent \in Nat /\ msgs \in Nat
      BY Types
    <3>2. sent \in Int /\ msgs \in Int
      BY <3>1
    <3>3. QED
      BY <3>2
  <2>2. (a + 1) - b = (a - b) + 1 /\ a - b \in Int
    OBVIOUS
  <2>3. QED
    BY <2>1, <2>2
<1>5. Messages(n) \in Int /\ Messages(n + 1) = Messages(n) + MsgLen
  BY OneMessage
<1>6. PICK a \in Nat, b \in Nat, c \in Int, l \in Nat :
        a = Len(wire) /\ b = Len(read_buf) /\ c = Messages(n) /\ l = MsgLen
  BY <1>5, Types
<1>7. a + b + (w + l) + r = c + l
  <2>1. a + b + w + r = c
    BY <1>1, <1>4, <1>6
  <2>2. QED
    BY <2>1
<1>8. Len(wire') + Len(read_buf') + (w + MsgLen) + r = Messages(sent' - msgs')
  BY <1>4, <1>5, <1>6, <1>7
<1>9. QED
  BY <1>1, <1>2, <1>3, <1>8 DEF NoByteIsLost

\* A write operation passes to the path what it takes from the queue, and what it
\* has left goes on to its handler.
LEMMA WrittenIsKept ==
  ASSUME ExchangeInv, NoByteIsLost, ~errored, ~rst, WriteSome
  PROVE  NoByteIsLost'
<1> USE DEF ExchangeInv, OneErrorPerConnection
<1>1. wq # <<>> /\ wq' = Tail(wq) /\ UNCHANGED <<sent, msgs, read_buf>>
  BY DEF WriteSome, count
<1>2. PICK from \in 1..MsgLen : from = Head(wq)
  BY <1>1, PopFirst DEF TypeOK
<1>3. PICK w \in Nat, v \in Nat, r \in Nat :
        /\ Owes(wq, w) /\ Owes(ready, r) /\ Owes(wq', v) /\ w = Left(from) + v
        /\ Len(wire) + Len(read_buf) + w + r = Messages(sent - msgs)
  BY <1>1, <1>2, OwesLess, Types DEF NoByteIsLost
<1>4. PICK k \in Int : k = Least(MsgLen - from + 1, Room)
  <2>1. MsgLen \in Int /\ PathCap \in Int /\ Len(wire) \in Int /\ from \in Int
    BY Types
  <2>2. MsgLen - from + 1 \in Int /\ Room \in Int
    BY <2>1 DEF Room
  <2>3. QED
    BY <2>2 DEF Least
<1>5. /\ k > 0
      /\ wire' = wire \o SubSeq(send_buf, from, from + k - 1)
      /\ ready' = Append(ready, from + k)
  BY <1>2, <1>4 DEF WriteSome
<1>6. k \in Nat \ {0} /\ from + k - 1 <= MsgLen
  <2>1. PICK l \in Nat, room \in Int : l = MsgLen /\ room = Room
    <3>1. Len(wire) \in Nat /\ PathCap \in Nat /\ MsgLen \in Nat
      BY Types
    <3>2. Room \in Int
      BY <3>1 DEF Room
    <3>3. QED
      BY <3>1, <3>2
  <2>2. k <= l - from + 1
    BY <1>4, <2>1 DEF Least
  <2>3. QED
    BY <1>5, <2>1, <2>2
<1>7. Len(wire') = Len(wire) + k
  <2>1. PICK s : s = wire
    OBVIOUS
  <2>2. s \in Seq(1..MsgLen)
    BY <2>1 DEF TypeOK
  <2>3. Len(Wrote(s, from, k)) = Len(s) + k
    BY <1>6, <2>2, Written
  <2>4. QED
    BY <1>5, <2>1, <2>3 DEF Wrote
<1>8. PICK f \in Nat, l \in Nat : f = from /\ l = MsgLen /\ 1 <= f /\ f <= l
  BY ExchangeAssumption
<1>9. from + k \in Ops /\ from + k # 0
  BY <1>6, <1>8 DEF Ops
<1>10. PICK x \in Nat : x = Left(from + k)
  BY <1>9, LeftType
<1>11. Owes(ready', r + x)
  BY <1>3, <1>5, <1>9, <1>10, OwesMore, Types
<1>12. Left(from) = x + k
  <2>1. Left(from) = l + 1 - f /\ x = l + 1 - (f + k)
    BY <1>8, <1>9, <1>10 DEF Left
  <2>2. QED
    BY <2>1
<1>13. PICK a \in Nat, b \in Nat : a = Len(wire) /\ b = Len(read_buf)
  BY Types
<1>14. (a + k) + b + v + (r + x) = a + b + w + r
  <2>1. w = (x + k) + v
    BY <1>3, <1>12
  <2>2. QED
    BY <2>1
<1>15. Len(wire') + Len(read_buf') + v + (r + x) = Messages(sent' - msgs')
  BY <1>1, <1>3, <1>7, <1>13, <1>14
<1>16. r + x \in Nat
  OBVIOUS
<1>17. QED
  BY <1>3, <1>11, <1>15, <1>16 DEF NoByteIsLost

\* The handler of a write queues what is left of the message; a write that is
\* complete or has failed has nothing left.
LEMMA RestIsKept ==
  ASSUME ExchangeInv, NoByteIsLost, ~errored, ~rst, WriteRest \/ stub
  PROVE  NoByteIsLost'
<1> USE DEF ExchangeInv, OneErrorPerConnection
<1>1. /\ ready # <<>> /\ ready' = Tail(ready)
      /\ UNCHANGED <<sent, msgs, wire, read_buf>>
  BY DEF WriteRest, stub, count, reply
<1>2. PICK x \in Ops : x = Head(ready)
  BY <1>1, PopFirst, Types
<1>3. PICK w \in Nat, r \in Nat, v \in Nat :
        /\ Owes(wq, w) /\ Owes(ready, r) /\ Owes(ready', v) /\ r = Left(x) + v
        /\ Len(wire) + Len(read_buf) + w + r = Messages(sent - msgs)
  BY <1>1, <1>2, OwesLess, Types DEF NoByteIsLost
<1>4. PICK l \in Nat : l = Left(x)
  BY LeftType
<1>5. PICK a \in Nat, b \in Nat : a = Len(wire) /\ b = Len(read_buf)
  BY Types
<1>6. CASE WriteRest
  <2>1. wq' = Append(wq, x)
    BY <1>2, <1>6 DEF WriteRest
  <2>2. Owes(wq', w + l)
    BY <1>3, <1>4, <2>1, OwesMore, Types
  <2>3. a + b + (w + l) + v = a + b + w + r
    <3>1. r = l + v
      BY <1>3, <1>4
    <3>2. QED
      BY <3>1
  <2>4. Len(wire') + Len(read_buf') + (w + l) + v = Messages(sent' - msgs')
    BY <1>1, <1>3, <1>5, <2>3
  <2>5. w + l \in Nat
    OBVIOUS
  <2>6. QED
    BY <1>3, <2>2, <2>4, <2>5 DEF NoByteIsLost
<1>7. CASE stub
  <2>1. x \notin 1..MsgLen /\ wq' = wq
    BY <1>2, <1>7 DEF stub
  <2>2. l = 0
    <3>1. x = 0 \/ x = MsgLen + 1
      BY <2>1, ExchangeAssumption DEF Ops
    <3>2. Left(0) = 0 /\ Left(MsgLen + 1) = 0
      BY ExchangeAssumption DEF Left
    <3>3. QED
      BY <1>4, <3>1, <3>2
  <2>3. r = v
    <3>1. r = 0 + v
      BY <1>3, <1>4, <2>2
    <3>2. QED
      BY <3>1
  <2>4. QED
    BY <1>1, <1>3, <2>1, <2>3 DEF NoByteIsLost
<1>8. QED
  BY <1>6, <1>7

\* A byte that is read moves from the path to the buffer, and a reply that is
\* accepted takes the bytes of one message with it.
LEMMA ReadIsKept ==
  ASSUME ExchangeInv, NoByteIsLost, ~errored, ~rst, ~errored', ReadSome \/ compare_staff
  PROVE  NoByteIsLost'
<1> USE DEF ExchangeInv, OneErrorPerConnection
<1>1. PICK w \in Nat, r \in Nat :
        /\ Owes(wq, w) /\ Owes(ready, r)
        /\ Len(wire) + Len(read_buf) + w + r = Messages(sent - msgs)
  BY DEF NoByteIsLost
<1>2. PICK a \in Nat, b \in Nat, l \in Nat : a = Len(wire) /\ b = Len(read_buf) /\ l = MsgLen
  BY Types
<1>3. CASE ReadSome
  <2>1. /\ UNCHANGED <<wq, ready, sent, msgs>> /\ wire # <<>>
        /\ wire' = Tail(wire) /\ read_buf' = Append(read_buf, Head(wire))
    BY <1>3 DEF ReadSome, write, count
  <2>2. Len(wire') = a - 1 /\ Head(wire) \in 1..MsgLen
    BY <1>2, <2>1, PopFirst DEF TypeOK
  <2>3. Len(read_buf') = b + 1
    BY <1>2, <2>1, <2>2, PushLast DEF TypeOK
  <2>4. (a - 1) + (b + 1) + w + r = a + b + w + r
    OBVIOUS
  <2>5. Len(wire') + Len(read_buf') + w + r = Messages(sent' - msgs')
    BY <1>1, <1>2, <2>1, <2>2, <2>3, <2>4
  <2>6. QED
    BY <1>1, <2>1, <2>5 DEF NoByteIsLost
<1>4. CASE compare_staff
  <2>1. Whole /\ Accepted /\ UNCHANGED <<wire, ready>>
    BY <1>4 DEF compare_staff, Rejected, Error
  <2>2. /\ UNCHANGED <<wq, sent>> /\ msgs' = msgs + 1 /\ read_buf' = <<>> /\ b = l
    BY <1>2, <2>1 DEF Accepted, Whole
  <2>3. Len(read_buf') = 0
    BY <2>2
  <2>4. PICK n \in Int : n = sent - msgs /\ sent' - msgs' = n - 1
    <3>1. PICK c \in Int, d \in Int : c = sent /\ d = msgs
      BY Types
    <3>2. c - (d + 1) = (c - d) - 1 /\ c - d \in Int
      OBVIOUS
    <3>3. QED
      BY <2>2, <3>1, <3>2
  <2>5. PICK c \in Int : c = Messages(n) /\ Messages(n - 1) = c - l
    BY <1>2, OneMessage
  <2>6. a + 0 + w + r = c - l
    <3>1. a + l + w + r = c
      BY <1>1, <1>2, <2>2, <2>4, <2>5
    <3>2. QED
      BY <3>1
  <2>7. Len(wire') + Len(read_buf') + w + r = Messages(sent' - msgs')
    BY <1>2, <2>1, <2>3, <2>4, <2>5, <2>6
  <2>8. QED
    BY <1>1, <2>1, <2>2, <2>7 DEF NoByteIsLost
<1>5. QED
  BY <1>3, <1>4

\* No step loses a byte while the connection holds.
LEMMA BytesStay ==
  ASSUME ExchangeInv, NoByteIsLost, [Next]_vars
  PROVE  NoByteIsLost'
<1> USE DEF ExchangeInv, OneErrorPerConnection
<1>1. SUFFICES ASSUME ~errored', ~rst'
               PROVE  NoByteIsLost'
  BY DEF NoByteIsLost
<1>2. errored \in BOOLEAN /\ rst \in BOOLEAN
  BY Types
<1>3. ~errored /\ ~rst
  <2>1. rst => rst'
    BY DEF Next, connect, send_staff, WriteSome, WriteRest, stub, ReadSome, compare_staff,
           ConnectionFails, vars
  <2>2. errored => errored'
    BY DEF Next, connect, send_staff, WriteSome, WriteRest, stub, ReadSome, compare_staff,
           ConnectionFails, vars, Error
  <2>3. QED
    BY <1>1, <2>1, <2>2
<1>4. CASE connect
  <2>1. wq' = Append(wq, 1) /\ sent' = sent + 1 /\ UNCHANGED <<msgs, ready, wire>>
    BY <1>4 DEF connect, SendMessage, count
  <2>2. Len(read_buf') = Len(read_buf)
    BY <1>4 DEF connect, NothingBefore
  <2>3. QED
    BY <1>3, <2>1, <2>2, SentIsKept
<1>5. CASE send_staff
  <2>1. wq' = Append(wq, 1) /\ sent' = sent + 1 /\ UNCHANGED <<msgs, ready, wire, read_buf>>
    BY <1>3, <1>5 DEF send_staff, SendMessage, count, reply
  <2>2. QED
    BY <1>3, <2>1, SentIsKept
<1>6. CASE WriteSome
  BY <1>3, <1>6, WrittenIsKept
<1>7. CASE WriteRest \/ stub
  BY <1>3, <1>7, RestIsKept
<1>8. CASE ReadSome \/ compare_staff
  BY <1>1, <1>3, <1>8, ReadIsKept
<1>9. CASE ConnectionFails
  BY <1>1, <1>9 DEF ConnectionFails
<1>10. CASE UNCHANGED vars
  BY <1>10 DEF vars, NoByteIsLost, count, write, reply
<1>11. QED
  BY <1>4, <1>5, <1>6, <1>7, <1>8, <1>9, <1>10 DEF Next

\* A queue of no operations owes nothing else.
LEMMA NothingOwed ==
  ASSUME NEW n \in Nat, Owes(<<>>, n)
  PROVE  n = 0
<1>1. Len(<<>>) = 0
  OBVIOUS
<1>2. QED
  BY <1>1 DEF Owes

\* A message without a reply has a handler that can run.
LEMMA UnansweredIsTended ==
  ASSUME ExchangeInv, ReadGoesOn, NoByteIsLost, ~errored, msgs < sent
  PROVE  HandlerIsDue
<1> USE DEF ExchangeInv, OneErrorPerConnection
<1>1. reading
  BY Types DEF NothingBefore, ReadGoesOn
<1>2. SUFFICES ASSUME ~rst, ready = <<>>, ~Whole
               PROVE  HandlerIsDue
  BY <1>1 DEF HandlerIsDue
<1>3. Len(read_buf) < MsgLen
  BY <1>2, Types DEF TypeOK, Whole
<1>4. CASE wire # <<>>
  BY <1>1, <1>3, <1>4 DEF HandlerIsDue
<1>5. CASE wire = <<>> /\ wq # <<>>
  <2>1. Len(wire) = 0
    BY <1>5
  <2>2. Room > 0
    BY <2>1, ExchangeAssumption DEF Room
  <2>3. QED
    BY <1>5, <2>2 DEF HandlerIsDue
<1>6. CASE wire = <<>> /\ wq = <<>>
  <2>1. PICK w \in Nat, r \in Nat :
          /\ Owes(wq, w) /\ Owes(ready, r)
          /\ Len(wire) + Len(read_buf) + w + r = Messages(sent - msgs)
    BY <1>2 DEF NoByteIsLost
  <2>2. w = 0 /\ r = 0 /\ Len(wire) = 0
    BY <1>2, <1>6, <2>1, NothingOwed
  <2>3. Len(read_buf) = Messages(sent - msgs)
    BY <2>1, <2>2, Types
  <2>4. PICK d \in Nat, l \in Nat : d = sent - msgs /\ l = MsgLen /\ 1 <= d
    <3>1. sent \in Nat /\ msgs \in Nat /\ MsgLen \in Nat
      BY Types
    <3>2. sent - msgs \in Nat /\ 1 <= sent - msgs
      BY <3>1
    <3>3. QED
      BY <3>1, <3>2
  <2>5. l * d >= l
    <3>1. PICK e \in Nat : d = e + 1
      BY <2>4
    <3>2. l * (e + 1) = l * e + l /\ l * e \in Nat
      OBVIOUS
    <3>3. QED
      BY <3>1, <3>2
  <2>6. PICK b \in Nat : b = Len(read_buf)
    BY Types
  <2>7. b < l /\ b = l * d /\ l * d \in Nat
    BY <1>3, <2>3, <2>4, <2>6 DEF Messages
  <2>8. QED
    BY <2>5, <2>7
<1>7. QED
  BY <1>4, <1>5, <1>6

\* Messages do not get stuck: while a message has no reply and no error is
\* counted, some handler of client.cc can run, or an operation it waits for can
\* complete; the path is never full of bytes nobody reads, and no rest of a short
\* write is forgotten.  This is what EveryMessageIsSettled rests on beside
\* fairness.
THEOREM ExchangeNeverStalls ==
  Spec => [](~errored /\ msgs < sent => HandlerIsDue)
<1>1. Init => ReadGoesOn
  BY DEF Init, ReadGoesOn
<1>2. Init => NoByteIsLost
  <2>1. SUFFICES ASSUME Init
                 PROVE  NoByteIsLost
    OBVIOUS
  <2>2. sent - msgs = 0 /\ Len(wire) = 0 /\ Len(read_buf) = 0 /\ wq = <<>> /\ ready = <<>>
    BY <2>1 DEF Init
  <2>3. Messages(sent - msgs) = 0
    BY <2>2, OneMessage
  <2>4. Len(wire) + Len(read_buf) + 0 + 0 = Messages(sent - msgs)
    BY <2>2, <2>3
  <2>5. QED
    BY <2>2, <2>4, OwesNothing DEF NoByteIsLost
<1>3. ExchangeInv /\ ReadGoesOn /\ [Next]_vars => ReadGoesOn'
  BY ReadStays DEF ExchangeInv, OneErrorPerConnection
<1>4. ExchangeInv /\ NoByteIsLost /\ [Next]_vars => NoByteIsLost'
  BY BytesStay
<1>5. ExchangeInv /\ ReadGoesOn /\ NoByteIsLost => (~errored /\ msgs < sent => HandlerIsDue)
  BY UnansweredIsTended
<1>6. QED
  BY <1>1, <1>2, <1>3, <1>4, <1>5, ExchangeInvariant, PTL DEF Spec

=============================================================================
