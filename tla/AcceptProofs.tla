---------------------------- MODULE AcceptProofs ----------------------------
(***************************************************************************)
(* Proofs about the servers whose loops share one listening socket: who    *)
(* owns a connection, and that one which waits is not forgotten.           *)
(* ThreadAccept, for every number of threads, connections, descriptors and *)
(* every length of the queue, and for both kinds of server; then           *)
(* PerlServer, for every number of workers, slots and connections.  No     *)
(* theorem speaks of both.                                                 *)
(***************************************************************************)
EXTENDS ThreadAccept, PerlServer, SequenceTheorems, FiniteSetTheorems, TLAPS

-----------------------------------------------------------------------------
(* The queue of the listening socket.                                      *)

In(c, q)    == \E i \in 1..Len(q) : q[i] = c
Distinct(q) == \A i, j \in 1..Len(q) : q[i] = q[j] => i = j

\* accept takes the first connection: what it takes was in the queue, is not
\* there any more, and nothing else changes.
LEMMA TailOfQueue ==
  ASSUME NEW S, NEW q \in Seq(S), q # <<>>, Distinct(q)
  PROVE  /\ Head(q) \in S /\ In(Head(q), q)
         /\ Tail(q) \in Seq(S) /\ Distinct(Tail(q))
         /\ ~In(Head(q), Tail(q))
         /\ \A c : In(c, Tail(q)) => In(c, q)
<1>1. /\ Len(q) \in Nat \ {0} /\ Head(q) = q[1] /\ Head(q) \in S
      /\ Tail(q) \in Seq(S) /\ Len(Tail(q)) = Len(q) - 1
      /\ \A i \in 1..Len(Tail(q)) : Tail(q)[i] = q[i + 1]
  BY HeadTailProperties, LenProperties, EmptySeq
<1>2. \A i \in 1..Len(Tail(q)) : i + 1 \in 1..Len(q) /\ i + 1 # 1
  BY <1>1
<1>3. In(Head(q), q)
  BY <1>1 DEF In
<1>4. Distinct(Tail(q))
  <2> SUFFICES ASSUME NEW i \in 1..Len(Tail(q)), NEW j \in 1..Len(Tail(q)),
                      Tail(q)[i] = Tail(q)[j]
               PROVE  i = j
    BY DEF Distinct
  <2>1. i + 1 = j + 1
    BY <1>1, <1>2 DEF Distinct
  <2>2. QED
    BY <2>1, <1>1
<1>5. ~In(Head(q), Tail(q))
  BY <1>1, <1>2 DEF In, Distinct
<1>6. \A c : In(c, Tail(q)) => In(c, q)
  BY <1>1, <1>2 DEF In
<1>7. QED
  BY <1>1, <1>3, <1>4, <1>5, <1>6

\* A connection that arrives goes to the end of the queue.
LEMMA AppendToQueue ==
  ASSUME NEW S, NEW q \in Seq(S), NEW c \in S, Distinct(q), ~In(c, q)
  PROVE  /\ Append(q, c) \in Seq(S) /\ Distinct(Append(q, c))
         /\ Len(Append(q, c)) = Len(q) + 1
         /\ \A d : In(d, Append(q, c)) <=> d = c \/ In(d, q)
<1> DEFINE r == Append(q, c)
<1>1. /\ Len(q) \in Nat /\ r \in Seq(S) /\ Len(r) = Len(q) + 1
      /\ \A i \in 1..Len(q) : r[i] = q[i]
      /\ r[Len(q) + 1] = c
  BY AppendProperties, LenProperties
<1> HIDE DEF r
<1>2. \A i \in 1..Len(r) : i \in 1..Len(q) \/ i = Len(q) + 1
  BY <1>1
<1>3. Distinct(r)
  BY <1>1, <1>2 DEF Distinct, In
<1>4. \A d : In(d, r) => d = c \/ In(d, q)
  BY <1>1, <1>2 DEF In
<1>5. \A d : d = c \/ In(d, q) => In(d, r)
  <2>1. \A i \in 1..Len(q) : i \in 1..Len(r)
    BY <1>1
  <2>2. Len(q) + 1 \in 1..Len(r)
    BY <1>1
  <2>3. QED
    BY <1>1, <2>1, <2>2 DEF In
<1>6. QED
  BY <1>1, <1>3, <1>4, <1>5 DEF r

\* A connection taken back leaves the others in the queue, in their order.
LEMMA TakenFromQueue ==
  ASSUME NEW S, NEW q \in Seq(S), Distinct(q), NEW m \in 1..Len(q)
  PROVE  /\ SubSeq(q, 1, m - 1) \o SubSeq(q, m + 1, Len(q)) \in Seq(S)
         /\ Distinct(SubSeq(q, 1, m - 1) \o SubSeq(q, m + 1, Len(q)))
         /\ Len(SubSeq(q, 1, m - 1) \o SubSeq(q, m + 1, Len(q))) = Len(q) - 1
         /\ \A c : In(c, SubSeq(q, 1, m - 1) \o SubSeq(q, m + 1, Len(q))) <=> In(c, q) /\ c # q[m]
<1> DEFINE a == SubSeq(q, 1, m - 1)
           b == SubSeq(q, m + 1, Len(q))
           r == a \o b
<1>1. Len(q) \in Nat /\ \A i \in 1..Len(q) : q[i] \in S
  BY LenProperties
<1>2. /\ a \in Seq(S) /\ Len(a) = m - 1
      /\ \A i \in 1..(m - 1) : a[i] = q[i]
  <2>1. \A i \in 1..(m - 1) : q[i] \in S
    BY <1>1
  <2>2. /\ a \in Seq(S) /\ Len(a) = IF 1 <= m - 1 THEN m - 1 - 1 + 1 ELSE 0
        /\ \A i \in 1..(m - 1 - 1 + 1) : a[i] = q[1 + i - 1]
    BY <1>1, <2>1, SubSeqProperties
  <2> HIDE DEF a
  <2>3. QED
    BY <1>1, <2>2
<1>3. /\ b \in Seq(S) /\ Len(b) = Len(q) - m
      /\ \A i \in 1..(Len(q) - m) : b[i] = q[m + i]
  <2>1. \A i \in (m + 1)..Len(q) : q[i] \in S
    BY <1>1
  <2>2. /\ b \in Seq(S)
        /\ Len(b) = IF m + 1 <= Len(q) THEN Len(q) - (m + 1) + 1 ELSE 0
        /\ \A i \in 1..(Len(q) - (m + 1) + 1) : b[i] = q[m + 1 + i - 1]
    BY <1>1, <2>1, SubSeqProperties
  <2> HIDE DEF b
  <2>3. QED
    BY <1>1, <2>2
<1> HIDE DEF a, b
<1>4. /\ r \in Seq(S) /\ Len(r) = Len(q) - 1
      /\ \A i \in 1..Len(r) : r[i] = q[IF i < m THEN i ELSE i + 1]
  <2>1. /\ r \in Seq(S) /\ Len(r) = Len(a) + Len(b)
        /\ \A i \in 1..(Len(a) + Len(b)) : r[i] = IF i <= Len(a) THEN a[i] ELSE b[i - Len(a)]
    BY <1>2, <1>3, ConcatProperties
  <2> HIDE DEF r
  <2>2. Len(r) = Len(q) - 1
    BY <1>1, <1>2, <1>3, <2>1
  <2>3. ASSUME NEW i \in 1..Len(r), i < m
        PROVE  r[i] = q[i]
    <3>1. i \in 1..(m - 1) /\ i <= Len(a) /\ i \in 1..(Len(a) + Len(b))
      BY <1>1, <1>2, <1>3, <2>2, <2>3
    <3>2. QED
      BY <1>2, <2>1, <3>1
  <2>4. ASSUME NEW i \in 1..Len(r), ~(i < m)
        PROVE  r[i] = q[i + 1]
    <3>1. /\ ~(i <= Len(a)) /\ i \in 1..(Len(a) + Len(b))
          /\ i - Len(a) \in 1..(Len(q) - m) /\ m + (i - Len(a)) = i + 1
      BY <1>1, <1>2, <1>3, <2>2, <2>4
    <3>2. QED
      BY <1>3, <2>1, <3>1
  <2>5. QED
    BY <2>1, <2>2, <2>3, <2>4
<1> HIDE DEF r
<1>5. \A i \in 1..Len(r) : (IF i < m THEN i ELSE i + 1) \in 1..Len(q)
  BY <1>1, <1>4
<1>6. \A i, j \in 1..Len(r) :
        (IF i < m THEN i ELSE i + 1) = (IF j < m THEN j ELSE j + 1) => i = j
  BY <1>1, <1>4
<1>7. Distinct(r)
  BY <1>4, <1>5, <1>6 DEF Distinct
<1>8. \A c : In(c, r) => In(c, q) /\ c # q[m]
  <2> SUFFICES ASSUME NEW c, In(c, r)
               PROVE  In(c, q) /\ c # q[m]
    OBVIOUS
  <2>1. PICK i \in 1..Len(r) : r[i] = c
    BY DEF In
  <2>2. PICK k \in 1..Len(q) : k = (IF i < m THEN i ELSE i + 1)
    BY <1>5
  <2>3. q[k] = c /\ k # m
    BY <1>1, <1>4, <2>1, <2>2
  <2>4. QED
    BY <2>3 DEF In, Distinct
<1>9. \A c : In(c, q) /\ c # q[m] => In(c, r)
  <2> SUFFICES ASSUME NEW c, In(c, q), c # q[m]
               PROVE  In(c, r)
    OBVIOUS
  <2>1. PICK k \in 1..Len(q) : q[k] = c
    BY DEF In
  <2>2. k # m
    BY <2>1
  <2>3. PICK i \in 1..Len(r) : k = (IF i < m THEN i ELSE i + 1)
    <3>1. CASE k < m
      <4>1. k \in 1..Len(r)
        BY <1>1, <1>4, <3>1
      <4>2. QED
        BY <3>1, <4>1
    <3>2. CASE ~(k < m)
      <4>1. k - 1 \in 1..Len(r) /\ ~(k - 1 < m) /\ k = (k - 1) + 1
        BY <1>1, <1>4, <2>2, <3>2
      <4>2. QED
        BY <4>1
    <3>3. QED
      BY <3>1, <3>2
  <2>4. r[i] = c
    BY <1>4, <2>1, <2>3
  <2>5. QED
    BY <2>4 DEF In
<1>10. QED
  BY <1>4, <1>7, <1>8, <1>9 DEF r, a, b

-----------------------------------------------------------------------------
(* The inductive invariant.  OneOwner alone is not inductive: that a loop  *)
(* may store a connection in sd without losing one needs the control       *)
(* (Control: sd is -1 except between accept and echo_client_add), and that *)
(* an arriving or accepted connection is nobody's yet needs the queue      *)
(* (Ownership: the queue repeats nothing and holds nothing anyone owns,    *)
(* and whatever anyone owns has arrived).                                  *)

Control ==
  /\ \A t \in Loops :
       /\ sd[t] # NoConn => pc[t] \in {"unlock", "got"}
       /\ pc[t] = "got" => sd[t] # NoConn
       /\ pc[t] \in {"locked", "unlock"} <=> accept_mtx = t
  /\ mainpc \in {"listen", "create"} => pc[Main] = "none"
  /\ \A i \in 1..Len(Threads) : i > created => pc[Threads[i]] = "none"

Ownership ==
  /\ Distinct(queue)
  /\ \A c : In(c, queue) =>
       c \in arrived \ leaked /\ \A t \in Loops : c # sd[t] /\ c \notin clients[t]
  /\ leaked \subseteq arrived
  /\ \A t \in Loops :
       /\ sd[t] \in arrived \union {NoConn} /\ clients[t] \subseteq arrived
       /\ sd[t] \notin leaked /\ clients[t] \intersect leaked = {}
  /\ \A t, u \in Loops :
       /\ sd[t] \notin clients[u]
       /\ t # u => (sd[t] = NoConn \/ sd[t] # sd[u]) /\ clients[t] \intersect clients[u] = {}

ThreadInv == TypeOK /\ Control /\ Ownership

\* How many threads main creates.
LEMMA ThreadCount == Len(Threads) \in Nat /\ 0 \in 0..Len(Threads)
<1>1. Len(Threads) \in Nat
  BY ThreadAssumption
<1>2. QED
  BY <1>1

\* The loops are main and the threads it creates, all different.
LEMMA ThreadFacts ==
  /\ Main \in Loops /\ Free \notin Loops /\ NoConn \notin Conns
  /\ \A i \in 1..Len(Threads) : Threads[i] \in Loops /\ Threads[i] # Main
  /\ \A i, j \in 1..Len(Threads) : Threads[i] = Threads[j] => i = j
  BY ThreadAssumption DEF Loops

\* No connection, no loop: nothing is owned when the program starts.
LEMMA ThreadInit == Init => ThreadInv
<1> SUFFICES ASSUME Init PROVE ThreadInv
  OBVIOUS
<1>1. queue \in Seq(Conns) /\ Len(queue) = 0
  BY EmptySeq DEF Init
<1>2. TypeOK
  BY <1>1, ThreadCount DEF Init, TypeOK
<1>3. Control
  BY ThreadFacts DEF Init, Control
<1>4. Ownership
  <2>1. \A c : ~In(c, queue)
    BY <1>1 DEF In
  <2>2. Distinct(queue)
    BY <1>1 DEF Distinct
  <2>3. QED
    BY <2>1, <2>2, ThreadFacts DEF Init, Ownership
<1>5. QED
  BY <1>2, <1>3, <1>4 DEF ThreadInv

\* An exit leaves nothing owned.
LEMMA ExitStep ==
  ASSUME ThreadInv, Exit
  PROVE  ThreadInv'
<1>1. queue' \in Seq(Conns) /\ Len(queue') = 0
  BY EmptySeq DEF Exit
<1>2. TypeOK'
  BY <1>1, ThreadFacts DEF Exit, ThreadInv, TypeOK
<1>3. Control'
  BY ThreadFacts DEF Exit, ThreadInv, TypeOK, Control
<1>4. Ownership'
  <2>1. \A c : ~In(c, queue')
    BY <1>1 DEF In
  <2>2. Distinct(queue')
    BY <1>1 DEF Distinct
  <2>3. QED
    BY <2>1, <2>2, ThreadFacts DEF Exit, Ownership
<1>5. QED
  BY <1>2, <1>3, <1>4 DEF ThreadInv

\* The connections and the queue do not notice a step that leaves them alone.
LEMMA OwnershipKept ==
  ASSUME Ownership, UNCHANGED <<sd, queue, arrived, clients, leaked>>
  PROVE  Ownership'
  BY DEF Ownership

\* A connection that leaves the queue for loop t and becomes its client, or is
\* forgotten, has one owner.
LEMMA AddOrLeakOwnership ==
  ASSUME TypeOK, Ownership, NEW t \in Loops, NEW c \in Conns, NEW q \in Seq(Conns),
         Distinct(q), \A d : In(d, q) => In(d, queue),
         c \in arrived, c \notin leaked, ~In(c, q),
         \A u \in Loops : c \notin clients[u] /\ c # sd'[u] /\ sd'[u] \in {sd[u], NoConn},
         NoConn \notin Conns,
         queue' = q, arrived' = arrived,
         AddOrLeak(t, c)
  PROVE  /\ Ownership'
         /\ clients' \in [Loops -> SUBSET Conns] /\ leaked' \subseteq Conns
<1>0. \A u \in Loops : clients[u] \subseteq Conns /\ NoConn \notin clients[u]
  BY DEF TypeOK
<1>q. \A d : In(d, queue') => In(d, queue) /\ d # c /\ d \in Conns
  <2> SUFFICES ASSUME NEW d, In(d, q)
               PROVE  In(d, queue) /\ d # c /\ d \in Conns
    OBVIOUS
  <2>1. In(d, queue) /\ d # c
    OBVIOUS
  <2>2. PICK i \in 1..Len(q) : q[i] = d
    BY DEF In
  <2>3. q[i] \in Conns
    BY ElementOfSeq
  <2>4. QED
    BY <2>1, <2>2, <2>3
<1>1. CASE clients' = [clients EXCEPT ![t] = @ \union {c}] /\ UNCHANGED leaked
  <2>1. /\ clients'[t] = clients[t] \union {c}
        /\ \A u \in Loops : u # t => clients'[u] = clients[u]
    BY <1>1 DEF TypeOK
  <2>2. clients' \in [Loops -> SUBSET Conns] /\ leaked' \subseteq Conns
    BY <1>1 DEF TypeOK
  <2>3. \A u \in Loops : sd'[u] \notin clients'[t] /\ (sd'[u] # NoConn => sd'[u] = sd[u])
    BY <1>0, <2>1 DEF Ownership
  <2>4. \A d : In(d, queue') =>
          d \in arrived' \ leaked' /\ \A u \in Loops : d # sd'[u] /\ d \notin clients'[u]
    <3> SUFFICES ASSUME NEW d, In(d, queue')
                 PROVE  d \in arrived' \ leaked' /\ \A u \in Loops : d # sd'[u] /\ d \notin clients'[u]
      OBVIOUS
    <3>1. In(d, queue) /\ d # c /\ d # NoConn
      BY <1>q
    <3>2. QED
      BY <1>1, <2>1, <3>1 DEF Ownership
  <2>5. \A u \in Loops : /\ sd'[u] \in arrived' \union {NoConn} /\ clients'[u] \subseteq arrived'
                         /\ sd'[u] \notin leaked' /\ clients'[u] \intersect leaked' = {}
    <3>1. NoConn \notin leaked
      BY DEF TypeOK
    <3>2. QED
      BY <1>1, <2>1, <3>1 DEF Ownership
  <2>6. \A u, v \in Loops :
          /\ sd'[u] \notin clients'[v]
          /\ u # v => (sd'[u] = NoConn \/ sd'[u] # sd'[v]) /\ clients'[u] \intersect clients'[v] = {}
    BY <1>0, <2>1, <2>3 DEF Ownership
  <2>7. QED
    BY <1>1, <2>2, <2>4, <2>5, <2>6 DEF Ownership
<1>2. CASE leaked' = leaked \union {c} /\ UNCHANGED clients
  <2>1. \A u \in Loops : (sd'[u] # NoConn => sd'[u] = sd[u])
    OBVIOUS
  <2>2. NoConn \notin leaked' /\ leaked' \subseteq Conns /\ clients' \in [Loops -> SUBSET Conns]
    BY <1>2 DEF TypeOK
  <2>4. \A d : In(d, queue') =>
          d \in arrived' \ leaked' /\ \A u \in Loops : d # sd'[u] /\ d \notin clients'[u]
    <3> SUFFICES ASSUME NEW d, In(d, queue')
                 PROVE  d \in arrived' \ leaked' /\ \A u \in Loops : d # sd'[u] /\ d \notin clients'[u]
      OBVIOUS
    <3>1. In(d, queue) /\ d # c /\ d # NoConn
      BY <1>q
    <3>2. QED
      BY <1>2, <3>1 DEF Ownership
  <2>5. \A u \in Loops : /\ sd'[u] \in arrived' \union {NoConn} /\ clients'[u] \subseteq arrived'
                         /\ sd'[u] \notin leaked' /\ clients'[u] \intersect leaked' = {}
    BY <1>2, <2>2 DEF Ownership
  <2>6. \A u, v \in Loops :
          /\ sd'[u] \notin clients'[v]
          /\ u # v => (sd'[u] = NoConn \/ sd'[u] # sd'[v]) /\ clients'[u] \intersect clients'[v] = {}
    BY <1>0, <1>2, <2>1 DEF Ownership
  <2>7. QED
    BY <1>2, <2>2, <2>4, <2>5, <2>6 DEF Ownership
<1>3. QED
  BY <1>1, <1>2 DEF AddOrLeak

\* Every step of main, of a loop and of a peer keeps the invariant.
LEMMA ThreadStep == ThreadInv /\ [Next]_vars => ThreadInv'
<1> SUFFICES ASSUME ThreadInv, [Next]_vars
             PROVE  ThreadInv'
  OBVIOUS
<1>0. TypeOK /\ Control /\ Ownership
  BY DEF ThreadInv
<1>1. CASE echo_socket_listen
  <2>1. CASE mainpc' = "create" /\ UNCHANGED <<program, created, pc, accept_mtx, sd, queue, arrived, clients, leaked>>
    <3>1. TypeOK' /\ Control'
      BY <1>0, <1>1, <2>1 DEF echo_socket_listen, TypeOK, Control
    <3>2. QED
      BY <1>0, <2>1, <3>1, OwnershipKept DEF ThreadInv
  <2>2. QED
    BY <1>1, <2>1, ExitStep DEF echo_socket_listen
<1>2. CASE pthread_create
  <2>1. CASE /\ created' = created + 1
             /\ pc' = [pc EXCEPT ![Threads[created + 1]] = "poll"]
             /\ UNCHANGED <<program, mainpc, accept_mtx, sd, queue, arrived, clients, leaked>>
    <3>1. created \in Nat /\ created + 1 \in 1..Len(Threads) /\ mainpc = "create"
      <4>1. created \in 0..Len(Threads) /\ created < Len(Threads) /\ mainpc = "create"
        BY <1>0, <1>2 DEF pthread_create, TypeOK
      <4>2. QED
        BY <4>1, ThreadCount
    <3>2. PICK m \in Loops : m = Threads[created + 1] /\ m # Main /\ pc[m] = "none"
      BY <1>0, <3>1, ThreadFacts DEF Control
    <3>3. TypeOK'
      <4>1. created' \in 0..Len(Threads)
        BY <2>1, <3>1, ThreadCount
      <4>2. pc' = [pc EXCEPT ![m] = "poll"]
        BY <2>1, <3>2
      <4>3. QED
        BY <1>0, <2>1, <4>1, <4>2 DEF TypeOK
    <3>4. pc'[m] = "poll" /\ \A t \in Loops : t # m => pc'[t] = pc[t]
      BY <1>0, <2>1, <3>2 DEF TypeOK
    <3>5. \A i \in 1..Len(Threads) : i > created' => i > created /\ Threads[i] # m
      BY <2>1, <3>1, <3>2, ThreadFacts
    <3>6. Control'
      BY <1>0, <2>1, <3>1, <3>2, <3>4, <3>5, ThreadFacts DEF Control
    <3>7. QED
      BY <1>0, <2>1, <3>3, <3>6, OwnershipKept DEF ThreadInv
  <2>2. QED
    BY <1>2, <2>1, ExitStep DEF pthread_create
<1>3. CASE main_thread_func \/ (echo_server_listen /\ ~Exit)
  <2>1. /\ mainpc' = "run" /\ pc' = [pc EXCEPT ![Main] = "poll"]
        /\ mainpc \in {"listen", "create"}
        /\ UNCHANGED <<program, created, accept_mtx, sd, queue, arrived, clients, leaked>>
    BY <1>3 DEF main_thread_func, echo_server_listen
  <2>2. TypeOK'
    BY <1>0, <2>1 DEF TypeOK
  <2>3. pc'[Main] = "poll" /\ pc[Main] = "none" /\ \A t \in Loops : t # Main => pc'[t] = pc[t]
    <3>1. pc[Main] = "none"
      BY <1>0, <2>1 DEF Control
    <3>2. pc'[Main] = "poll" /\ \A t \in Loops : t # Main => pc'[t] = pc[t]
      BY <1>0, <2>1, ThreadFacts DEF TypeOK
    <3>3. QED
      BY <3>1, <3>2
  <2>4. Control'
    BY <1>0, <2>1, <2>3, ThreadFacts DEF Control
  <2>5. QED
    BY <1>0, <2>1, <2>2, <2>4, OwnershipKept DEF ThreadInv
<1>4. CASE echo_server_listen /\ Exit
  BY <1>4, ExitStep
<1>5. CASE echo_server_wcb_accept
  <2>1. /\ pc[Main] = "woken" /\ pc' = [pc EXCEPT ![Main] = "poll"]
        /\ UNCHANGED <<program, mainpc, created, accept_mtx, sd, arrived>>
    BY <1>5 DEF echo_server_wcb_accept
  <2>2. pc'[Main] = "poll" /\ \A t \in Loops : t # Main => pc'[t] = pc[t]
    BY <1>0, <2>1, ThreadFacts DEF TypeOK
  <2>3. Control'
    BY <1>0, <2>1, <2>2, ThreadFacts DEF Control
  <2>4. CASE UNCHANGED <<queue, clients, leaked>>
    BY <1>0, <2>1, <2>3, <2>4, OwnershipKept DEF ThreadInv, TypeOK
  <2>5. CASE CanAccept /\ queue' = Tail(queue) /\ AddOrLeak(Main, Head(queue))
    <3>1. PICK q \in Seq(Conns) : q = queue
      BY <1>0 DEF TypeOK
    <3>2. q # <<>> /\ Distinct(q)
      BY <1>0, <2>5, <3>1 DEF CanAccept, Ownership
    <3>3. /\ Head(q) \in Conns /\ In(Head(q), q)
          /\ Tail(q) \in Seq(Conns) /\ Distinct(Tail(q)) /\ ~In(Head(q), Tail(q))
          /\ \A c : In(c, Tail(q)) => In(c, q)
      BY <3>2, TailOfQueue
    <3>4. PICK c \in Conns, r \in Seq(Conns) : c = Head(q) /\ r = Tail(q)
      BY <3>3
    <3>5. /\ c \in arrived /\ c \notin leaked
          /\ \A u \in Loops : c \notin clients[u] /\ c # sd'[u] /\ sd'[u] \in {sd[u], NoConn}
      BY <1>0, <2>1, <3>1, <3>3, <3>4 DEF Ownership
    <3>6. /\ queue' = r /\ AddOrLeak(Main, c) /\ Distinct(r) /\ ~In(c, r)
          /\ \A d : In(d, r) => In(d, queue)
      BY <2>5, <3>1, <3>3, <3>4
    <3>7. Ownership' /\ clients' \in [Loops -> SUBSET Conns] /\ leaked' \subseteq Conns
      BY <1>0, <2>1, <3>5, <3>6, ThreadFacts, AddOrLeakOwnership
    <3>8. TypeOK'
      BY <1>0, <2>1, <3>6, <3>7 DEF TypeOK
    <3>9. QED
      BY <2>3, <3>7, <3>8 DEF ThreadInv
  <2>6. QED
    BY <1>5, <2>4, <2>5 DEF echo_server_wcb_accept
<1>6. ASSUME NEW t \in Loops, Wake(t) \/ pthread_mutex_lock(t)
      PROVE  ThreadInv'
  <2>1. /\ pc'[t] \in {"woken", "locked"} /\ pc[t] \in {"poll", "woken"}
        /\ \A u \in Loops : u # t => pc'[u] = pc[u]
        /\ TypeOK'
    BY <1>0, <1>6 DEF Wake, pthread_mutex_lock, TypeOK
  <2>2. Control'
    <3>1. /\ UNCHANGED <<mainpc, created, sd>>
          /\ pc[t] # "none" /\ pc'[t] # "none"
          /\ accept_mtx' = IF pc'[t] = "locked" THEN t ELSE accept_mtx
          /\ pc'[t] = "locked" => accept_mtx = Free
      BY <1>0, <1>6, <2>1 DEF Wake, pthread_mutex_lock, TypeOK
    <3>2. \A u \in Loops : pc'[u] \in {"locked", "unlock"} <=> accept_mtx' = u
      BY <1>0, <2>1, <3>1, ThreadFacts DEF Control
    <3>3. \A u \in Loops : /\ sd'[u] # NoConn => pc'[u] \in {"unlock", "got"}
                           /\ pc'[u] = "got" => sd'[u] # NoConn
      BY <1>0, <2>1, <3>1 DEF Control
    <3>4. mainpc' \in {"listen", "create"} => pc'[Main] = "none"
      BY <1>0, <2>1, <3>1, ThreadFacts DEF Control
    <3>5. \A i \in 1..Len(Threads) : i > created' => pc'[Threads[i]] = "none"
      BY <1>0, <2>1, <3>1, ThreadFacts DEF Control
    <3>6. QED
      BY <3>2, <3>3, <3>4, <3>5 DEF Control
  <2>3. QED
    BY <1>0, <1>6, <2>1, <2>2, OwnershipKept DEF ThreadInv, Wake, pthread_mutex_lock
<1>7. ASSUME NEW t \in Loops, accept(t)
      PROVE  ThreadInv'
  <2>1. /\ pc[t] = "locked" /\ pc'[t] = "unlock" /\ sd[t] = NoConn
        /\ pc' \in [Loops -> {"none", "poll", "woken", "locked", "unlock", "got"}]
        /\ \A u \in Loops : u # t => pc'[u] = pc[u]
        /\ UNCHANGED <<program, mainpc, created, accept_mtx, arrived, clients, leaked>>
    BY <1>0, <1>7 DEF accept, TypeOK, Control
  <2>2. CASE UNCHANGED <<sd, queue>>
    <3>1. TypeOK'
      BY <1>0, <2>1, <2>2 DEF TypeOK
    <3>2. Control'
      BY <1>0, <2>1, <2>2, ThreadFacts DEF Control
    <3>3. QED
      BY <1>0, <2>1, <2>2, <3>1, <3>2, OwnershipKept DEF ThreadInv
  <2>3. CASE CanAccept /\ sd' = [sd EXCEPT ![t] = Head(queue)] /\ queue' = Tail(queue)
    <3>1. PICK q \in Seq(Conns) : q = queue
      BY <1>0 DEF TypeOK
    <3>2. q # <<>> /\ Distinct(q)
      BY <1>0, <2>3, <3>1 DEF CanAccept, Ownership
    <3>3. /\ Head(q) \in Conns /\ In(Head(q), q)
          /\ Tail(q) \in Seq(Conns) /\ Distinct(Tail(q)) /\ ~In(Head(q), Tail(q))
          /\ \A c : In(c, Tail(q)) => In(c, q)
      BY <3>2, TailOfQueue
    <3>4. /\ sd'[t] = Head(q) /\ sd' \in [Loops -> Conns \union {NoConn}]
          /\ \A u \in Loops : u # t => sd'[u] = sd[u]
          /\ queue' = Tail(q)
      BY <1>0, <2>3, <3>1, <3>3 DEF TypeOK
    <3>5. TypeOK'
      BY <1>0, <2>1, <3>3, <3>4 DEF TypeOK
    <3>6. Control'
      BY <1>0, <2>1, <3>4, ThreadFacts DEF Control
    <3>7. Head(q) # NoConn
      BY <3>3, ThreadFacts
    <3>8. Ownership'
      <4>1. /\ Head(q) \in arrived \ leaked
            /\ \A u \in Loops : Head(q) # sd[u] /\ Head(q) \notin clients[u]
        BY <1>0, <3>1, <3>3 DEF Ownership
      <4>2. Distinct(queue') /\ leaked' \subseteq arrived'
        BY <1>0, <2>1, <3>3, <3>4 DEF Ownership
      <4>3. \A c : In(c, queue') =>
              c \in arrived' \ leaked' /\ \A u \in Loops : c # sd'[u] /\ c \notin clients'[u]
        <5> SUFFICES ASSUME NEW c, In(c, Tail(q))
                     PROVE  c \in arrived' \ leaked' /\ \A u \in Loops : c # sd'[u] /\ c \notin clients'[u]
          BY <3>4
        <5>1. In(c, queue) /\ c # Head(q)
          BY <3>1, <3>3
        <5>2. c \in arrived \ leaked /\ \A u \in Loops : c # sd[u] /\ c \notin clients[u]
          BY <1>0, <5>1 DEF Ownership
        <5>3. QED
          BY <2>1, <3>4, <5>1, <5>2
      <4>4. \A u \in Loops : /\ sd'[u] \in arrived' \union {NoConn} /\ clients'[u] \subseteq arrived'
                             /\ sd'[u] \notin leaked' /\ clients'[u] \intersect leaked' = {}
        BY <1>0, <2>1, <3>4, <4>1 DEF Ownership
      <4>5. \A u, v \in Loops :
              /\ sd'[u] \notin clients'[v]
              /\ u # v => (sd'[u] = NoConn \/ sd'[u] # sd'[v]) /\ clients'[u] \intersect clients'[v] = {}
        BY <1>0, <2>1, <3>4, <4>1 DEF Ownership
      <4>6. QED
        BY <4>2, <4>3, <4>4, <4>5 DEF Ownership
    <3>9. QED
      BY <3>5, <3>6, <3>8 DEF ThreadInv
  <2>4. QED
    BY <1>7, <2>2, <2>3 DEF accept
<1>8. ASSUME NEW t \in Loops, pthread_mutex_unlock(t)
      PROVE  ThreadInv'
  <2>1. /\ pc[t] = "unlock" /\ pc'[t] = IF sd[t] = NoConn THEN "poll" ELSE "got"
        /\ \A u \in Loops : u # t => pc'[u] = pc[u]
        /\ accept_mtx = t /\ TypeOK'
    BY <1>0, <1>8 DEF pthread_mutex_unlock, TypeOK, Control
  <2>2. Control'
    <3>1. /\ UNCHANGED <<mainpc, created, sd>>
          /\ pc[t] # "none" /\ pc'[t] # "none"
          /\ accept_mtx' = Free
          /\ accept_mtx = t
      BY <1>8, <2>1 DEF pthread_mutex_unlock
    <3>2. \A u \in Loops : pc'[u] \in {"locked", "unlock"} <=> accept_mtx' = u
      BY <1>0, <2>1, <3>1, ThreadFacts DEF Control
    <3>3. \A u \in Loops : /\ sd'[u] # NoConn => pc'[u] \in {"unlock", "got"}
                           /\ pc'[u] = "got" => sd'[u] # NoConn
      BY <1>0, <2>1, <3>1 DEF Control
    <3>4. mainpc' \in {"listen", "create"} => pc'[Main] = "none"
      BY <1>0, <2>1, <3>1, ThreadFacts DEF Control
    <3>5. \A i \in 1..Len(Threads) : i > created' => pc'[Threads[i]] = "none"
      BY <1>0, <2>1, <3>1, ThreadFacts DEF Control
    <3>6. QED
      BY <3>2, <3>3, <3>4, <3>5 DEF Control
  <2>3. QED
    BY <1>0, <1>8, <2>1, <2>2, OwnershipKept DEF ThreadInv, pthread_mutex_unlock
<1>9. ASSUME NEW t \in Loops, Accepted(t)
      PROVE  ThreadInv'
  <2>1. /\ pc[t] = "got" /\ pc'[t] = "poll" /\ sd'[t] = NoConn /\ sd[t] # NoConn
        /\ \A u \in Loops : u # t => pc'[u] = pc[u] /\ sd'[u] = sd[u]
        /\ UNCHANGED <<program, mainpc, created, accept_mtx, queue, arrived>>
        /\ pc' \in [Loops -> {"none", "poll", "woken", "locked", "unlock", "got"}]
        /\ sd' \in [Loops -> Conns \union {NoConn}]
    BY <1>0, <1>9 DEF Accepted, TypeOK, Control
  <2>2. Control'
    BY <1>0, <2>1, ThreadFacts DEF Control
  <2>3. PICK c \in Conns : c = sd[t]
    BY <1>0, <2>1 DEF TypeOK
  <2>4. PICK q \in Seq(Conns) : q = queue
    BY <1>0 DEF TypeOK
  <2>5. /\ c \in arrived /\ c \notin leaked /\ ~In(c, q) /\ Distinct(q)
        /\ \A u \in Loops : c \notin clients[u] /\ c # sd'[u] /\ sd'[u] \in {sd[u], NoConn}
    BY <1>0, <2>1, <2>3, <2>4 DEF Ownership
  <2>6. /\ queue' = q /\ AddOrLeak(t, c)
        /\ \A d : In(d, q) => In(d, queue)
    BY <1>9, <2>1, <2>3, <2>4 DEF Accepted
  <2>7. Ownership' /\ clients' \in [Loops -> SUBSET Conns] /\ leaked' \subseteq Conns
    BY <1>0, <2>1, <2>5, <2>6, ThreadFacts, AddOrLeakOwnership
  <2>8. TypeOK'
    BY <1>0, <2>1, <2>6, <2>7 DEF TypeOK
  <2>9. QED
    BY <2>2, <2>7, <2>8 DEF ThreadInv
<1>10. ASSUME NEW t \in Loops, ClientEnds(t)
       PROVE  ThreadInv'
  <2>1. PICK c \in clients[t] : clients' = [clients EXCEPT ![t] = @ \ {c}]
    BY <1>10 DEF ClientEnds
  <2>2. UNCHANGED <<program, mainpc, created, pc, accept_mtx, sd, queue, arrived, leaked>>
    BY <1>10 DEF ClientEnds
  <2>3. \A u \in Loops : clients'[u] \subseteq clients[u]
    BY <1>0, <2>1 DEF TypeOK
  <2>4. TypeOK' /\ Control'
    BY <1>0, <2>1, <2>2 DEF TypeOK, Control
  <2>5. Ownership'
    BY <1>0, <2>2, <2>3 DEF Ownership
  <2>6. QED
    BY <2>4, <2>5 DEF ThreadInv
<1>11. ASSUME NEW c \in Conns, PeerConnects(c)
       PROVE  ThreadInv'
  <2>1. /\ c \notin arrived /\ arrived' = arrived \union {c}
        /\ UNCHANGED <<program, mainpc, created, pc, accept_mtx, sd, clients, leaked>>
        /\ queue' = Append(queue, c) \/ queue' = queue
    BY <1>11 DEF PeerConnects
  <2>2. PICK q \in Seq(Conns) : q = queue
    BY <1>0 DEF TypeOK
  <2>3. Distinct(q) /\ ~In(c, q)
    BY <1>0, <2>1, <2>2 DEF Ownership
  <2>4. /\ Append(q, c) \in Seq(Conns) /\ Distinct(Append(q, c))
        /\ \A d : In(d, Append(q, c)) => d = c \/ In(d, q)
    BY <2>3, AppendToQueue
  <2>5. PICK r \in Seq(Conns) : r = queue'
    BY <2>1, <2>2, <2>4
  <2>6. Distinct(r) /\ \A d : In(d, r) => d = c \/ In(d, queue)
    BY <2>1, <2>2, <2>3, <2>4, <2>5
  <2>7. TypeOK' /\ Control'
    BY <1>0, <2>1, <2>5 DEF TypeOK, Control
  <2>8. c \notin leaked /\ \A t \in Loops : c # sd[t] /\ c \notin clients[t]
    BY <1>0, <2>1, ThreadFacts DEF Ownership
  <2>9. Ownership'
    BY <1>0, <2>1, <2>5, <2>6, <2>8 DEF Ownership
  <2>10. QED
    BY <2>7, <2>9 DEF ThreadInv
<1>12. ASSUME NEW c \in Conns, PeerGivesUp(c)
       PROVE  ThreadInv'
  <2>1. PICK m \in 1..Len(queue) :
          queue' = SubSeq(queue, 1, m - 1) \o SubSeq(queue, m + 1, Len(queue))
    BY <1>12 DEF PeerGivesUp
  <2>2. PICK q \in Seq(Conns) : q = queue
    BY <1>0 DEF TypeOK
  <2>3. Distinct(q) /\ m \in 1..Len(q)
    BY <1>0, <2>1, <2>2 DEF Ownership
  <2>4. PICK r \in Seq(Conns) : /\ r = SubSeq(q, 1, m - 1) \o SubSeq(q, m + 1, Len(q))
                                /\ Distinct(r) /\ \A d : In(d, r) => In(d, q)
    BY <2>3, TakenFromQueue
  <2>5. queue' = r
    BY <2>1, <2>2, <2>4
  <2>6. UNCHANGED <<program, mainpc, created, pc, accept_mtx, sd, arrived, clients, leaked>>
    BY <1>12 DEF PeerGivesUp
  <2>7. TypeOK' /\ Control'
    BY <1>0, <2>5, <2>6 DEF TypeOK, Control
  <2>8. Ownership'
    BY <1>0, <2>2, <2>4, <2>5, <2>6 DEF Ownership
  <2>9. QED
    BY <2>7, <2>8 DEF ThreadInv
<1>13. CASE UNCHANGED vars
  <2>1. TypeOK' /\ Control'
    BY <1>0, <1>13 DEF vars, TypeOK, Control
  <2>2. QED
    BY <1>0, <1>13, <2>1, OwnershipKept DEF vars, ThreadInv
<1>14. QED
  BY <1>1, <1>2, <1>3, <1>4, <1>5, <1>6, <1>7, <1>8, <1>9, <1>10, <1>11, <1>12, <1>13
     DEF Next, LoopStep

\* Every accepted connection has one owner, for every number of threads,
\* connections and descriptors: the loops echo_server_wcb_accept wakes for the
\* same connection never both end up with it.
THEOREM ConnectionHasOneOwner == Spec => []OneOwner
<1>1. ThreadInv => OneOwner
  <2> SUFFICES ASSUME ThreadInv PROVE OneOwner
    OBVIOUS
  <2>1. \A t \in Loops : leaked \intersect clients[t] = {} /\ sd[t] \notin leaked
    BY DEF ThreadInv, Ownership
  <2>2. leaked \intersect (Served \union InHand) = {}
    BY <2>1 DEF Served, InHand
  <2>3. \A c \in OpenFds : ~In(c, queue)
    BY DEF ThreadInv, Ownership, OpenFds, Served, InHand
  <2>4. \A c \in OpenFds : ~Queued(c)
    BY <2>3 DEF In, Queued
  <2>5. QED
    BY <2>2, <2>4 DEF ThreadInv, Ownership, OneOwner
<1>2. QED
  BY <1>1, ThreadInit, ThreadStep, PTL DEF Spec

\* accept_mtx does what thread.c and thread-honest.c take it for: of all the
\* loops a connection wakes, at most one is between the lock and the unlock.
THEOREM AcceptIsExclusive ==
  Spec => [](\A t, u \in Loops :
               pc[t] \in {"locked", "unlock"} /\ pc[u] \in {"locked", "unlock"} => t = u)
<1>1. ThreadInv => \A t, u \in Loops :
        pc[t] \in {"locked", "unlock"} /\ pc[u] \in {"locked", "unlock"} => t = u
  BY DEF ThreadInv, Control
<1>2. QED
  BY <1>1, ThreadInit, ThreadStep, PTL DEF Spec

\* A loop keeps its clients: a served connection stays where it is or is gone,
\* and never comes back to a queue, a hand, another loop or the leaked ones.
LEMMA ClientStays ==
  ASSUME ThreadInv, [Next]_vars, NEW t \in Loops, NEW c \in clients[t]
  PROVE  /\ c \notin leaked' /\ ~In(c, queue')
         /\ \A u \in Loops : c # sd'[u] /\ (u # t => c \notin clients'[u])
<1>1. /\ c \in Conns /\ c \in arrived /\ c \notin leaked /\ ~In(c, queue) /\ c # NoConn
      /\ \A u \in Loops : c # sd[u] /\ (u # t => c \notin clients[u])
  <2>1. TypeOK /\ Ownership
    BY DEF ThreadInv
  <2>2. c \in Conns /\ c # NoConn
    BY <2>1, ThreadFacts DEF TypeOK
  <2>3. c \in arrived /\ c \notin leaked /\ ~In(c, queue)
    BY <2>1 DEF Ownership
  <2>4. \A u \in Loops : c # sd[u] /\ (u # t => c \notin clients[u])
    BY <2>1 DEF Ownership
  <2>5. QED
    BY <2>2, <2>3, <2>4
<1>2. TypeOK
  BY DEF ThreadInv
<1>3. PICK q \in Seq(Conns) : q = queue
  BY <1>2 DEF TypeOK
<1>4. Distinct(q) /\ ~In(c, q)
  BY <1>1, <1>3 DEF ThreadInv, Ownership
<1>5. q # <<>> => c # Head(q) /\ ~In(c, Tail(q))
  BY <1>4, TailOfQueue
<1>6. ASSUME NEW u \in Loops, NEW d, AddOrLeak(u, d), c # d
      PROVE  c \notin leaked' /\ \A v \in Loops : v # t => c \notin clients'[v]
  <2>1. clients \in [Loops -> SUBSET Conns]
    BY <1>2 DEF TypeOK
  <2>2. CASE clients' = [clients EXCEPT ![u] = @ \union {d}] /\ leaked' = leaked
    <3>1. \A v \in Loops : clients'[v] \subseteq clients[v] \union {d}
      BY <2>1, <2>2
    <3>2. QED
      BY <1>1, <1>6, <2>2, <3>1
  <2>3. CASE leaked' = leaked \union {d} /\ clients' = clients
    BY <1>1, <1>6, <2>3
  <2>4. QED
    BY <1>6, <2>2, <2>3 DEF AddOrLeak
<1>7. CASE Exit
  <2>1. queue' \in Seq(Conns) /\ Len(queue') = 0
    BY <1>7, EmptySeq DEF Exit
  <2>2. ~In(c, queue')
    BY <2>1 DEF In
  <2>3. QED
    BY <1>1, <1>7, <2>2 DEF Exit
<1>8. CASE UNCHANGED <<sd, queue, clients, leaked>>
  BY <1>1, <1>8
<1>9. ASSUME NEW u \in Loops, accept(u)
      PROVE  /\ c \notin leaked' /\ ~In(c, queue')
             /\ \A v \in Loops : c # sd'[v] /\ (v # t => c \notin clients'[v])
  <2>1. CASE UNCHANGED <<sd, queue>>
    BY <1>1, <1>9, <2>1 DEF accept
  <2>2. CASE sd' = [sd EXCEPT ![u] = Head(queue)] /\ queue' = Tail(queue) /\ queue # <<>>
    BY <1>1, <1>2, <1>3, <1>5, <1>9, <2>2 DEF accept, TypeOK
  <2>3. QED
    BY <1>9, <2>1, <2>2 DEF accept, CanAccept
<1>10. ASSUME NEW u \in Loops, Accepted(u)
       PROVE  /\ c \notin leaked' /\ ~In(c, queue')
              /\ \A v \in Loops : c # sd'[v] /\ (v # t => c \notin clients'[v])
  <2>1. PICK d : d = sd[u] /\ AddOrLeak(u, d) /\ c # d
    BY <1>1, <1>10 DEF Accepted
  <2>2. c \notin leaked' /\ \A v \in Loops : v # t => c \notin clients'[v]
    BY <1>6, <2>1
  <2>3. QED
    BY <1>1, <1>2, <1>10, <2>2 DEF Accepted, TypeOK
<1>11. CASE echo_server_wcb_accept
  <2>1. CASE UNCHANGED <<queue, clients, leaked>>
    BY <1>1, <1>11, <2>1 DEF echo_server_wcb_accept
  <2>2. CASE queue # <<>> /\ queue' = Tail(queue) /\ AddOrLeak(Main, Head(queue))
    <3>1. PICK d : d = Head(queue) /\ AddOrLeak(Main, d) /\ c # d
      BY <1>3, <1>5, <2>2
    <3>2. c \notin leaked' /\ \A v \in Loops : v # t => c \notin clients'[v]
      BY <1>6, <3>1, ThreadFacts
    <3>3. QED
      BY <1>1, <1>3, <1>5, <1>11, <2>2, <3>2 DEF echo_server_wcb_accept
  <2>3. QED
    BY <1>11, <2>1, <2>2 DEF echo_server_wcb_accept, CanAccept
<1>12. ASSUME NEW u \in Loops, ClientEnds(u)
       PROVE  /\ c \notin leaked' /\ ~In(c, queue')
              /\ \A v \in Loops : c # sd'[v] /\ (v # t => c \notin clients'[v])
  <2>1. \A v \in Loops : clients'[v] \subseteq clients[v]
    BY <1>2, <1>12 DEF ClientEnds, TypeOK
  <2>2. QED
    BY <1>1, <1>12, <2>1 DEF ClientEnds
<1>13. ASSUME NEW d \in Conns, PeerConnects(d)
       PROVE  /\ c \notin leaked' /\ ~In(c, queue')
              /\ \A v \in Loops : c # sd'[v] /\ (v # t => c \notin clients'[v])
  <2>1. d # c /\ queue' \in {queue, Append(queue, d)} /\ UNCHANGED <<sd, clients, leaked>>
    BY <1>1, <1>13 DEF PeerConnects
  <2>2. ~In(d, q)
    BY <1>3, <1>13 DEF PeerConnects, ThreadInv, Ownership
  <2>3. ~In(c, Append(q, d))
    BY <1>4, <2>1, <2>2, AppendToQueue
  <2>4. QED
    BY <1>1, <1>3, <2>1, <2>3
<1>14. ASSUME NEW d \in Conns, PeerGivesUp(d)
       PROVE  /\ c \notin leaked' /\ ~In(c, queue')
              /\ \A v \in Loops : c # sd'[v] /\ (v # t => c \notin clients'[v])
  <2>1. PICK m \in 1..Len(q) : queue' = SubSeq(q, 1, m - 1) \o SubSeq(q, m + 1, Len(q))
    BY <1>3, <1>14 DEF PeerGivesUp
  <2>2. ~In(c, SubSeq(q, 1, m - 1) \o SubSeq(q, m + 1, Len(q)))
    BY <1>4, TakenFromQueue
  <2>3. QED
    BY <1>1, <1>14, <2>1, <2>2 DEF PeerGivesUp
<1>15. ASSUME NEW u \in Loops, LoopStep(u)
       PROVE  /\ c \notin leaked' /\ ~In(c, queue')
              /\ \A v \in Loops : c # sd'[v] /\ (v # t => c \notin clients'[v])
  <2>1. CASE Wake(u) \/ pthread_mutex_lock(u) \/ pthread_mutex_unlock(u)
    BY <1>8, <2>1 DEF Wake, pthread_mutex_lock, pthread_mutex_unlock
  <2>2. QED
    BY <1>9, <1>10, <1>15, <2>1 DEF LoopStep
<1>16. CASE echo_socket_listen \/ pthread_create \/ main_thread_func \/ echo_server_listen
  BY <1>7, <1>8, <1>16 DEF echo_socket_listen, pthread_create, main_thread_func, echo_server_listen
<1>17. CASE UNCHANGED vars
  BY <1>8, <1>17 DEF vars
<1>18. QED
  BY <1>11, <1>12, <1>13, <1>14, <1>15, <1>16, <1>17 DEF Next

\* Who is written down as a client of a loop is that loop's alone until it ends:
\* no other thread, which has no lock for it, ever gets to see it.
THEOREM ClientStaysWithItsLoop ==
  Spec => [][\A t \in Loops : \A c \in clients[t] :
               /\ c \notin leaked' /\ ~In(c, queue')
               /\ \A u \in Loops : c # sd'[u] /\ (u # t => c \notin clients'[u])]_vars
<1> DEFINE Stays == \A t \in Loops : \A c \in clients[t] :
                      /\ c \notin leaked' /\ ~In(c, queue')
                      /\ \A u \in Loops : c # sd'[u] /\ (u # t => c \notin clients'[u])
<1>1. ThreadInv /\ [Next]_vars => Stays
  BY ClientStays
<1> HIDE DEF Stays
<1>2. ThreadInv /\ [Next]_vars => [Stays]_vars
  BY <1>1
<1>3. Spec => [][Stays]_vars
  BY <1>2, ThreadInit, ThreadStep, PTL DEF Spec
<1>4. QED
  BY <1>3 DEF Stays

-----------------------------------------------------------------------------
(* The loops do not wait for each other for ever.                          *)

\* Main's loop is there once main runs, and nothing waits in a socket that is not.
MainServes ==
  /\ mainpc = "run" => pc[Main] # "none"
  /\ mainpc \in {"listen", "exited"} => queue = <<>>

\* Loop t is not waiting for anybody: the conditions of the steps of LoopStep
\* and of the callback of the one-loop servers.
CanMove(t) ==
  \/ pc[t] = "poll" /\ queue # <<>>
  \/ program = "threads" /\ pc[t] = "woken" /\ accept_mtx = Free
  \/ pc[t] \in {"locked", "unlock", "got"}
  \/ program = "one loop" /\ t = Main /\ pc[t] = "woken"

\* Every step keeps it.
LEMMA MainServesStep == ThreadInv /\ MainServes /\ [Next]_vars => MainServes'
<1> SUFFICES ASSUME ThreadInv, MainServes, [Next]_vars PROVE MainServes'
  OBVIOUS
<1>1. /\ pc \in [Loops -> {"none", "poll", "woken", "locked", "unlock", "got"}]
      /\ Main \in Loops
  BY ThreadFacts DEF ThreadInv, TypeOK
<1>2. CASE Exit
  BY <1>2 DEF Exit, MainServes
<1>3. CASE echo_socket_listen \/ pthread_create
  BY <1>2, <1>3 DEF echo_socket_listen, pthread_create, MainServes
<1>4. CASE main_thread_func \/ echo_server_listen
  BY <1>1, <1>2, <1>4 DEF main_thread_func, echo_server_listen, MainServes
<1>5. ASSUME NEW t \in Loops, Wake(t) \/ pthread_mutex_lock(t) \/ pthread_mutex_unlock(t) \/ Accepted(t)
      PROVE  MainServes'
  <2>1. UNCHANGED <<mainpc, queue>>
    BY <1>5 DEF Wake, pthread_mutex_lock, pthread_mutex_unlock, Accepted
  <2>2. PICK p \in {"poll", "woken", "locked", "got"} : pc' = [pc EXCEPT ![t] = p]
    BY <1>5 DEF Wake, pthread_mutex_lock, pthread_mutex_unlock, Accepted
  <2>3. pc[Main] # "none" => pc'[Main] # "none"
    BY <1>1, <2>2
  <2>4. QED
    BY <2>1, <2>3 DEF MainServes
<1>6. ASSUME NEW t \in Loops, accept(t) PROVE MainServes'
  <2>1. mainpc' = mainpc /\ (queue = <<>> => queue' = <<>>)
    BY <1>6 DEF accept, CanAccept
  <2>2. pc[Main] # "none" => pc'[Main] # "none"
    BY <1>1, <1>6 DEF accept
  <2>3. QED
    BY <2>1, <2>2 DEF MainServes
<1>7. CASE echo_server_wcb_accept
  <2>1. mainpc' = mainpc /\ (queue = <<>> => queue' = <<>>)
    BY <1>7 DEF echo_server_wcb_accept, CanAccept
  <2>2. pc'[Main] # "none"
    BY <1>1, <1>7 DEF echo_server_wcb_accept
  <2>3. QED
    BY <2>1, <2>2 DEF MainServes
<1>8. ASSUME NEW t \in Loops, ClientEnds(t) PROVE MainServes'
  BY <1>8 DEF ClientEnds, MainServes
<1>9. ASSUME NEW c \in Conns, PeerConnects(c) PROVE MainServes'
  BY <1>9 DEF PeerConnects, Alive, MainServes
<1>10. ASSUME NEW c \in Conns, PeerGivesUp(c) PROVE MainServes'
  <2>1. queue # <<>> /\ UNCHANGED <<mainpc, pc>>
    <3>1. PICK i \in 1..Len(queue) : TRUE
      BY <1>10 DEF PeerGivesUp
    <3>2. Len(<<>>) = 0
      BY EmptySeq
    <3>3. QED
      BY <1>10, <3>1, <3>2 DEF PeerGivesUp
  <2>2. QED
    BY <2>1 DEF MainServes
<1>11. CASE UNCHANGED vars
  BY <1>11 DEF vars, MainServes
<1>12. QED
  BY <1>3, <1>4, <1>5, <1>6, <1>7, <1>8, <1>9, <1>10, <1>11 DEF Next, LoopStep

\* While a connection waits, main is still creating threads or some loop can go
\* on: not all of them wait for the mutex, because the loop that holds it, though
\* its accept may fail, is on its way to the unlock.
THEOREM AcceptNeverStalls ==
  Spec => [](queue # <<>> => mainpc = "create" \/ \E t \in Loops : CanMove(t))
<1>1. Init => MainServes
  BY DEF Init, MainServes
<1>2. ThreadInv /\ MainServes => (queue # <<>> => mainpc = "create" \/ \E t \in Loops : CanMove(t))
  <2> SUFFICES ASSUME ThreadInv, MainServes, queue # <<>>, mainpc # "create"
               PROVE  \E t \in Loops : CanMove(t)
    OBVIOUS
  <2>1. TypeOK /\ Control
    BY DEF ThreadInv
  <2>2. Main \in Loops /\ pc[Main] \in {"poll", "woken", "locked", "unlock", "got"}
    BY <2>1, ThreadFacts DEF MainServes, TypeOK
  <2>3. CASE pc[Main] # "woken" \/ program = "one loop"
    BY <2>1, <2>2, <2>3 DEF CanMove, TypeOK
  <2>4. CASE pc[Main] = "woken" /\ program = "threads"
    <3>1. CASE accept_mtx = Free
      BY <2>2, <2>4, <3>1 DEF CanMove
    <3>2. CASE accept_mtx # Free
      <4>1. PICK u \in Loops : u = accept_mtx
        BY <2>1, <3>2 DEF TypeOK
      <4>2. pc[u] \in {"locked", "unlock"}
        BY <2>1, <4>1 DEF Control
      <4>3. QED
        BY <4>2 DEF CanMove
    <3>3. QED
      BY <3>1, <3>2
  <2>5. QED
    BY <2>1, <2>3, <2>4 DEF TypeOK
<1>3. QED
  BY <1>1, <1>2, ThreadInit, ThreadStep, MainServesStep, PTL DEF Spec

-----------------------------------------------------------------------------
(* The Perl server.                                                        *)

\* The connections of the arrays a and the states st of the connections: an open
\* connection is in one array, once, and nothing else is in any.
Placed(a, st) ==
  /\ \A w \in Workers : Distinct(a[w])
  /\ \A w \in Workers : \A c : In(c, a[w]) => st[c] = "open"
  /\ \A v, w \in Workers : \A c : In(c, a[v]) /\ In(c, a[w]) => v = w
  /\ \A c \in Sockets : st[c] = "open" => \E w \in Workers : In(c, a[w])

\* A connection waits once, and is in no array meanwhile.
Waiting(q, st) == Distinct(q) /\ \A c : In(c, q) => st[c] = "queued"

\* A worker's array is no longer than the slots it has spent.
Slots == \A w \in Workers : Len(s[w]) + nConnects[w] <= MaxConnect

PerlInv == PerlTypeOK /\ Placed(s, state) /\ Waiting(pending, state) /\ Slots

States == {"none", "queued", "open", "closed", "refused"}

\* The elements of a sequence.
LEMMA SetOf ==
  ASSUME NEW S, NEW q \in Seq(S)
  PROVE  /\ \A c : c \in ToSet(q) <=> In(c, q)
         /\ ToSet(q) \subseteq S
<1>1. DOMAIN q = 1..Len(q) /\ \A i \in 1..Len(q) : q[i] \in S
  BY LenProperties
<1>2. ToSet(q) = {q[i] : i \in 1..Len(q)}
  BY <1>1 DEF ToSet
<1>3. QED
  BY <1>1, <1>2 DEF In

\* The empty sequence.
LEMMA EmptyQueue ==
  ASSUME NEW S
  PROVE  <<>> \in Seq(S) /\ Len(<<>>) = 0 /\ Distinct(<<>>) /\ \A c : ~In(c, <<>>)
<1>1. <<>> \in Seq(S) /\ Len(<<>>) = 0
  BY EmptySeq
<1>2. QED
  BY <1>1 DEF Distinct, In

\* Who is in which array does not notice a step that leaves the arrays and the
\* set of the open connections alone.
LEMMA PlacedStays ==
  ASSUME NEW a \in [Workers -> Seq(Sockets)], NEW st, NEW ns, Placed(a, st),
         \A c \in Sockets : ns[c] = "open" <=> st[c] = "open"
  PROVE  Placed(a, ns)
<1>1. \A w \in Workers : \A c : In(c, a[w]) => c \in Sockets
  <2> SUFFICES ASSUME NEW w \in Workers, NEW c, In(c, a[w])
               PROVE  c \in Sockets
    OBVIOUS
  <2>1. PICK q \in Seq(Sockets) : q = a[w]
    OBVIOUS
  <2>2. PICK i \in 1..Len(q) : q[i] = c
    BY <2>1 DEF In
  <2>3. QED
    BY <2>2, ElementOfSeq
<1>2. QED
  BY <1>1 DEF Placed

\* One worker's array loses the connections of gone and wins those of came, and
\* st becomes ns.
Moves(a, w, q, gone, came, st, ns) ==
  /\ \A c : In(c, q) <=> (In(c, a[w]) /\ c \notin gone) \/ c \in came
  /\ \A c \in came : st[c] # "open"
  /\ \A v \in Workers : \A c : v # w /\ In(c, a[v]) => c \notin gone
  /\ \A c \in Sockets : ns[c] = "open" <=> (st[c] = "open" /\ c \notin gone) \/ c \in came

\* Such a move leaves every open connection in one array.
LEMMA PlacedMoves ==
  ASSUME NEW a \in [Workers -> Seq(Sockets)], NEW st, NEW ns, Placed(a, st),
         NEW w \in Workers, NEW q \in Seq(Sockets), Distinct(q),
         NEW gone, NEW came, Moves(a, w, q, gone, came, st, ns),
         NEW b, b = [a EXCEPT ![w] = q]
  PROVE  Placed(b, ns)
<1> USE DEF Moves
<1>1. b[w] = q /\ \A v \in Workers : v # w => b[v] = a[v]
  OBVIOUS
<1>2. \A v \in Workers : \A c : In(c, b[v]) => c \in Sockets
  <2> SUFFICES ASSUME NEW v \in Workers, NEW c, In(c, b[v])
               PROVE  c \in Sockets
    OBVIOUS
  <2>1. PICK r \in Seq(Sockets) : r = b[v]
    OBVIOUS
  <2>2. PICK i \in 1..Len(r) : r[i] = c
    BY <2>1 DEF In
  <2>3. QED
    BY <2>2, ElementOfSeq
<1>3. \A v \in Workers : Distinct(b[v])
  BY <1>1 DEF Placed
<1>4. ASSUME NEW v \in Workers, NEW c, In(c, b[v])
      PROVE  ns[c] = "open"
  <2>1. CASE v = w
    <3>1. (In(c, a[w]) /\ c \notin gone) \/ c \in came
      BY <1>1, <1>4, <2>1
    <3>2. QED
      BY <1>2, <1>4, <3>1 DEF Placed
  <2>2. CASE v # w
    <3>1. In(c, a[v]) /\ c \notin gone
      BY <1>1, <1>4, <2>2
    <3>2. QED
      BY <1>2, <1>4, <3>1 DEF Placed
  <2>3. QED
    BY <2>1, <2>2
<1>5. ASSUME NEW v \in Workers, NEW u \in Workers, NEW c, In(c, b[v]), In(c, b[u]), v # u
      PROVE  FALSE
  <2>1. ASSUME NEW x \in Workers, x # w, In(c, b[x]), In(c, b[w])
        PROVE  FALSE
    <3>1. In(c, a[x]) /\ st[c] = "open"
      BY <1>1, <2>1 DEF Placed
    <3>2. In(c, a[w])
      BY <1>1, <2>1, <3>1
    <3>3. QED
      BY <2>1, <3>1, <3>2 DEF Placed
  <2>2. CASE v # w /\ u # w
    BY <1>1, <1>5, <2>2 DEF Placed
  <2>3. QED
    BY <1>5, <2>1, <2>2
<1>6. ASSUME NEW c \in Sockets, ns[c] = "open"
      PROVE  \E v \in Workers : In(c, b[v])
  <2>1. CASE c \in came
    BY <1>1, <2>1
  <2>2. CASE st[c] = "open" /\ c \notin gone
    <3>1. PICK v \in Workers : In(c, a[v])
      BY <2>2 DEF Placed
    <3>2. In(c, b[v])
      BY <1>1, <2>2, <3>1
    <3>3. QED
      BY <3>2
  <2>3. QED
    BY <1>6, <2>1, <2>2
<1>7. QED
  BY <1>3, <1>4, <1>5, <1>6 DEF Placed

\* The types as separate facts.
PerlTypes ==
  /\ forked \in 0..NThreads /\ srv \subseteq Workers \union {Parent}
  /\ life \in [Workers -> {"none", "live", "dead"}]
  /\ nConnects \in [Workers -> 0..MaxConnect]
  /\ s \in [Workers -> Seq(Sockets)] /\ n \in [Workers -> Nat \ {0}]
  /\ pending \in Seq(Sockets) /\ state \in [Sockets -> States]
  /\ unread \subseteq Sockets /\ fin \subseteq Sockets /\ rst \subseteq Sockets

\* They are what TypeOK says.
LEMMA PerlTypesAre == PerlTypeOK <=> PerlTypes
  BY DEF PerlTypeOK, PerlTypes, States

\* A worker or main lets go of the listening socket, takes the first connection
\* from it, or ends connections.
LEMMA EndsStep ==
  ASSUME PerlTypes, Waiting(pending, state),
         NEW gone \in SUBSET Sockets, NEW taken, NEW holders \in SUBSET (Workers \union {Parent}),
         taken = {} \/ (pending # <<>> /\ taken = {Head(pending)}),
         \A c \in gone : state[c] = "open" \/ c \in taken,
         Ends(gone, taken, holders)
  PROVE  /\ srv' \subseteq Workers \union {Parent}
         /\ pending' \in Seq(Sockets) /\ state' \in [Sockets -> States]
         /\ unread' \subseteq Sockets /\ fin' \subseteq Sockets /\ rst' \subseteq Sockets
         /\ Waiting(pending, state)'
         /\ \A c \in Sockets : state'[c] = "open" <=> (state[c] = "open" /\ c \notin gone) \/ c \in taken \ gone
<1> DEFINE waiting == IF taken = {} THEN pending ELSE Tail(pending)
           refused == IF holders = {} THEN ToSet(waiting) ELSE {}
<1>1. /\ waiting \in Seq(Sockets) /\ Distinct(waiting)
      /\ \A c : In(c, waiting) => In(c, pending) /\ c \notin taken
  <2>1. CASE taken = {}
    BY <2>1 DEF PerlTypes, Waiting
  <2>2. CASE pending # <<>> /\ taken = {Head(pending)}
    <3>1. PICK q \in Seq(Sockets) : q = pending
      BY DEF PerlTypes
    <3>2. q # <<>> /\ Distinct(q) /\ taken # {} /\ taken = {Head(q)}
      BY <2>2, <3>1 DEF Waiting
    <3>3. Tail(q) \in Seq(Sockets) /\ Distinct(Tail(q)) /\ ~In(Head(q), Tail(q))
          /\ \A c : In(c, Tail(q)) => In(c, q)
      BY <3>2, TailOfQueue
    <3>4. QED
      BY <3>1, <3>2, <3>3
  <2>3. QED
    BY <2>1, <2>2
<1>2. /\ srv' = holders
      /\ pending' = IF holders = {} THEN <<>> ELSE waiting
      /\ state' = [c \in Sockets |-> IF c \in gone THEN "closed"
                                     ELSE IF c \in refused THEN "refused"
                                     ELSE IF c \in taken THEN "open" ELSE state[c]]
      /\ unread' \subseteq unread /\ fin' \subseteq fin /\ rst' \subseteq rst
  BY DEF Ends
<1> HIDE DEF waiting
<1>3. \A c : c \in refused => In(c, waiting) /\ holders = {}
  BY <1>1, SetOf
<1> HIDE DEF refused
<1>4. taken \subseteq Sockets /\ \A c \in taken : state[c] = "queued"
  <2>1. CASE pending # <<>> /\ taken = {Head(pending)}
    <3>1. PICK q \in Seq(Sockets) : q = pending
      BY DEF PerlTypes
    <3>2. q # <<>> /\ Distinct(q)
      BY <2>1, <3>1 DEF Waiting
    <3>3. Head(q) \in Sockets /\ In(Head(q), q)
      BY <3>2, TailOfQueue
    <3>4. QED
      BY <2>1, <3>1, <3>3 DEF Waiting
  <2>2. QED
    BY <2>1
<1>5. \A c \in Sockets : /\ c \in gone => state'[c] = "closed"
                         /\ c \notin gone /\ c \in refused => state'[c] = "refused"
                         /\ c \notin gone /\ c \notin refused /\ c \in taken => state'[c] = "open"
                         /\ c \notin gone /\ c \notin refused /\ c \notin taken => state'[c] = state[c]
  BY <1>2
<1>6. state' \in [Sockets -> States]
  BY <1>2 DEF PerlTypes, States
<1>7. \A c : c \in refused => c \notin taken /\ state[c] = "queued"
  BY <1>1, <1>3 DEF Waiting
<1>8. \A c \in Sockets : state'[c] = "open" <=> (state[c] = "open" /\ c \notin gone) \/ c \in taken \ gone
  BY <1>4, <1>5, <1>7
<1>9. pending' \in Seq(Sockets) /\ Distinct(pending') /\ \A c : In(c, pending') => In(c, waiting) /\ holders # {}
  <2>1. CASE holders = {}
    BY <1>2, <2>1, EmptyQueue
  <2>2. CASE holders # {}
    BY <1>1, <1>2, <2>2
  <2>3. QED
    BY <2>1, <2>2
<1>10. ASSUME NEW c, In(c, pending')
       PROVE  state'[c] = "queued"
  <2>1. In(c, waiting) /\ In(c, pending) /\ c \notin taken /\ state[c] = "queued" /\ c \notin refused
    BY <1>1, <1>3, <1>9, <1>10 DEF Waiting
  <2>2. c \in Sockets
    <3>1. PICK q \in Seq(Sockets) : q = pending
      BY DEF PerlTypes
    <3>2. PICK i \in 1..Len(q) : q[i] = c
      BY <2>1, <3>1 DEF In
    <3>3. QED
      BY <3>2, ElementOfSeq
  <2>3. c \notin gone
    BY <2>1
  <2>4. QED
    BY <1>5, <2>1, <2>2, <2>3
<1>11. Waiting(pending, state)'
  BY <1>9, <1>10 DEF Waiting
<1>12. QED
  BY <1>2, <1>6, <1>8, <1>9, <1>11 DEF PerlTypes

\* A worker that dies ends its connections and the one it has just taken.
LEMMA DiesStep ==
  ASSUME PerlInv, NEW w \in Workers, NEW taken, Dies(w, taken),
         taken = {} \/ (pending # <<>> /\ taken = {Head(pending)})
  PROVE  PerlInv'
<1>1. PerlTypes /\ Placed(s, state) /\ Waiting(pending, state) /\ Slots
  BY PerlTypesAre DEF PerlInv
<1>2. PICK q \in Seq(Sockets) : q = s[w]
  BY <1>1 DEF PerlTypes
<1>3. taken \subseteq Sockets /\ \A c \in taken : state[c] = "queued"
  <2>1. CASE pending # <<>> /\ taken = {Head(pending)}
    <3>1. PICK r \in Seq(Sockets) : r = pending
      BY <1>1 DEF PerlTypes
    <3>2. r # <<>> /\ Distinct(r)
      BY <1>1, <2>1, <3>1 DEF Waiting
    <3>3. Head(r) \in Sockets /\ In(Head(r), r)
      BY <3>2, TailOfQueue
    <3>4. QED
      BY <1>1, <2>1, <3>1, <3>3 DEF Waiting
  <2>2. QED
    BY <2>1
<1>4. (\A c : c \in ToSet(q) <=> In(c, q)) /\ ToSet(q) \subseteq Sockets
  BY SetOf
<1>5. PICK gone \in SUBSET Sockets :
        /\ gone = ToSet(s[w]) \union taken
        /\ \A c : c \in gone <=> In(c, s[w]) \/ c \in taken
  <2>1. PICK g \in SUBSET Sockets : g = ToSet(q) \union taken
    BY <1>3, <1>4
  <2>2. \A c : c \in g <=> In(c, q) \/ c \in taken
    BY <1>4, <2>1
  <2>3. QED
    BY <1>2, <2>1, <2>2
<1>6. PICK holders \in SUBSET (Workers \union {Parent}) : Ends(gone, taken, holders)
  <2>1. srv \ {w} \in SUBSET (Workers \union {Parent})
    BY <1>1 DEF PerlTypes
  <2>2. QED
    BY <1>5, <2>1 DEF Dies
<1>7. /\ life' = [life EXCEPT ![w] = "dead"] /\ s' = [s EXCEPT ![w] = <<>>]
      /\ UNCHANGED <<forked, nConnects, n>>
  BY DEF Dies
<1>8. \A c \in gone : state[c] = "open" \/ c \in taken
  BY <1>1, <1>5 DEF Placed
<1>9. /\ srv' \subseteq Workers \union {Parent}
      /\ pending' \in Seq(Sockets) /\ state' \in [Sockets -> States]
      /\ unread' \subseteq Sockets /\ fin' \subseteq Sockets /\ rst' \subseteq Sockets
      /\ Waiting(pending, state)'
      /\ \A c \in Sockets : state'[c] = "open" <=> (state[c] = "open" /\ c \notin gone) \/ c \in taken \ gone
  BY <1>1, <1>5, <1>6, <1>8, EndsStep
<1>10. <<>> \in Seq(Sockets) /\ Len(<<>>) = 0 /\ Distinct(<<>>) /\ \A c : ~In(c, <<>>)
  BY EmptyQueue
<1>11. PerlTypes'
  <2>1. s' \in [Workers -> Seq(Sockets)]
    BY <1>1, <1>7, <1>10 DEF PerlTypes
  <2>2. life' \in [Workers -> {"none", "live", "dead"}]
    BY <1>1, <1>7 DEF PerlTypes
  <2>3. QED
    BY <1>1, <1>7, <1>9, <2>1, <2>2 DEF PerlTypes
<1>12. Placed(s, state)'
  <2>1. PICK a \in [Workers -> Seq(Sockets)], b \in [Workers -> Seq(Sockets)],
             st \in [Sockets -> States], ns \in [Sockets -> States] :
          a = s /\ b = s' /\ st = state /\ ns = state'
    BY <1>1, <1>11 DEF PerlTypes
  <2>2. \A c : In(c, <<>>) <=> (In(c, a[w]) /\ c \notin gone) \/ c \in {}
    BY <1>5, <1>10, <2>1
  <2>3. \A v \in Workers : \A c : v # w /\ In(c, a[v]) => c \notin gone
    BY <1>1, <1>3, <1>5, <2>1 DEF Placed
  <2>4. \A c \in Sockets : ns[c] = "open" <=> (st[c] = "open" /\ c \notin gone) \/ c \in {}
    BY <1>5, <1>9, <2>1
  <2>5. Placed(a, st) /\ b = [a EXCEPT ![w] = <<>>] /\ \A c \in {} : st[c] # "open"
    BY <1>1, <1>7, <2>1
  <2>6. Placed(b, ns)
    <3>1. Moves(a, w, <<>>, gone, {}, st, ns)
      BY <2>2, <2>3, <2>4 DEF Moves
    <3>2. QED
      BY <1>10, <2>5, <3>1, PlacedMoves
  <2>7. QED
    BY <2>1, <2>6
<1>13. Slots'
  <2> SUFFICES ASSUME NEW v \in Workers
               PROVE  Len(s'[v]) + nConnects'[v] <= MaxConnect
    BY DEF Slots
  <2>1. CASE v = w
    <3>1. s'[v] = <<>> /\ nConnects'[v] = nConnects[w] /\ nConnects[w] \in 0..MaxConnect
      BY <1>1, <1>7, <2>1 DEF PerlTypes
    <3>2. PICK k \in 0..MaxConnect : k = nConnects[w]
      BY <3>1
    <3>3. 0 + k <= MaxConnect
      OBVIOUS
    <3>4. QED
      BY <1>10, <3>1, <3>2, <3>3
  <2>2. CASE v # w
    BY <1>1, <1>7, <2>2 DEF PerlTypes, Slots
  <2>3. QED
    BY <2>1, <2>2
<1>14. QED
  BY <1>9, <1>11, <1>12, <1>13 DEF PerlInv, PerlTypes, PerlTypeOK, States

\* A worker takes the first connection that waits.
LEMMA PerlAcceptStep ==
  ASSUME PerlInv, NEW w \in Workers, Accept(w)
  PROVE  PerlInv'
<1>1. PerlTypes /\ Placed(s, state) /\ Waiting(pending, state) /\ Slots
  BY PerlTypesAre DEF PerlInv
<1>2. PICK q \in Seq(Sockets), r \in Seq(Sockets) : q = s[w] /\ r = pending
  BY <1>1 DEF PerlTypes
<1>3. PICK holders \in SUBSET (Workers \union {Parent}) : Ends({}, {Head(pending)}, holders)
  <2>1. srv \in SUBSET (Workers \union {Parent}) /\ srv \ {w} \in SUBSET (Workers \union {Parent})
    BY <1>1 DEF PerlTypes
  <2>2. QED
    BY <2>1 DEF Accept
<1>4. /\ pending # <<>> /\ nConnects[w] > 0
      /\ nConnects' = [nConnects EXCEPT ![w] = nConnects[w] - 1]
      /\ s' = [s EXCEPT ![w] = Append(q, Head(r))]
      /\ n' = [n EXCEPT ![w] = 1]
      /\ UNCHANGED <<forked, life>>
  BY <1>1, <1>2 DEF Accept, MayAccept, StartPass, PerlTypes
<1>5. PICK c \in Sockets : c = Head(r) /\ state[c] = "queued"
  <2>1. r # <<>> /\ Distinct(r)
    BY <1>1, <1>2, <1>4 DEF Waiting
  <2>2. Head(r) \in Sockets /\ In(Head(r), r)
    BY <2>1, TailOfQueue
  <2>3. QED
    BY <1>1, <1>2, <2>2 DEF Waiting
<1>6. PICK taken \in SUBSET Sockets : taken = {c} /\ taken = {Head(pending)} /\ Ends({}, taken, holders)
  BY <1>2, <1>3, <1>5
<1>7. /\ srv' \subseteq Workers \union {Parent}
      /\ pending' \in Seq(Sockets) /\ state' \in [Sockets -> States]
      /\ unread' \subseteq Sockets /\ fin' \subseteq Sockets /\ rst' \subseteq Sockets
      /\ Waiting(pending, state)'
      /\ \A d \in Sockets : state'[d] = "open" <=> (state[d] = "open" /\ d \notin {}) \/ d \in taken \ {}
  <2>1. {} \in SUBSET Sockets /\ \A d \in {} : state[d] = "open" \/ d \in taken
    OBVIOUS
  <2>2. pending # <<>> /\ taken = {Head(pending)}
    BY <1>4, <1>6
  <2>3. QED
    BY <1>1, <1>6, <2>1, <2>2, EndsStep
<1>8. Distinct(q) /\ ~In(c, q)
  BY <1>1, <1>2, <1>5 DEF Placed
<1>9. /\ Append(q, c) \in Seq(Sockets) /\ Distinct(Append(q, c))
      /\ Len(Append(q, c)) = Len(q) + 1
      /\ \A d : In(d, Append(q, c)) <=> d = c \/ In(d, q)
  BY <1>8, AppendToQueue
<1> DEFINE p == Append(q, c)
<1>10. s' = [s EXCEPT ![w] = p]
  BY <1>4, <1>5
<1>11. p \in Seq(Sockets) /\ Distinct(p) /\ Len(p) = Len(q) + 1 /\ \A d : In(d, p) <=> d = c \/ In(d, q)
  BY <1>9
<1> HIDE DEF p
<1>12. PICK k \in Nat : k = nConnects[w] /\ k > 0 /\ k <= MaxConnect
  BY <1>1, <1>4, PerlAssumption DEF PerlTypes
<1>13. nConnects' = [nConnects EXCEPT ![w] = k - 1] /\ k - 1 \in 0..MaxConnect
  <2>1. k - 1 \in 0..MaxConnect
    BY <1>12, PerlAssumption
  <2>2. QED
    BY <1>4, <1>12, <2>1
<1>14. PerlTypes'
  <2>1. s' \in [Workers -> Seq(Sockets)]
    BY <1>1, <1>10, <1>11 DEF PerlTypes
  <2>2. nConnects' \in [Workers -> 0..MaxConnect]
    BY <1>1, <1>13 DEF PerlTypes
  <2>3. n' \in [Workers -> Nat \ {0}]
    BY <1>1, <1>4 DEF PerlTypes
  <2>4. QED
    BY <1>1, <1>4, <1>7, <2>1, <2>2, <2>3 DEF PerlTypes
<1>15. Placed(s, state)'
  <2>1. PICK a \in [Workers -> Seq(Sockets)], b \in [Workers -> Seq(Sockets)],
             st \in [Sockets -> States], ns \in [Sockets -> States] :
          a = s /\ b = s' /\ st = state /\ ns = state'
    BY <1>1, <1>14 DEF PerlTypes
  <2>2. \A d : In(d, p) <=> (In(d, a[w]) /\ d \notin {}) \/ d \in {c}
    BY <1>2, <1>11, <2>1
  <2>3. \A v \in Workers : \A d : v # w /\ In(d, a[v]) => d \notin {}
    OBVIOUS
  <2>4. \A d \in Sockets : ns[d] = "open" <=> (st[d] = "open" /\ d \notin {}) \/ d \in {c}
    BY <1>6, <1>7, <2>1
  <2>5. Placed(a, st) /\ b = [a EXCEPT ![w] = p] /\ \A d \in {c} : st[d] # "open"
    BY <1>1, <1>5, <1>10, <2>1
  <2>6. Placed(b, ns)
    <3>1. Moves(a, w, p, {}, {c}, st, ns)
      BY <2>2, <2>3, <2>4, <2>5 DEF Moves
    <3>2. QED
      BY <1>11, <2>5, <3>1, PlacedMoves
  <2>7. QED
    BY <2>1, <2>6
<1>16. Slots'
  <2> SUFFICES ASSUME NEW v \in Workers
               PROVE  Len(s'[v]) + nConnects'[v] <= MaxConnect
    BY DEF Slots
  <2>1. CASE v = w
    <3>1. s'[v] = p /\ nConnects'[v] = k - 1
      BY <1>1, <1>10, <1>13, <2>1 DEF PerlTypes
    <3>2. PICK l \in Nat : l = Len(q)
      BY LenProperties
    <3>3. l + k <= MaxConnect
      BY <1>1, <1>2, <1>12, <3>2 DEF Slots
    <3>4. (l + 1) + (k - 1) <= MaxConnect
      BY <3>3, PerlAssumption
    <3>5. QED
      BY <1>11, <3>1, <3>2, <3>4
  <2>2. CASE v # w
    BY <1>1, <1>10, <1>13, <2>2 DEF PerlTypes, Slots
  <2>3. QED
    BY <2>1, <2>2
<1>17. QED
  BY <1>7, <1>14, <1>15, <1>16 DEF PerlInv, PerlTypes, PerlTypeOK, States

\* The walk removes the connection it has found ended, and closes that one.
LEMMA SpliceStep ==
  ASSUME PerlInv, NEW w \in Workers, n[w] <= Len(s[w]),
         s' = [s EXCEPT ![w] = Spliced(w)],
         Ends({s[w][n[w]]} \union (ToSet(s[w]) \ ToSet(Spliced(w))), {}, srv),
         Advance(w), UNCHANGED <<forked, life, nConnects>>
  PROVE  PerlInv'
<1>1. PerlTypes /\ Placed(s, state) /\ Waiting(pending, state) /\ Slots
  BY PerlTypesAre DEF PerlInv
<1>2. PICK q \in Seq(Sockets), m \in Nat \ {0} : q = s[w] /\ m = n[w]
  BY <1>1 DEF PerlTypes
<1>3. m \in 1..Len(q)
  BY <1>2, LenProperties
<1>4. PICK c \in Sockets : c = q[m]
  BY <1>3, ElementOfSeq
<1>5. Distinct(q) /\ In(c, q) /\ state[c] = "open"
  <2>1. Distinct(q) /\ In(c, q)
    BY <1>1, <1>2, <1>3, <1>4 DEF Placed, In
  <2>2. QED
    BY <1>1, <1>2, <2>1 DEF Placed
<1>6. PICK r : r = Spliced(w) /\ r = RemoveAt(q, m)
  BY <1>2 DEF Spliced
<1>7. /\ r \in Seq(Sockets) /\ Distinct(r) /\ Len(r) = Len(q) - 1
      /\ \A d : In(d, r) <=> In(d, q) /\ d # c
  <2>1. r = SubSeq(q, 1, m - 1) \o SubSeq(q, m + 1, Len(q))
    BY <1>6 DEF RemoveAt
  <2>2. QED
    BY <1>3, <1>4, <1>5, <2>1, TakenFromQueue
<1>8. {c} \union (ToSet(q) \ ToSet(r)) = {c}
  <2>1. /\ \A d : d \in ToSet(q) <=> In(d, q)
        /\ \A d : d \in ToSet(r) <=> In(d, r)
    BY <1>7, SetOf
  <2>2. QED
    BY <1>7, <2>1
<1>9. PICK gone \in SUBSET Sockets, holders \in SUBSET (Workers \union {Parent}) :
        gone = {c} /\ Ends(gone, {}, holders)
  <2>1. srv \in SUBSET (Workers \union {Parent})
    BY <1>1 DEF PerlTypes
  <2>2. Ends({c}, {}, srv)
    BY <1>2, <1>4, <1>6, <1>8
  <2>3. QED
    BY <2>1, <2>2
<1>10. /\ srv' \subseteq Workers \union {Parent}
       /\ pending' \in Seq(Sockets) /\ state' \in [Sockets -> States]
       /\ unread' \subseteq Sockets /\ fin' \subseteq Sockets /\ rst' \subseteq Sockets
       /\ Waiting(pending, state)'
       /\ \A d \in Sockets : state'[d] = "open" <=> (state[d] = "open" /\ d \notin gone) \/ d \in {} \ gone
  <2>1. \A d \in gone : state[d] = "open" \/ d \in {}
    BY <1>5, <1>9
  <2>2. QED
    BY <1>1, <1>9, <2>1, EndsStep
<1>11. s' = [s EXCEPT ![w] = r] /\ n' = [n EXCEPT ![w] = m + 1]
  BY <1>1, <1>2, <1>6 DEF Advance, PerlTypes
<1>12. PerlTypes'
  <2>1. s' \in [Workers -> Seq(Sockets)]
    BY <1>1, <1>7, <1>11 DEF PerlTypes
  <2>2. n' \in [Workers -> Nat \ {0}]
    <3>1. m + 1 \in Nat \ {0}
      OBVIOUS
    <3>2. QED
      BY <1>1, <1>11, <3>1 DEF PerlTypes
  <2>3. QED
    BY <1>1, <1>10, <2>1, <2>2 DEF PerlTypes
<1>13. Placed(s, state)'
  <2>1. PICK a \in [Workers -> Seq(Sockets)], b \in [Workers -> Seq(Sockets)],
             st \in [Sockets -> States], ns \in [Sockets -> States] :
          a = s /\ b = s' /\ st = state /\ ns = state'
    BY <1>1, <1>12 DEF PerlTypes
  <2>2. \A d : In(d, r) <=> (In(d, a[w]) /\ d \notin gone) \/ d \in {}
    BY <1>2, <1>7, <1>9, <2>1
  <2>3. \A v \in Workers : \A d : v # w /\ In(d, a[v]) => d \notin gone
    BY <1>1, <1>2, <1>5, <1>9, <2>1 DEF Placed
  <2>4. \A d \in Sockets : ns[d] = "open" <=> (st[d] = "open" /\ d \notin gone) \/ d \in {}
    BY <1>10, <2>1
  <2>5. Placed(a, st) /\ b = [a EXCEPT ![w] = r] /\ \A d \in {} : st[d] # "open"
    BY <1>1, <1>11, <2>1
  <2>6. Placed(b, ns)
    <3>1. Moves(a, w, r, gone, {}, st, ns)
      BY <2>2, <2>3, <2>4 DEF Moves
    <3>2. QED
      BY <1>7, <2>5, <3>1, PlacedMoves
  <2>7. QED
    BY <2>1, <2>6
<1>14. Slots'
  <2> SUFFICES ASSUME NEW v \in Workers
               PROVE  Len(s'[v]) + nConnects'[v] <= MaxConnect
    BY DEF Slots
  <2>1. CASE v = w
    <3>1. s'[v] = r /\ nConnects'[v] = nConnects[w]
      BY <1>1, <1>11, <2>1 DEF PerlTypes
    <3>2. PICK l \in Nat, k \in 0..MaxConnect : l = Len(q) /\ k = nConnects[w]
      BY <1>1, LenProperties DEF PerlTypes
    <3>3. l + k <= MaxConnect
      BY <1>1, <1>2, <3>2 DEF Slots
    <3>4. (l - 1) + k <= MaxConnect
      BY <3>3, PerlAssumption
    <3>5. QED
      BY <1>7, <3>1, <3>2, <3>4
  <2>2. CASE v # w
    BY <1>1, <1>11, <2>2 DEF PerlTypes, Slots
  <2>3. QED
    BY <2>1, <2>2
<1>15. QED
  BY <1>10, <1>12, <1>13, <1>14 DEF PerlInv, PerlTypes, PerlTypeOK, States

\* A step that leaves the arrays, the slots, the queue and the connections'
\* states alone.
LEMMA QuietStep ==
  ASSUME PerlInv, PerlTypes', UNCHANGED <<s, nConnects, pending, state>>
  PROVE  PerlInv'
<1>1. Placed(s, state)' /\ Waiting(pending, state)' /\ Slots'
  BY DEF PerlInv, Slots
<1>2. QED
  BY <1>1 DEF PerlInv, PerlTypes, PerlTypeOK, States

\* sysread gives bytes, nothing, the end or a signal.
LEMMA SysreadStep ==
  ASSUME PerlInv, NEW w \in Workers, sysread(w)
  PROVE  PerlInv'
<1>1. PerlTypes
  BY PerlTypesAre DEF PerlInv
<1>2. ASSUME Advance(w) PROVE n' \in [Workers -> Nat \ {0}]
  <2>1. PICK m \in Nat \ {0} : m = n[w]
    BY <1>1 DEF PerlTypes
  <2>2. m + 1 \in Nat \ {0} /\ n' = [n EXCEPT ![w] = m + 1]
    BY <1>1, <1>2, <2>1 DEF Advance, PerlTypes
  <2>3. QED
    BY <1>1, <2>2 DEF PerlTypes
<1>3. CASE /\ \E c \in unread : unread' = unread \ {c}
           /\ Advance(w)
           /\ UNCHANGED <<forked, srv, life, nConnects, s, pending, state, fin, rst>>
  <2>1. PerlTypes'
    BY <1>1, <1>2, <1>3 DEF PerlTypes
  <2>2. QED
    BY <1>3, <2>1, QuietStep
<1>4. CASE Dies(w, {})
  BY <1>4, DiesStep
<1>5. CASE Advance(w) /\ UNCHANGED <<forked, srv, life, nConnects, s, pending, state, unread, fin, rst>>
  <2>1. PerlTypes'
    BY <1>1, <1>2, <1>5 DEF PerlTypes
  <2>2. QED
    BY <1>5, <2>1, QuietStep
<1>6. CASE /\ s' = [s EXCEPT ![w] = Spliced(w)]
           /\ Ends({s[w][n[w]]} \union (ToSet(s[w]) \ ToSet(Spliced(w))), {}, srv)
           /\ Advance(w)
           /\ UNCHANGED <<forked, life, nConnects>>
  <2>1. n[w] <= Len(s[w])
    BY DEF sysread
  <2>2. QED
    BY <1>6, <2>1, SpliceStep
<1>7. QED
  BY <1>3, <1>4, <1>5, <1>6 DEF sysread, peer

\* Main forks, or closes its socket.
LEMMA MainStep ==
  ASSUME PerlInv, Fork \/ MainCloses
  PROVE  PerlInv'
<1>1. PerlTypes /\ Placed(s, state) /\ Waiting(pending, state) /\ Slots
  BY PerlTypesAre DEF PerlInv
<1>2. CASE Fork
  <2>1. PICK m \in Workers : m = forked + 1 /\ m \in 0..NThreads
    <3>1. PICK f \in Nat : f = forked /\ f < NThreads
      BY <1>1, <1>2, PerlAssumption DEF Fork, PerlTypes
    <3>2. f + 1 \in 1..NThreads /\ f + 1 \in 0..NThreads
      BY <3>1, PerlAssumption
    <3>3. QED
      BY <3>1, <3>2 DEF Workers
  <2>2. /\ forked' = m /\ life' = [life EXCEPT ![m] = "live"]
        /\ srv' \in {srv \union {m}, (srv \ {Parent}) \union {m}}
        /\ UNCHANGED <<nConnects, s, n, pending, state, unread, fin, rst>>
    BY <1>2, <2>1 DEF Fork, peer
  <2>3. life' \in [Workers -> {"none", "live", "dead"}]
    BY <1>1, <2>2 DEF PerlTypes
  <2>4. srv' \subseteq Workers \union {Parent}
    BY <1>1, <2>2 DEF PerlTypes
  <2>5. PerlTypes'
    BY <1>1, <2>1, <2>2, <2>3, <2>4 DEF PerlTypes
  <2>6. QED
    BY <2>2, <2>5, QuietStep
<1>3. CASE MainCloses
  <2>1. PICK holders \in SUBSET (Workers \union {Parent}) : Ends({}, {}, holders)
    BY <1>1, <1>3 DEF MainCloses, PerlTypes
  <2>2. UNCHANGED <<forked, life, nConnects, s, n>>
    BY <1>3 DEF MainCloses, worker
  <2>3. {} \in SUBSET Sockets /\ \A c \in {} : state[c] = "open" \/ c \in {}
    OBVIOUS
  <2>4. /\ srv' \subseteq Workers \union {Parent}
        /\ pending' \in Seq(Sockets) /\ state' \in [Sockets -> States]
        /\ unread' \subseteq Sockets /\ fin' \subseteq Sockets /\ rst' \subseteq Sockets
        /\ Waiting(pending, state)'
        /\ \A c \in Sockets : state'[c] = "open" <=> (state[c] = "open" /\ c \notin {}) \/ c \in {} \ {}
    BY <1>1, <2>1, <2>3, EndsStep
  <2>5. Placed(s, state)'
    <3>1. PICK a \in [Workers -> Seq(Sockets)], st \in [Sockets -> States], ns \in [Sockets -> States] :
            a = s /\ st = state /\ ns = state'
      BY <1>1, <2>4 DEF PerlTypes
    <3>2. Placed(a, st) /\ \A c \in Sockets : ns[c] = "open" <=> st[c] = "open"
      BY <1>1, <2>4, <3>1
    <3>3. Placed(a, ns)
      BY <3>2, PlacedStays
    <3>4. QED
      BY <2>2, <3>1, <3>3
  <2>6. PerlTypes' /\ Slots'
    BY <1>1, <2>2, <2>4 DEF PerlTypes, Slots
  <2>7. QED
    BY <2>4, <2>5, <2>6 DEF PerlInv, PerlTypes, PerlTypeOK, States
<1>4. QED
  BY <1>2, <1>3

\* A peer connects, sends, closes or fails.
LEMMA PerlPeerStep ==
  ASSUME PerlInv, NEW c \in Sockets, Connects(c) \/ PeerMoves(c)
  PROVE  PerlInv'
<1>1. PerlTypes /\ Placed(s, state) /\ Waiting(pending, state) /\ Slots
  BY PerlTypesAre DEF PerlInv
<1>2. CASE Connects(c)
  <2>1. /\ state[c] = "none" /\ state' = [state EXCEPT ![c] = "queued"] /\ pending' = Append(pending, c)
        /\ UNCHANGED <<forked, srv, life, nConnects, s, n, unread, fin, rst>>
    BY <1>2 DEF Connects, worker, peer
  <2>2. PICK q \in Seq(Sockets) : q = pending
    BY <1>1 DEF PerlTypes
  <2>3. Distinct(q) /\ ~In(c, q)
    BY <1>1, <2>1, <2>2 DEF Waiting
  <2>4. /\ Append(q, c) \in Seq(Sockets) /\ Distinct(Append(q, c))
        /\ \A d : In(d, Append(q, c)) <=> d = c \/ In(d, q)
    BY <2>3, AppendToQueue
  <2>5. state' \in [Sockets -> States]
    BY <1>1, <2>1 DEF PerlTypes, States
  <2>6. Waiting(pending, state)'
    <3>1. Distinct(pending') /\ \A d : In(d, pending') => d = c \/ In(d, pending)
      BY <2>1, <2>2, <2>4
    <3>2. ASSUME NEW d, In(d, pending') PROVE state'[d] = "queued"
      <4>1. CASE d = c
        BY <1>1, <2>1, <4>1 DEF PerlTypes
      <4>2. CASE d # c /\ In(d, pending)
        <5>1. PICK i \in 1..Len(q) : q[i] = d
          BY <2>2, <4>2 DEF In
        <5>2. d \in Sockets
          BY <5>1, ElementOfSeq
        <5>3. QED
          BY <1>1, <2>1, <4>2, <5>2 DEF PerlTypes, Waiting
      <4>3. QED
        BY <3>1, <3>2, <4>1, <4>2
    <3>3. QED
      BY <3>1, <3>2 DEF Waiting
  <2>7. Placed(s, state)'
    <3>1. PICK a \in [Workers -> Seq(Sockets)], st \in [Sockets -> States], ns \in [Sockets -> States] :
            a = s /\ st = state /\ ns = state'
      BY <1>1, <2>5 DEF PerlTypes
    <3>2. Placed(a, st) /\ \A d \in Sockets : ns[d] = "open" <=> st[d] = "open"
      BY <1>1, <2>1, <3>1
    <3>3. Placed(a, ns)
      BY <3>2, PlacedStays
    <3>4. QED
      BY <2>1, <3>1, <3>3
  <2>8. PerlTypes' /\ Slots'
    BY <1>1, <2>1, <2>2, <2>4, <2>5 DEF PerlTypes, Slots
  <2>9. QED
    BY <2>6, <2>7, <2>8 DEF PerlInv, PerlTypes, PerlTypeOK, States
<1>3. CASE PeerMoves(c)
  <2>1. /\ unread' \subseteq unread \union {c} /\ fin' \subseteq fin \union {c} /\ rst' \subseteq rst \union {c}
        /\ UNCHANGED <<forked, srv, life, nConnects, s, n, pending, state>>
    BY <1>3 DEF PeerMoves, worker
  <2>2. PerlTypes'
    BY <1>1, <2>1 DEF PerlTypes
  <2>3. QED
    BY <2>1, <2>2, QuietStep
<1>4. QED
  BY <1>2, <1>3

\* Nothing is accepted when the program starts.
LEMMA PerlStarts == PerlInit => PerlInv
<1> SUFFICES ASSUME PerlInit PROVE PerlInv
  OBVIOUS
<1>1. <<>> \in Seq(Sockets) /\ Len(<<>>) = 0 /\ Distinct(<<>>) /\ \A c : ~In(c, <<>>)
  BY EmptyQueue
<1>2. PerlTypes
  <2>1. 0 \in 0..NThreads /\ MaxConnect \in 0..MaxConnect /\ 1 \in Nat \ {0}
    BY PerlAssumption
  <2>2. QED
    BY <1>1, <2>1 DEF PerlInit, PerlTypes, States
<1>3. Placed(s, state) /\ Waiting(pending, state)
  BY <1>1 DEF PerlInit, Placed, Waiting
<1>4. Slots
  <2>1. 0 + MaxConnect <= MaxConnect
    BY PerlAssumption
  <2>2. QED
    BY <1>1, <2>1 DEF PerlInit, Slots
<1>5. QED
  BY <1>2, <1>3, <1>4, PerlTypesAre DEF PerlInv

\* Every step keeps the invariant.
LEMMA PerlStep == PerlInv /\ [PerlNext]_PerlVars => PerlInv'
<1> SUFFICES ASSUME PerlInv, [PerlNext]_PerlVars PROVE PerlInv'
  OBVIOUS
<1>1. PerlTypes
  BY PerlTypesAre DEF PerlInv
<1>2. ASSUME NEW w \in Workers, NoAccept(w) PROVE PerlInv'
  <2>1. /\ n' = [n EXCEPT ![w] = 1]
        /\ UNCHANGED <<forked, srv, life, nConnects, s, pending, state, unread, fin, rst>>
    BY <1>2 DEF NoAccept, StartPass, peer
  <2>2. n' \in [Workers -> Nat \ {0}]
    BY <1>1, <2>1 DEF PerlTypes
  <2>3. PerlTypes'
    BY <1>1, <2>1, <2>2 DEF PerlTypes
  <2>4. QED
    BY <2>1, <2>3, QuietStep
<1>3. ASSUME NEW w \in Workers, Step(w) PROVE PerlInv'
  BY <1>2, <1>3, PerlAcceptStep, SysreadStep DEF Step
<1>4. ASSUME NEW w \in Workers, Accept_Dies(w) \/ SIGINT(w) PROVE PerlInv'
  <2>1. CASE SIGINT(w)
    BY <2>1, DiesStep DEF SIGINT
  <2>2. CASE Accept_Dies(w)
    <3>1. PICK taken : taken = {Head(pending)} /\ Dies(w, taken)
      BY <2>2 DEF Accept_Dies
    <3>2. pending # <<>>
      BY <2>2 DEF Accept_Dies, MayAccept
    <3>3. QED
      BY <3>1, <3>2, DiesStep
  <2>3. QED
    BY <1>4, <2>1, <2>2
<1>5. CASE UNCHANGED PerlVars
  <2>1. UNCHANGED <<forked, srv, life, nConnects, s, n, pending, state, unread, fin, rst>>
    BY <1>5 DEF PerlVars, worker, peer
  <2>2. PerlTypes'
    BY <1>1, <2>1 DEF PerlTypes
  <2>3. QED
    BY <2>1, <2>2, QuietStep
<1>6. QED
  BY <1>3, <1>4, <1>5, MainStep, PerlPeerStep DEF PerlNext

\* The places of the arrays at which connection c is.
Places(c) == {p \in Workers \X (1..MaxConnect) : p[2] <= Len(s[p[1]]) /\ s[p[1]][p[2]] = c}

\* An open connection is at one place, any other at none.
LEMMA PlacesOf ==
  ASSUME PerlInv, NEW c \in Sockets
  PROVE  Cardinality(Places(c)) = IF state[c] = "open" THEN 1 ELSE 0
<1>1. PerlTypes /\ Placed(s, state) /\ Slots
  BY PerlTypesAre DEF PerlInv
<1>2. ASSUME NEW v \in Workers, NEW j \in 1..MaxConnect, j <= Len(s[v]), s[v][j] = c
      PROVE  In(c, s[v]) /\ state[c] = "open" /\ j \in 1..Len(s[v])
  <2>1. PICK q \in Seq(Sockets) : q = s[v]
    BY <1>1 DEF PerlTypes
  <2>2. j \in 1..Len(q)
    <3>1. Len(q) \in Nat
      BY LenProperties
    <3>2. QED
      BY <1>2, <2>1, <3>1
  <2>3. In(c, s[v])
    BY <1>2, <2>1, <2>2 DEF In
  <2>4. QED
    BY <1>1, <2>1, <2>2, <2>3 DEF Placed
<1>3. CASE state[c] # "open"
  <2>1. Places(c) = {}
    BY <1>2, <1>3 DEF Places
  <2>2. QED
    BY <1>3, <2>1, FS_EmptySet
<1>4. CASE state[c] = "open"
  <2>1. PICK w \in Workers : In(c, s[w])
    BY <1>1, <1>4 DEF Placed
  <2>2. PICK q \in Seq(Sockets), k \in 0..MaxConnect : q = s[w] /\ k = nConnects[w]
    BY <1>1 DEF PerlTypes
  <2>3. PICK i \in 1..Len(q) : q[i] = c
    BY <2>1, <2>2 DEF In
  <2>4. i \in 1..MaxConnect /\ i <= Len(q)
    <3>1. Len(q) \in Nat /\ Len(q) + k <= MaxConnect
      BY <1>1, <2>2, LenProperties DEF Slots
    <3>2. QED
      BY <3>1, PerlAssumption
  <2>5. <<w, i>> \in Places(c)
    BY <2>2, <2>3, <2>4 DEF Places
  <2>6. ASSUME NEW p \in Places(c) PROVE p = <<w, i>>
    <3>1. PICK v \in Workers, j \in 1..MaxConnect : p = <<v, j>> /\ j <= Len(s[v]) /\ s[v][j] = c
      BY <2>6 DEF Places
    <3>2. v = w
      BY <1>1, <1>2, <2>1, <3>1 DEF Placed
    <3>3. j \in 1..Len(q) /\ q[j] = c
      BY <1>2, <2>2, <3>1, <3>2
    <3>4. j = i
      BY <1>1, <2>2, <2>3, <3>3 DEF Placed, Distinct
    <3>5. QED
      BY <3>1, <3>2, <3>4
  <2>7. Places(c) = {<<w, i>>}
    BY <2>5, <2>6
  <2>8. QED
    BY <1>4, <2>7, FS_Singleton
<1>5. QED
  BY <1>3, <1>4

\* Of the Perl server: an open connection is in the array of exactly one worker,
\* once, and nothing else is in any array, whatever workers splice, accept, die
\* or were never forked.
THEOREM PerlArraysAreRight == PerlSpec => []ArraysAreRight
<1>1. PerlInv => ArraysAreRight
  <2> SUFFICES ASSUME PerlInv PROVE ArraysAreRight
    OBVIOUS
  <2>1. PerlTypeOK
    BY DEF PerlInv
  <2>2. ASSUME NEW c \in Sockets
        PROVE  Cardinality(Places(c)) = IF state[c] = "open" THEN 1 ELSE 0
    BY PlacesOf
  <2>3. QED
    BY <2>1, <2>2 DEF ArraysAreRight, Places
<1>2. QED
  BY <1>1, PerlStarts, PerlStep, PTL DEF PerlSpec

-----------------------------------------------------------------------------
(* The Perl workers and the socket they share.                             *)

\* A worker holds the listening socket as long as it lives and has slots; one
\* that is not forked yet has them all; a connection waits in the socket, and
\* the socket is there; it is refused when the last holder has let go.
Listening ==
  /\ \A w \in Workers : w \in srv <=> life[w] = "live" /\ nConnects[w] > 0
  /\ \A w \in Workers : w > forked => life[w] = "none" /\ nConnects[w] = MaxConnect
  /\ \A c \in Sockets : state[c] = "queued" => In(c, pending) /\ srv # {}
  /\ \A c \in Sockets : state[c] = "refused" => srv = {}

\* The others stay in the queue when the first is taken.
LEMMA TailKeepsOthers ==
  ASSUME NEW S, NEW q \in Seq(S), q # <<>>, NEW c, In(c, q), c # Head(q)
  PROVE  In(c, Tail(q))
<1>1. /\ Len(q) \in Nat \ {0} /\ Head(q) = q[1] /\ Len(Tail(q)) = Len(q) - 1
      /\ \A i \in 1..Len(Tail(q)) : Tail(q)[i] = q[i + 1]
  BY HeadTailProperties, LenProperties, EmptySeq
<1>2. PICK i \in 1..Len(q) : q[i] = c
  BY DEF In
<1>3. i - 1 \in 1..Len(Tail(q)) /\ (i - 1) + 1 = i
  BY <1>1, <1>2
<1>4. Tail(q)[i - 1] = c
  BY <1>1, <1>2, <1>3
<1>5. QED
  BY <1>3, <1>4 DEF In

\* What Ends does to those that wait: they wait on as long as someone holds the
\* socket, and are refused when nobody does.
LEMMA EndsWaiting ==
  ASSUME PerlTypes,
         \A c \in Sockets : state[c] = "queued" => In(c, pending),
         NEW gone, NEW taken, NEW holders,
         taken = {} \/ (pending # <<>> /\ taken = {Head(pending)}),
         Ends(gone, taken, holders)
  PROVE  /\ srv' = holders
         /\ \A c \in Sockets : state'[c] = "queued" => In(c, pending') /\ holders # {}
         /\ \A c \in Sockets : state'[c] = "refused" => state[c] = "refused" \/ holders = {}
<1> DEFINE waiting == IF taken = {} THEN pending ELSE Tail(pending)
           refused == IF holders = {} THEN ToSet(waiting) ELSE {}
<1>1. /\ srv' = holders
      /\ pending' = IF holders = {} THEN <<>> ELSE waiting
      /\ state' = [c \in Sockets |-> IF c \in gone THEN "closed"
                                     ELSE IF c \in refused THEN "refused"
                                     ELSE IF c \in taken THEN "open" ELSE state[c]]
  BY DEF Ends
<1>2. PICK q \in Seq(Sockets) : q = pending
  BY DEF PerlTypes
<1>3. /\ waiting \in Seq(Sockets)
      /\ \A c : In(c, q) /\ c \notin taken => In(c, waiting)
  <2>1. CASE taken = {}
    BY <1>2, <2>1
  <2>2. CASE pending # <<>> /\ taken = {Head(pending)}
    <3>1. q # <<>> /\ taken # {} /\ taken = {Head(q)} /\ waiting = Tail(q)
      BY <1>2, <2>2
    <3>2. Tail(q) \in Seq(Sockets)
      BY <3>1, HeadTailProperties
    <3>3. \A c : In(c, q) /\ c # Head(q) => In(c, Tail(q))
      BY <3>1, TailKeepsOthers
    <3>4. QED
      BY <3>1, <3>2, <3>3
  <2>3. QED
    BY <2>1, <2>2
<1> HIDE DEF waiting
<1>4. \A c : In(c, waiting) /\ holders = {} => c \in refused
  BY <1>3, SetOf
<1>5. \A c : c \in refused => holders = {}
  OBVIOUS
<1> HIDE DEF refused
<1>6. ASSUME NEW c \in Sockets, state'[c] = "queued"
      PROVE  In(c, pending') /\ holders # {}
  <2>1. c \notin refused /\ c \notin taken /\ state[c] = "queued"
    BY <1>1, <1>6
  <2>2. In(c, waiting)
    BY <1>2, <1>3, <2>1
  <2>3. holders # {}
    BY <1>4, <2>1, <2>2
  <2>4. QED
    BY <1>1, <2>2, <2>3
<1>7. ASSUME NEW c \in Sockets, state'[c] = "refused"
      PROVE  state[c] = "refused" \/ holders = {}
  BY <1>1, <1>5, <1>7
<1>8. QED
  BY <1>1, <1>6, <1>7

\* The number of a worker is none of main's.
LEMMA WorkersAreNumbered == Parent \notin Workers /\ Workers \subseteq Nat
  BY PerlAssumption DEF Parent, Workers

\* Whoever holds the socket still does, or those who let go were right to.
LEMMA ListeningEnds ==
  ASSUME PerlTypes, Listening, NEW gone, NEW taken, NEW holders,
         taken = {} \/ (pending # <<>> /\ taken = {Head(pending)}),
         Ends(gone, taken, holders), holders \subseteq srv,
         UNCHANGED forked,
         \A w \in Workers : w \in holders <=> life'[w] = "live" /\ nConnects'[w] > 0,
         \A w \in Workers : w > forked => life'[w] = life[w] /\ nConnects'[w] = nConnects[w]
  PROVE  Listening'
<1>1. /\ srv' = holders
      /\ \A c \in Sockets : state'[c] = "queued" => In(c, pending') /\ holders # {}
      /\ \A c \in Sockets : state'[c] = "refused" => state[c] = "refused" \/ holders = {}
  <2>1. \A c \in Sockets : state[c] = "queued" => In(c, pending)
    BY DEF Listening
  <2>2. QED
    BY <2>1, EndsWaiting
<1>2. \A c \in Sockets : state'[c] = "refused" => srv' = {}
  BY <1>1 DEF Listening
<1>3. \A w \in Workers : w > forked' => life'[w] = "none" /\ nConnects'[w] = MaxConnect
  BY DEF Listening
<1>4. QED
  BY <1>1, <1>2, <1>3 DEF Listening

\* A worker that dies lets go of the socket.
LEMMA ListeningDies ==
  ASSUME PerlTypes, Listening, NEW w \in Workers, life[w] = "live", NEW taken, Dies(w, taken),
         taken = {} \/ (pending # <<>> /\ taken = {Head(pending)})
  PROVE  Listening'
<1>1. PICK gone, holders : Ends(gone, taken, holders) /\ holders = srv \ {w}
  BY DEF Dies
<1>2. /\ life'[w] = "dead" /\ \A v \in Workers : v # w => life'[v] = life[v]
      /\ UNCHANGED <<forked, nConnects>>
  BY DEF Dies, PerlTypes
<1>3. \A v \in Workers : v \in holders <=> life'[v] = "live" /\ nConnects'[v] > 0
  BY <1>1, <1>2 DEF Listening
<1>4. \A v \in Workers : v > forked => life'[v] = life[v] /\ nConnects'[v] = nConnects[v]
  BY <1>2 DEF Listening
<1>5. QED
  BY <1>1, <1>2, <1>3, <1>4, ListeningEnds

\* A step that does not touch the socket, the workers' lives or their slots.
LEMMA ListeningQuiet ==
  ASSUME Listening, UNCHANGED <<forked, srv, life, nConnects, pending, state>>
  PROVE  Listening'
  BY DEF Listening

\* Every step keeps it.
LEMMA ListeningStep == PerlInv /\ Listening /\ [PerlNext]_PerlVars => Listening'
<1> SUFFICES ASSUME PerlInv, Listening, [PerlNext]_PerlVars PROVE Listening'
  OBVIOUS
<1>0. PerlTypes
  BY PerlTypesAre DEF PerlInv
<1>1. CASE Fork
  <2>1. PICK m \in Workers : m = forked + 1 /\ forked \in Nat
    <3>1. PICK f \in Nat : f = forked /\ f < NThreads
      BY <1>0, <1>1, PerlAssumption DEF Fork, PerlTypes
    <3>2. f + 1 \in 1..NThreads
      BY <3>1, PerlAssumption
    <3>3. QED
      BY <3>1, <3>2 DEF Workers
  <2>2. /\ forked' = m /\ life' = [life EXCEPT ![m] = "live"]
        /\ Parent \in srv /\ srv' \in {srv \union {m}, (srv \ {Parent}) \union {m}}
        /\ UNCHANGED <<nConnects, pending, state>>
    BY <1>1, <2>1 DEF Fork
  <2>3. m > forked /\ \A w \in Workers : w > m => w > forked /\ w # m
    BY <2>1, WorkersAreNumbered
  <2>4. life'[m] = "live" /\ \A w \in Workers : w # m => life'[w] = life[w]
    BY <1>0, <2>2 DEF PerlTypes
  <2>5. nConnects'[m] > 0
    <3>1. nConnects[m] = MaxConnect
      BY <2>3 DEF Listening
    <3>2. QED
      BY <2>2, <3>1, PerlAssumption
  <2>6. \A w \in Workers : w \in srv' <=> life'[w] = "live" /\ nConnects'[w] > 0
    <3>1. \A w \in Workers : w # m => (w \in srv' <=> w \in srv)
      BY <2>2, WorkersAreNumbered
    <3>2. m \in srv'
      BY <2>2
    <3>3. QED
      BY <2>2, <2>4, <2>5, <3>1, <3>2 DEF Listening
  <2>7. \A w \in Workers : w > forked' => life'[w] = "none" /\ nConnects'[w] = MaxConnect
    BY <2>2, <2>3, <2>4 DEF Listening
  <2>8. srv # {} /\ srv' # {}
    BY <2>2
  <2>9. QED
    BY <2>2, <2>6, <2>7, <2>8 DEF Listening
<1>2. CASE MainCloses
  <2>1. PICK holders : Ends({}, {}, holders) /\ holders = srv \ {Parent}
    BY <1>2 DEF MainCloses
  <2>2. UNCHANGED <<forked, life, nConnects>>
    BY <1>2 DEF MainCloses, worker
  <2>3. \A w \in Workers : w \in holders <=> life'[w] = "live" /\ nConnects'[w] > 0
    BY <2>1, <2>2, WorkersAreNumbered DEF Listening
  <2>4. PICK none : none = {} /\ Ends(none, none, holders)
    BY <2>1
  <2>5. QED
    BY <1>0, <2>1, <2>2, <2>3, <2>4, ListeningEnds
<1>3. ASSUME NEW w \in Workers, Accept(w) PROVE Listening'
  <2>1. /\ life[w] = "live" /\ pending # <<>> /\ nConnects[w] > 0 /\ w \in srv
        /\ nConnects' = [nConnects EXCEPT ![w] = nConnects[w] - 1]
        /\ UNCHANGED <<forked, life>>
    BY <1>0, <1>3 DEF Accept, MayAccept, Sleeps, PerlTypes
  <2>2. PICK k \in Nat : k = nConnects[w] /\ k > 0
    BY <1>0, <2>1, PerlAssumption DEF PerlTypes
  <2>3. PICK none, taken, holders :
          /\ none = {} /\ taken = {Head(pending)} /\ Ends(none, taken, holders)
          /\ holders = IF k - 1 > 0 THEN srv ELSE srv \ {w}
    BY <1>3, <2>2 DEF Accept, KeepsListening
  <2>4. nConnects'[w] = k - 1 /\ \A v \in Workers : v # w => nConnects'[v] = nConnects[v]
    BY <1>0, <2>1, <2>2 DEF PerlTypes
  <2>5. \A v \in Workers : v \in holders <=> life'[v] = "live" /\ nConnects'[v] > 0
    BY <2>1, <2>3, <2>4 DEF Listening
  <2>6. \A v \in Workers : v > forked => life'[v] = life[v] /\ nConnects'[v] = nConnects[v]
    BY <2>1, <2>4 DEF Listening
  <2>7. holders \subseteq srv
    BY <2>3
  <2>8. QED
    BY <1>0, <2>1, <2>3, <2>5, <2>6, <2>7, ListeningEnds
<1>4. ASSUME NEW w \in Workers, NoAccept(w) PROVE Listening'
  BY <1>4, ListeningQuiet DEF NoAccept
<1>5. ASSUME NEW w \in Workers, sysread(w) PROVE Listening'
  <2>1. life[w] = "live"
    BY <1>5 DEF sysread
  <2>2. CASE UNCHANGED <<forked, srv, life, nConnects, pending, state>>
    BY <2>2, ListeningQuiet
  <2>3. CASE Dies(w, {})
    BY <1>0, <2>1, <2>3, ListeningDies
  <2>4. CASE (\E gone : Ends(gone, {}, srv)) /\ UNCHANGED <<forked, life, nConnects>>
    <3>1. PICK gone, none, holders : none = {} /\ holders = srv /\ Ends(gone, none, holders)
      BY <2>4
    <3>2. \A v \in Workers : v \in holders <=> life'[v] = "live" /\ nConnects'[v] > 0
      BY <2>4, <3>1 DEF Listening
    <3>3. QED
      BY <1>0, <2>4, <3>1, <3>2, ListeningEnds
  <2>5. QED
    BY <1>5, <2>2, <2>3, <2>4 DEF sysread
<1>6. ASSUME NEW w \in Workers, SIGINT(w) PROVE Listening'
  BY <1>0, <1>6, ListeningDies DEF SIGINT
<1>7. ASSUME NEW w \in Workers, Accept_Dies(w) PROVE Listening'
  <2>1. PICK taken : taken = {Head(pending)} /\ Dies(w, taken)
    BY <1>7 DEF Accept_Dies
  <2>2. life[w] = "live" /\ pending # <<>>
    BY <1>7 DEF Accept_Dies, MayAccept, Sleeps
  <2>3. QED
    BY <1>0, <2>1, <2>2, ListeningDies
<1>8. ASSUME NEW c \in Sockets, Connects(c) PROVE Listening'
  <2>1. /\ srv # {} /\ state' = [state EXCEPT ![c] = "queued"] /\ pending' = Append(pending, c)
        /\ UNCHANGED <<forked, srv, life, nConnects>>
    BY <1>8 DEF Connects, worker
  <2>2. PICK q \in Seq(Sockets) : q = pending
    BY <1>0 DEF PerlTypes
  <2>3. \A d : d = c \/ In(d, q) => In(d, Append(q, c))
    <3>1. Distinct(q) /\ ~In(c, q)
      BY <1>8, <2>2 DEF PerlInv, Waiting, Connects
    <3>2. QED
      BY <3>1, AppendToQueue
  <2>4. \A d \in Sockets : d # c => state'[d] = state[d]
    BY <1>0, <2>1 DEF PerlTypes
  <2>5. \A d \in Sockets : state'[d] = "queued" => In(d, pending') /\ srv' # {}
    BY <2>1, <2>2, <2>3, <2>4 DEF Listening
  <2>6. \A d \in Sockets : state'[d] = "refused" => srv' = {}
    BY <1>0, <2>1, <2>4 DEF Listening, PerlTypes
  <2>7. QED
    BY <2>1, <2>5, <2>6 DEF Listening
<1>9. ASSUME NEW c \in Sockets, PeerMoves(c) PROVE Listening'
  BY <1>9, ListeningQuiet DEF PeerMoves, worker
<1>10. CASE UNCHANGED PerlVars
  BY <1>10, ListeningQuiet DEF PerlVars, worker
<1>11. QED
  BY <1>1, <1>2, <1>3, <1>4, <1>5, <1>6, <1>7, <1>8, <1>9, <1>10 DEF PerlNext, Step

\* Nobody waits at the Perl server in vain: while a connection waits, main or a
\* living worker with a slot has the socket to take it from, though the sockets
\* are closed one by one as workers spend their slots or die; and a connection is
\* refused only when no living worker has a slot and main forks no more.
THEOREM NobodyWaitsInVain ==
  PerlSpec => [](\A c \in Sockets :
    /\ state[c] = "queued" =>
         Parent \in srv \/ \E w \in Workers : w \in srv /\ life[w] = "live" /\ nConnects[w] > 0
    /\ state[c] = "refused" =>
         Parent \notin srv /\ \A w \in Workers : life[w] # "live" \/ nConnects[w] = 0)
<1> DEFINE Awaited(c) ==
    /\ state[c] = "queued" =>
         Parent \in srv \/ \E w \in Workers : w \in srv /\ life[w] = "live" /\ nConnects[w] > 0
    /\ state[c] = "refused" =>
         Parent \notin srv /\ \A w \in Workers : life[w] # "live" \/ nConnects[w] = 0
<1>1. PerlInit => Listening
  <2> SUFFICES ASSUME PerlInit PROVE Listening
    OBVIOUS
  <2>1. \A w \in Workers : w \notin srv /\ life[w] = "none" /\ nConnects[w] = MaxConnect
    BY WorkersAreNumbered DEF PerlInit
  <2>2. QED
    BY <2>1 DEF PerlInit, Listening
<1>2. PerlInv /\ Listening => \A c \in Sockets : Awaited(c)
  <2> SUFFICES ASSUME PerlInv, Listening, NEW c \in Sockets PROVE Awaited(c)
    OBVIOUS
  <2>1. PerlTypes
    BY PerlTypesAre DEF PerlInv
  <2>2. ASSUME state[c] = "queued"
        PROVE  Parent \in srv \/ \E w \in Workers : w \in srv /\ life[w] = "live" /\ nConnects[w] > 0
    BY <2>1, <2>2 DEF PerlTypes, Listening
  <2>3. ASSUME state[c] = "refused", NEW w \in Workers, life[w] = "live"
        PROVE  nConnects[w] = 0
    <3>1. ~(nConnects[w] > 0)
      BY <2>3 DEF Listening
    <3>2. nConnects[w] \in Nat
      BY <2>1, PerlAssumption DEF PerlTypes
    <3>3. QED
      BY <3>1, <3>2
  <2>4. state[c] = "refused" => Parent \notin srv
    BY DEF Listening
  <2>5. QED
    BY <2>2, <2>3, <2>4
<1>3. QED
  BY <1>1, <1>2, PerlStarts, PerlStep, ListeningStep, PTL DEF PerlSpec

=============================================================================
