------------------------- MODULE BachanClientProofs -------------------------
(***************************************************************************)
(* Proofs about BachanClient for every request length, receive buffer,     *)
(* interval, number of clients, path and length of the run.                *)
(***************************************************************************)
EXTENDS BachanClient, SequenceTheorems, TLAPS

-----------------------------------------------------------------------------
(* The queue of send times.                                                *)

\* n bytes sent at the same time go to the end of the queue.
LEMMA AppendCopies ==
  ASSUME NEW S, NEW s \in Seq(S), NEW v \in S, NEW n \in Nat
  PROVE  /\ s \o [i \in 1..n |-> v] \in Seq(S)
         /\ Len(s \o [i \in 1..n |-> v]) = Len(s) + n
         /\ \A i \in 1..(Len(s) + n) :
              (s \o [j \in 1..n |-> v])[i] = IF i <= Len(s) THEN s[i] ELSE v
<1> DEFINE t == [i \in 1..n |-> v]
<1>1. t \in Seq(S) /\ Len(t) = n /\ \A i \in 1..n : t[i] = v
  <2>1. t \in [1..n -> S]
    OBVIOUS
  <2>2. QED
    BY <2>1, SeqDef
<1> HIDE DEF t
<1>2. /\ Len(s) \in Nat /\ s \o t \in Seq(S)
      /\ Len(s \o t) = Len(s) + Len(t)
      /\ \A i \in 1..(Len(s) + Len(t)) :
           (s \o t)[i] = IF i <= Len(s) THEN s[i] ELSE t[i - Len(s)]
  BY <1>1, ConcatProperties, LenProperties
<1>3. \A i \in 1..(Len(s) + n) : ~(i <= Len(s)) => i - Len(s) \in 1..n
  BY <1>2
<1>4. \A i \in 1..(Len(s) + n) : (s \o t)[i] = IF i <= Len(s) THEN s[i] ELSE v
  BY <1>1, <1>2, <1>3
<1>5. QED
  BY <1>1, <1>2, <1>4 DEF t

\* The bytes received are the first of the queue; the others stay in order.
LEMMA DropFirst ==
  ASSUME NEW S, NEW s \in Seq(S), NEW k \in Nat, k <= Len(s)
  PROVE  /\ SubSeq(s, k + 1, Len(s)) \in Seq(S)
         /\ Len(SubSeq(s, k + 1, Len(s))) = Len(s) - k
         /\ \A i \in 1..(Len(s) - k) : SubSeq(s, k + 1, Len(s))[i] = s[k + i]
<1> DEFINE r == SubSeq(s, k + 1, Len(s))
<1>1. Len(s) \in Nat /\ \A i \in 1..Len(s) : s[i] \in S
  BY LenProperties
<1>2. \A i \in (k + 1)..Len(s) : s[i] \in S
  BY <1>1
<1>3. /\ r \in Seq(S)
      /\ Len(r) = IF k + 1 <= Len(s) THEN Len(s) - (k + 1) + 1 ELSE 0
      /\ \A i \in 1..(Len(s) - (k + 1) + 1) : r[i] = s[k + 1 + i - 1]
  BY <1>1, <1>2, SubSeqProperties
<1> HIDE DEF r
<1>4. Len(r) = Len(s) - k
  BY <1>1, <1>3
<1>5. \A i \in 1..(Len(s) - k) : r[i] = s[k + i]
  BY <1>1, <1>3
<1>6. QED
  BY <1>3, <1>4, <1>5 DEF r

\* Times up to now are times up to any later moment.
LEMMA LaterTimes ==
  ASSUME NEW m \in Nat, NEW n \in Nat, m <= n, NEW s \in Seq(0..m)
  PROVE  s \in Seq(0..n)
<1>1. Len(s) \in Nat /\ s \in [1..Len(s) -> 0..m]
  BY LenProperties
<1>2. s \in [1..Len(s) -> 0..n]
  BY <1>1
<1>3. QED
  BY <1>1, <1>2, SeqDef

-----------------------------------------------------------------------------
(* The inductive invariant.                                                *)

\* Only a live client has watchers, and one that was never added has sent
\* nothing.
Watched ==
  /\ state # "live" => active = {} /\ pending = {}
  /\ state = "none" => net = "none" /\ stream = <<>>

\* The ramp's timer is stopped by the add that would exceed MAX_CLIENTS.
RampStops == wev_silent => number_of_clients <= MaxClients

\* What an event owed says is still so when its callback runs.  wev_recv: only
\* wcb_recv takes bytes.  wev_connect: nothing is sent before the poll that
\* reports it, because a socket that can be written makes it ready as well; so
\* the EV_READ of that poll can only be the end of the connection.  Both unless
\* the event is spurious.
EventsHold ==
  /\ "recv" \in pending => Readable \/ spurious
  /\ "connect" \in active /\ "connect" \notin pending =>
       stream = <<>> /\ "send" \notin pending
  /\ "connect" \in pending /\ tev_read => net \in {"fin", "err"} \/ spurious

\* ts is the time of the latest send, so no byte under way is younger, and while
\* the client lives the last byte under way is of that send: a request that does
\* not get one byte into the path deletes the client.
StampIsLatest ==
  /\ \A i \in 1..Len(stream) : stream[i] <= ts
  /\ state = "live" /\ Len(stream) # 0 => stream[Len(stream)] = ts

ClientInv ==
  TypeOK /\ Watched /\ RampStops /\ EventsHold /\ StampIsLatest /\ SamplesAreSound

-----------------------------------------------------------------------------
(* The steps.                                                              *)

\* The types, one conjunct of facts at a time.
LEMMA Types ==
  ASSUME TypeOK
  PROVE  /\ running \in BOOLEAN /\ wev_silent \in BOOLEAN
         /\ tev_read \in BOOLEAN /\ spurious \in BOOLEAN
         /\ number_of_clients \in Nat /\ number_of_clients <= MaxClients + 1
         /\ active \subseteq Watchers /\ pending \subseteq active
         /\ due \in Nat /\ to_send \in Nat
         /\ now \in Nat /\ 1 <= now /\ now <= MaxTime
         /\ ts \in Nat /\ ts <= now
         /\ stream \in Seq(0..now) /\ Len(stream) \in Nat
         /\ ready \in Nat /\ ready <= Len(stream)
         /\ Len(stream) - ready <= SndCap
<1>1. /\ running \in BOOLEAN /\ wev_silent \in BOOLEAN
      /\ tev_read \in BOOLEAN /\ spurious \in BOOLEAN
      /\ active \subseteq Watchers /\ pending \subseteq active
      /\ due \in Nat /\ to_send \in Nat
      /\ stream \in Seq(0..now)
  BY DEF TypeOK
<1>2. Len(stream) \in Nat
  BY <1>1, LenProperties
<1>3. now \in Nat /\ 1 <= now /\ now <= MaxTime
  BY ClientAssumption DEF TypeOK
<1>4. number_of_clients \in Nat /\ number_of_clients <= MaxClients + 1
  BY ClientAssumption DEF TypeOK
<1>5. ts \in Nat /\ ts <= now
  BY <1>3 DEF TypeOK
<1>6. ready \in Nat /\ ready <= Len(stream) /\ Len(stream) - ready <= SndCap
  BY <1>2, ClientAssumption DEF TypeOK, Free
<1>7. QED
  BY <1>1, <1>2, <1>3, <1>4, <1>5, <1>6

\* The room of the path when n bytes are sent, or n received.
LEMMA Room ==
  ASSUME NEW cap \in Nat, NEW len \in Nat, NEW rdy \in Nat, NEW n \in Nat,
         rdy <= len, len - rdy <= cap
  PROVE  /\ n <= cap - (len - rdy) =>
              cap - ((len + n) - rdy) \in 0..cap /\ rdy \in 0..(len + n)
         /\ n <= rdy =>
              cap - ((len - n) - (rdy - n)) \in 0..cap /\ rdy - n \in 0..(len - n)
OBVIOUS

\* The invariant holds initially.
LEMMA ClientInit ==
  ASSUME Init
  PROVE  ClientInv
<1>1. stream \in Seq(0..now) /\ Len(stream) = 0
  BY DEF Init
<1>2. sample \in [took : Nat, real : Nat, reply : BOOLEAN, last : BOOLEAN, spurious : BOOLEAN] /\ sample.reply = TRUE
      /\ sample.took = 0 /\ sample.real = 0
  BY DEF Init
<1>3. TypeOK
  <2>1. /\ now \in 1..MaxTime /\ ts \in 0..now /\ due \in Nat /\ to_send \in Nat
        /\ number_of_clients \in 0..(MaxClients + 1)
    BY ClientAssumption DEF Init
  <2>2. ready \in 0..Len(stream) /\ Free \in 0..SndCap
    BY <1>1, ClientAssumption DEF Init, Free
  <2>3. /\ running \in BOOLEAN /\ wev_silent \in BOOLEAN
        /\ tev_read \in BOOLEAN /\ spurious \in BOOLEAN
    BY DEF Init
  <2>4. QED
    BY <1>1, <1>2, <2>1, <2>2, <2>3 DEF Init, TypeOK
<1>4. Watched /\ RampStops /\ EventsHold
  BY <1>1, ClientAssumption DEF Init, Watched, RampStops, EventsHold
<1>5. StampIsLatest
  BY <1>1 DEF StampIsLatest
<1>6. SamplesAreSound
  BY <1>2 DEF SamplesAreSound
<1>7. QED
  BY <1>3, <1>4, <1>5, <1>6 DEF ClientInv

\* The ramp's timer adds a client, or stops itself.
LEMMA SilentStep ==
  ASSUME ClientInv, wcb_silent
  PROVE  ClientInv'
<1> USE DEF ClientInv, wcb_silent
<1>1. number_of_clients \in Nat /\ number_of_clients <= MaxClients
  BY Types DEF RampStops
<1>2. number_of_clients' \in 0..(MaxClients + 1)
      /\ (wev_silent' => number_of_clients' <= MaxClients)
  <2>1. number_of_clients' = number_of_clients + 1
    OBVIOUS
  <2>2. number_of_clients' \in 0..(MaxClients + 1)
    BY <1>1, <2>1, ClientAssumption
  <2>3. CASE RampIsOver
    <3>1. ~wev_silent'
      BY <2>3
    <3>2. QED
      BY <2>2, <3>1
  <2>4. CASE ~RampIsOver
    <3>1. number_of_clients' <= MaxClients
      BY <1>1, <2>1, <2>4, ClientAssumption DEF RampIsOver
    <3>2. QED
      BY <2>2, <3>1
  <2>5. QED
    BY <2>3, <2>4
<1>3. wev_silent' \in BOOLEAN
  BY Types
<1>4. CASE state = "none" /\ client_add
  <2>1. active = {} /\ pending = {} /\ net = "none" /\ stream = <<>>
    BY <1>4 DEF Watched
  <2>2. ready = 0 /\ Len(stream) = 0
    BY <2>1, Types
  <2>3. due' \in Nat
    BY <1>4, Types, ClientAssumption DEF client_add
  <2>4. active' \subseteq Watchers /\ pending' \subseteq active' /\ "recv" \notin pending'
        /\ "connect" \notin pending' /\ "send" \notin pending'
    BY <1>4, <2>1 DEF client_add, Watchers
  <2>5. state' \in {"live", "failed"} /\ net' \in {"none", "syn", "est"}
    BY <1>4, <2>1 DEF client_add
  <2>6. TypeOK'
    BY <1>2, <1>3, <2>3, <2>4, <2>5 DEF TypeOK, Free
  <2>7. Watched'
    BY <1>4, <2>1 DEF client_add, Watched
  <2>8. EventsHold'
    BY <2>1, <2>4 DEF EventsHold
  <2>9. SamplesAreSound'
    <3>1. sample.reply \/ sample.spurious
      BY <2>1 DEF SamplesAreSound
    <3>2. QED
      BY <3>1 DEF SamplesAreSound
  <2>10. StampIsLatest'
    BY <2>2 DEF StampIsLatest
  <2>11. QED
    BY <1>2, <2>6, <2>7, <2>8, <2>9, <2>10 DEF RampStops
<1>5. CASE UNCHANGED <<state, active, due, net>>
  <2>1. TypeOK'
    BY <1>2, <1>3, <1>5 DEF TypeOK, Free
  <2>2. Watched' /\ EventsHold' /\ StampIsLatest' /\ SamplesAreSound'
    BY <1>5 DEF Watched, EventsHold, StampIsLatest, SamplesAreSound, Readable
  <2>3. QED
    BY <1>2, <2>1, <2>2 DEF RampStops
<1>6. QED
  BY <1>4, <1>5

\* wcb_exit and wcb_timeout: the watchers and the requests owed.
LEMMA TimerStep ==
  ASSUME ClientInv, wcb_exit \/ wcb_timeout
  PROVE  ClientInv'
<1> USE DEF ClientInv
<1>1. CASE wcb_exit
  <2>1. TypeOK'
    BY <1>1 DEF wcb_exit, TypeOK, Free, ramp, client, path
  <2>2. QED
    BY <1>1, <2>1 DEF wcb_exit, ramp, client, path, Watched, RampStops, EventsHold,
                      StampIsLatest, SamplesAreSound, Readable
<1>2. CASE wcb_timeout
  <2>1. active' \subseteq Watchers /\ pending' \subseteq active' /\ pending' \subseteq pending
        /\ active # {} /\ state = "live"
    BY <1>2, Types DEF wcb_timeout, Called, Watchers, Watched
  <2>2. to_send' \in Nat
    BY <1>2, Types DEF wcb_timeout
  <2>3. TypeOK'
    BY <1>2, <2>1, <2>2 DEF wcb_timeout, TypeOK, Free, ramp, path
  <2>4. EventsHold'
    <3>1. /\ "recv" \in pending' => "recv" \in pending
          /\ "connect" \in active' => "connect" \in active
          /\ "connect" \in pending' <=> "connect" \in pending
          /\ "send" \in pending' => "send" \in pending
      BY <1>2 DEF wcb_timeout, Called
    <3>2. QED
      BY <1>2, <3>1 DEF wcb_timeout, EventsHold, Readable, path
  <2>5. QED
    BY <1>2, <2>1, <2>3, <2>4
    DEF wcb_timeout, ramp, path, Watched, RampStops, StampIsLatest, SamplesAreSound
<1>3. QED
  BY <1>1, <1>2

\* wcb_connect: the connection is up, or the client is deleted.
LEMMA ConnectStep ==
  ASSUME ClientInv, wcb_connect
  PROVE  ClientInv'
<1> USE DEF ClientInv, wcb_connect
<1>1. /\ "connect" \in pending /\ active # {} /\ state = "live"
  BY Types DEF Watched, Connected, Called
<1>2. /\ active' \subseteq Watchers /\ pending' \subseteq active' /\ pending' \subseteq pending
      /\ "connect" \notin active' /\ "connect" \notin pending'
  BY Types DEF Connected, Called, client_del, Watchers
<1>3. to_send' \in Nat
  BY Types DEF Connected
<1>4. state' \in {"live", "freed"} /\ (state' = "freed" => active' = {} /\ pending' = {})
  BY <1>1 DEF Connected, client_del
<1>5. TypeOK'
  BY <1>2, <1>3, <1>4 DEF TypeOK, Free, ramp, path
<1>6. EventsHold'
  BY <1>2 DEF EventsHold, Readable, path
<1>7. StampIsLatest'
  BY <1>1 DEF path, StampIsLatest
<1>8. QED
  BY <1>1, <1>4, <1>5, <1>6, <1>7 DEF ramp, path, Watched, RampStops, SamplesAreSound

\* How many bytes client_send adds: at most what the path has room for.
LEMMA SentFits ==
  ASSUME TypeOK, NEW n \in Nat
  PROVE  SentBytes(n) \in Nat /\ SentBytes(n) <= Free /\ (n = 0 => SentBytes(n) = 0)
<1>1. Free \in Nat
  BY ClientAssumption DEF TypeOK
<1>2. n * ReqLen \in Nat
  BY ClientAssumption
<1>3. n = 0 => n * ReqLen = 0
  BY ClientAssumption
<1>4. PICK k \in Nat : k = n * ReqLen
  BY <1>2
<1>5. SentBytes(n) = IF net = "err" THEN 0 ELSE Least(k, Free)
  BY <1>4 DEF SentBytes
<1>6. QED
  BY <1>1, <1>3, <1>4, <1>5 DEF Least

\* A send that fits gets at least one byte into the path.
LEMMA FitsAByte ==
  ASSUME TypeOK, NEW n \in Nat, n # 0, SendsFit(n)
  PROVE  SentBytes(n) > 0
<1>1. Free \in Nat
  BY ClientAssumption DEF TypeOK
<1>2. PICK k \in Nat, f \in Nat, q \in Nat : k = n * ReqLen /\ f = Free /\ q = (n - 1) * ReqLen
  BY <1>1, ClientAssumption
<1>3. net # "err" /\ q < f
  BY <1>2 DEF SendsFit
<1>4. k > 0
  BY <1>2, ClientAssumption
<1>5. SentBytes(n) = Least(k, f)
  BY <1>2, <1>3 DEF SentBytes
<1>6. QED
  BY <1>3, <1>4, <1>5 DEF Least

\* wcb_send: the requests go out at the time that ts now shows.
LEMMA SendStep ==
  ASSUME ClientInv, wcb_send
  PROVE  ClientInv'
<1> USE DEF ClientInv, wcb_send
<1>1. PICK n \in Nat : n = SentBytes(to_send) /\ n <= Free /\ (to_send = 0 => n = 0)
  BY Types, SentFits
<1>2. stream' = stream \o [i \in 1..n |-> now]
  BY <1>1 DEF client_send
<1>3. now \in 0..now
  BY Types
<1>4. /\ stream' \in Seq(0..now)
      /\ Len(stream') = Len(stream) + n
      /\ \A i \in 1..(Len(stream) + n) :
           stream'[i] = IF i <= Len(stream) THEN stream[i] ELSE now
  BY <1>2, <1>3, Types, AppendCopies
<1>5. ts' = (IF to_send > 0 THEN now ELSE ts) /\ now' = now
  BY DEF client_send, Stamp
<1>6. ts' \in 0..now /\ ts <= ts' /\ (to_send > 0 => ts' = now)
  BY <1>5, Types
<1>7. \A i \in 1..Len(stream') : stream'[i] <= ts'
  <2>1. SUFFICES ASSUME NEW i \in 1..Len(stream')
                 PROVE  stream'[i] <= ts'
    OBVIOUS
  <2>2. i \in 1..(Len(stream) + n)
    BY <1>4
  <2>3. CASE i <= Len(stream)
    <3>1. i \in 1..Len(stream)
      BY <2>2, <2>3, Types
    <3>2. stream'[i] = stream[i] /\ stream[i] <= ts
      BY <1>4, <2>2, <2>3, <3>1 DEF StampIsLatest
    <3>3. stream[i] \in 0..now
      BY <3>1, Types, LenProperties
    <3>4. QED
      BY <1>6, <3>2, <3>3, Types
  <2>4. CASE ~(i <= Len(stream))
    <3>1. n # 0
      BY <2>2, <2>4, Types
    <3>2. to_send > 0
      BY <1>1, <3>1, Types
    <3>3. stream'[i] = now
      BY <1>4, <2>2, <2>4
    <3>4. QED
      BY <1>6, <3>2, <3>3, Types
  <2>5. QED
    BY <2>3, <2>4
<1>8. Free' \in 0..SndCap /\ ready' \in 0..Len(stream')
  <2>1. ready' = ready /\ Free' = SndCap - (Len(stream') - ready)
    BY DEF Free
  <2>2. n <= SndCap - (Len(stream) - ready)
    BY <1>1 DEF Free
  <2>3. QED
    <3>1. PICK l \in Nat, r \in Nat : l = Len(stream) /\ r = ready
      BY Types
    <3>2. n \in Nat /\ Len(stream') = l + n
      BY <1>1, <1>4, <3>1
    <3>3. r <= l /\ l - r <= SndCap /\ SndCap \in Nat
      BY <3>1, Types, ClientAssumption
    <3>4. n <= SndCap - (l - r)
      BY <2>2, <3>1
    <3>5. SndCap - ((l + n) - r) \in 0..SndCap /\ r \in 0..(l + n)
      BY <3>2, <3>3, <3>4, Room
    <3>6. QED
      BY <2>1, <3>1, <3>2, <3>5
<1>9. "send" \in pending /\ active # {} /\ state = "live"
  BY Types DEF Watched
<1>10. /\ active' \subseteq Watchers /\ pending' \subseteq active' /\ pending' \subseteq pending
       /\ active' \subseteq active
  BY Types DEF Called, client_del
<1>11. to_send' \in Nat
  BY Types
<1>12. state' \in {"live", "freed"} /\ (state' = "freed" => active' = {} /\ pending' = {})
  BY <1>9 DEF client_del
<1>13. TypeOK'
  BY <1>4, <1>5, <1>6, <1>8, <1>10, <1>11, <1>12 DEF TypeOK, ramp
<1>14. EventsHold'
  <2>1. "recv" \in pending' => Readable' \/ spurious'
    BY <1>10 DEF EventsHold, Readable
  <2>2. "connect" \in active => "connect" \in pending
    BY <1>9 DEF EventsHold
  <2>3. "connect" \in active' => "connect" \in pending'
    BY <1>9, <2>2 DEF Called, client_del
  <2>4. "connect" \in pending' /\ tev_read' => net' \in {"fin", "err"} \/ spurious'
    BY <1>10 DEF EventsHold
  <2>5. QED
    BY <2>1, <2>3, <2>4 DEF EventsHold
<1>15. state' = "live" /\ Len(stream') # 0 => stream'[Len(stream')] = ts'
  <2>1. SUFFICES ASSUME state' = "live", Len(stream') # 0
                 PROVE  stream'[Len(stream')] = ts'
    OBVIOUS
  <2>2. SendsFit(to_send)
    BY <2>1 DEF client_del
  <2>3. CASE to_send = 0
    <3>1. n = 0 /\ ts' = ts
      BY <1>1, <1>5, <2>3
    <3>2. Len(stream') = Len(stream) /\ Len(stream) \in 1..(Len(stream) + n)
      BY <1>4, <2>1, <3>1, Types
    <3>3. QED
      BY <1>4, <1>9, <2>1, <3>1, <3>2, Types DEF StampIsLatest
  <2>4. CASE to_send # 0
    <3>1. n > 0
      BY <1>1, <2>2, <2>4, Types, FitsAByte
    <3>2. Len(stream') \in 1..(Len(stream) + n) /\ ~(Len(stream') <= Len(stream))
      BY <1>4, <3>1, Types
    <3>3. to_send > 0
      BY <2>4, Types
    <3>4. QED
      BY <1>4, <1>6, <3>2, <3>3
  <2>5. QED
    BY <2>3, <2>4
<1>16. StampIsLatest'
  BY <1>7, <1>15 DEF StampIsLatest
<1>17. QED
  BY <1>9, <1>12, <1>13, <1>14, <1>16 DEF ramp, Watched, RampStops, SamplesAreSound

\* wcb_recv: the sample is sound because ts is not younger than any byte.
LEMMA RecvStep ==
  ASSUME ClientInv, wcb_recv
  PROVE  ClientInv'
<1> USE DEF ClientInv, wcb_recv
<1>1. /\ "recv" \in pending /\ active # {} /\ state = "live" /\ (Readable \/ spurious)
  BY Types DEF Watched, EventsHold
<1>2. /\ active' \subseteq Watchers /\ pending' \subseteq active' /\ pending' \subseteq pending
      /\ active' \subseteq active /\ "recv" \notin pending'
  BY Types DEF RecvReply, RecvNothing, RecvFails, Called, client_del
<1>3. state' \in {"live", "freed"} /\ (state' = "freed" => active' = {} /\ pending' = {})
  BY <1>1 DEF RecvReply, RecvNothing, RecvFails, client_del
<1>4. /\ "connect" \in active' => "connect" \in active
      /\ "connect" \in active' /\ "connect" \notin pending' => "connect" \notin pending
      /\ "connect" \in pending' => "connect" \in pending
      /\ "send" \in pending' => "send" \in pending
  BY <1>2 DEF RecvReply, RecvNothing, RecvFails, Called, client_del
<1>5. now' = now /\ ts' = ts /\ net' = net /\ tev_read' = tev_read /\ spurious' = spurious
  OBVIOUS
<1>6. now - ts \in Nat
  BY Types
<1>7. CASE RecvReply
  <2>1. PICK nb \in Nat : /\ nb = Least(ready, RecvSize) /\ 0 < nb /\ nb <= ready
    <3>1. ready \in Nat /\ RecvSize \in Nat /\ 0 < RecvSize
      BY Types, ClientAssumption
    <3>2. Least(ready, RecvSize) \in Nat /\ Least(ready, RecvSize) <= ready
      BY <3>1 DEF Least
    <3>3. 0 < Least(ready, RecvSize)
      BY <1>7, <3>2 DEF RecvReply
    <3>4. QED
      BY <3>2, <3>3
  <2>2. /\ sample' = [took |-> now - ts, real |-> now - stream[nb], reply |-> TRUE,
                      last |-> nb = Len(stream), spurious |-> spurious]
        /\ stream' = SubSeq(stream, nb + 1, Len(stream))
        /\ ready' = ready - nb
    BY <1>7, <2>1 DEF RecvReply, Sample
  <2>3. nb \in 1..Len(stream) /\ nb <= Len(stream)
    BY <2>1, Types
  <2>4. stream[nb] \in 0..now /\ stream[nb] <= ts
    BY <2>3, Types, LenProperties DEF StampIsLatest
  <2>5. now - stream[nb] \in Nat /\ now - ts <= now - stream[nb]
    <3>1. PICK a \in Nat, b \in Nat, e \in Nat : a = now /\ b = ts /\ e = stream[nb]
      BY <2>4, Types
    <3>2. e <= a /\ e <= b
      BY <2>4, <3>1
    <3>3. a - e \in Nat /\ a - b <= a - e
      BY <3>2
    <3>4. QED
      BY <3>1, <3>3
  <2>6. /\ stream' \in Seq(0..now)
        /\ Len(stream') = Len(stream) - nb
        /\ \A i \in 1..(Len(stream) - nb) : stream'[i] = stream[nb + i]
    BY <2>2, <2>3, Types, DropFirst
  <2>7. StampIsLatest'
    <3>1. ASSUME NEW i \in 1..Len(stream')
          PROVE  stream'[i] <= ts'
      <4>1. i \in 1..(Len(stream) - nb) /\ nb + i \in 1..Len(stream)
        BY <2>3, <2>6, Types
      <4>2. QED
        BY <1>5, <2>6, <4>1 DEF StampIsLatest
    <3>2. Len(stream') # 0 => stream'[Len(stream')] = ts'
      <4>1. SUFFICES ASSUME Len(stream') # 0 PROVE stream'[Len(stream')] = ts'
        OBVIOUS
      <4>2. PICK l \in Nat : l = Len(stream) - nb /\ l # 0
        <5>1. Len(stream) \in Nat /\ nb <= Len(stream)
          BY <2>3, Types
        <5>2. Len(stream) - nb \in Nat
          BY <5>1
        <5>3. Len(stream) - nb # 0
          BY <2>6, <4>1
        <5>4. QED
          BY <5>2, <5>3
      <4>3. l \in 1..(Len(stream) - nb) /\ nb + l = Len(stream) /\ Len(stream) # 0
        BY <2>3, <4>2, Types
      <4>4. stream'[l] = stream[Len(stream)] /\ Len(stream') = l
        BY <2>6, <4>2, <4>3
      <4>5. QED
        BY <1>1, <1>5, <4>3, <4>4 DEF StampIsLatest
    <3>3. QED
      BY <3>1, <3>2 DEF StampIsLatest
  <2>8. ready' \in 0..Len(stream') /\ Free' \in 0..SndCap
    <3>1. Free' = SndCap - (Len(stream') - ready')
      BY DEF Free
    <3>2. SndCap \in Nat
      BY ClientAssumption
    <3>3. SndCap - ((Len(stream) - nb) - (ready - nb)) \in 0..SndCap
          /\ ready - nb \in 0..(Len(stream) - nb)
      BY <2>1, <3>2, Types, Room
    <3>4. QED
      BY <2>2, <2>6, <3>1, <3>3
  <2>9. sample' \in [took : Nat, real : Nat, reply : BOOLEAN, last : BOOLEAN, spurious : BOOLEAN]
    <3>1. (nb = Len(stream)) \in BOOLEAN /\ spurious \in BOOLEAN
      BY Types
    <3>2. QED
      BY <1>6, <2>2, <2>5, <3>1
  <2>10. TypeOK'
    BY <1>2, <1>3, <1>5, <2>6, <2>8, <2>9 DEF TypeOK, ramp
  <2>11. SamplesAreSound'
    <3>1. sample'.reply = TRUE /\ sample'.took = now - ts /\ sample'.real = now - stream[nb]
      BY <2>2
    <3>2. sample'.last => nb = Len(stream)
      BY <2>2
    <3>3. nb = Len(stream) => stream[nb] = ts
      BY <1>1, <2>1, <2>3 DEF StampIsLatest
    <3>4. sample'.last => sample'.took = sample'.real
      BY <3>1, <3>2, <3>3
    <3>5. QED
      BY <2>5, <3>1, <3>4 DEF SamplesAreSound
  <2>12. EventsHold'
    <3>1. Len(stream) # 0
      BY <2>3, Types
    <3>2. stream # <<>>
      BY <3>1
    <3>3. "connect" \in active => "connect" \in pending
      BY <3>2 DEF EventsHold
    <3>4. QED
      BY <1>2, <1>4, <1>5, <3>3 DEF EventsHold
  <2>13. QED
    BY <1>1, <1>3, <2>7, <2>10, <2>11, <2>12 DEF ramp, Watched, RampStops
<1>8. CASE RecvNothing \/ RecvFails
  <2>1. /\ sample' = [took |-> now - ts, real |-> 0, reply |-> FALSE, last |-> FALSE,
                      spurious |-> spurious]
        /\ stream' = stream /\ ready' = ready
    BY <1>8 DEF RecvNothing, RecvFails, Sample
  <2>2. spurious \/ net \in {"fin", "err"}
    <3>1. CASE RecvNothing
      <4>1. ~(ready > 0)
        BY <3>1 DEF RecvNothing
      <4>2. QED
        BY <1>1, <4>1 DEF Readable
    <3>2. CASE RecvFails
      BY <3>2 DEF RecvFails
    <3>3. QED
      BY <1>8, <3>1, <3>2
  <2>3. sample' \in [took : Nat, real : Nat, reply : BOOLEAN, last : BOOLEAN, spurious : BOOLEAN]
    BY <1>6, <2>1, Types
  <2>4. TypeOK'
    BY <1>2, <1>3, <1>5, <2>1, <2>3 DEF TypeOK, Free, ramp
  <2>5. SamplesAreSound'
    <3>1. sample'.reply = FALSE /\ sample'.spurious = spurious
      BY <2>1
    <3>2. QED
      BY <1>5, <2>2, <3>1 DEF SamplesAreSound
  <2>6. EventsHold'
    BY <1>2, <1>4, <1>5, <2>1 DEF EventsHold
  <2>7. QED
    BY <1>1, <1>3, <1>5, <2>1, <2>4, <2>5, <2>6 DEF ramp, Watched, RampStops, StampIsLatest
<1>9. QED
  BY <1>7, <1>8

\* The loop polls, with a spurious event or without: nothing was sent before
\* wev_connect is reported.
LEMMA PollStep ==
  ASSUME ClientInv, Poll \/ SpuriousPoll
  PROVE  ClientInv'
<1> USE DEF ClientInv
<1>1. PICK W : Iteration(W) /\ Ready \subseteq W /\ W \subseteq active
  BY DEF Poll, SpuriousPoll, Ready
<1>2. /\ pending' = W /\ state = "live" /\ pending = {}
      /\ UNCHANGED <<running, ramp, state, active, to_send, ts, now, sample, path>>
  BY <1>1 DEF Iteration
<1>3. UNCHANGED <<running, number_of_clients, wev_silent, state, active, to_send, ts, now,
                  sample, net, stream, ready>>
  BY <1>2 DEF ramp, path
<1>4. due' \in Nat
  BY <1>1, Types, ClientAssumption DEF Iteration
<1>5. tev_read' \in BOOLEAN /\ spurious' \in BOOLEAN
  BY DEF Poll, SpuriousPoll, Readable
<1>6. TypeOK'
  BY <1>1, <1>2, <1>3, <1>4, <1>5 DEF TypeOK, Free
<1>7. EventsHold'
  <2>1. spurious' \/ (pending' = Ready /\ tev_read' = Readable)
    BY <1>2 DEF Poll, SpuriousPoll, Iteration
  <2>2. "recv" \in pending' => Readable' \/ spurious'
    BY <1>3, <2>1 DEF Ready, Readable
  <2>3. "connect" \in active => stream = <<>> /\ ready = 0
    <3>1. "connect" \in active => stream = <<>>
      BY <1>2 DEF EventsHold
    <3>2. QED
      BY <3>1, Types
  <2>4. "connect" \in active /\ "send" \in pending' => "connect" \in pending'
    <3>1. "send" \in pending' => "send" \in Ready
      BY <1>2 DEF Poll, SpuriousPoll, Iteration
    <3>2. "connect" \in active /\ "send" \in Ready => "connect" \in Ready
      BY DEF Ready
    <3>3. QED
      BY <1>1, <1>2, <3>1, <3>2
  <2>5. "connect" \in pending' /\ tev_read' => net \in {"fin", "err"} \/ spurious'
    <3>1. SUFFICES ASSUME "connect" \in pending', tev_read', ~spurious'
                   PROVE  net \in {"fin", "err"}
      OBVIOUS
    <3>2. ready = 0
      BY <1>1, <1>2, <2>3, <3>1
    <3>3. ~(ready > 0)
      BY <3>2
    <3>4. Readable
      BY <2>1, <3>1
    <3>5. QED
      BY <3>3, <3>4 DEF Readable
  <2>6. QED
    BY <1>3, <2>2, <2>3, <2>4, <2>5 DEF EventsHold
<1>8. QED
  BY <1>2, <1>3, <1>6, <1>7 DEF Watched, RampStops, StampIsLatest, SamplesAreSound

\* The clock and the server.
LEMMA OutsideStep ==
  ASSUME ClientInv, Tick \/ Server
  PROVE  ClientInv'
<1> USE DEF ClientInv
<1>1. CASE Tick
  <2>1. /\ now' = now + 1 /\ now' \in 1..MaxTime /\ ts' \in 0..now'
    BY <1>1, Types, ClientAssumption DEF Tick, client
  <2>2. stream' \in Seq(0..now')
    BY <1>1, <2>1, Types, LaterTimes DEF Tick, path
  <2>3. TypeOK'
    BY <1>1, <2>1, <2>2 DEF Tick, TypeOK, Free, ramp, client, path
  <2>4. QED
    BY <1>1, <2>3 DEF Tick, ramp, client, path, Watched, RampStops, EventsHold,
                      StampIsLatest, SamplesAreSound, Readable
<1>2. CASE Server
  <2> USE <1>2 DEF Server
  <2>1. stream' = stream /\ ready' \in Nat /\ ready <= ready' /\ ready' <= Len(stream)
    BY Types DEF ServerConnects, ServerEchoes, ServerCloses, ConnectionFails
  <2>2. /\ net' \in {"none", "syn", "est", "fin", "err"}
        /\ net \in {"fin", "err"} => net' \in {"fin", "err"}
    BY DEF ServerConnects, ServerEchoes, ServerCloses, ConnectionFails, TypeOK
  <2>3. Free' \in 0..SndCap
    <3>1. Free' = SndCap - (Len(stream) - ready')
      BY <2>1 DEF Free
    <3>2. PICK l \in Nat, r \in Nat, s \in Nat : l = Len(stream) /\ r = ready /\ s = ready'
      BY <2>1, Types
    <3>3. r <= s /\ s <= l /\ l - r <= SndCap /\ SndCap \in Nat
      BY <2>1, <3>2, Types, ClientAssumption
    <3>4. SndCap - (l - s) \in 0..SndCap
      BY <3>3
    <3>5. QED
      BY <3>1, <3>2, <3>4
  <2>4. ready' \in 0..Len(stream')
    BY <2>1, Types
  <2>5. TypeOK'
    BY <2>1, <2>2, <2>3, <2>4 DEF TypeOK, ramp, client
  <2>6. Readable => Readable'
    BY <2>1, <2>2, Types DEF Readable
  <2>7. EventsHold' /\ SamplesAreSound'
    BY <2>1, <2>2, <2>6 DEF EventsHold, SamplesAreSound, client
  <2>8. QED
    BY <2>1, <2>5, <2>7 DEF ramp, client, Watched, RampStops, StampIsLatest
<1>3. QED
  BY <1>1, <1>2

\* Every step preserves the invariant.
LEMMA ClientStep ==
  ASSUME ClientInv, [Next]_vars
  PROVE  ClientInv'
<1>1. CASE Next
  BY <1>1, SilentStep, TimerStep, ConnectStep, SendStep, RecvStep, PollStep, OutsideStep
  DEF Next
<1>2. CASE UNCHANGED vars
  <2>1. TypeOK'
    BY <1>2 DEF ClientInv, TypeOK, Free, vars, ramp, client, path
  <2>2. QED
    BY <1>2, <2>1 DEF ClientInv, vars, ramp, client, path, Watched, RampStops, EventsHold,
                      StampIsLatest, SamplesAreSound, Readable
<1>3. QED
  BY <1>1, <1>2

\* The invariant holds in every state.
LEMMA ClientInvariant == Spec => []ClientInv
<1>1. Init => ClientInv
  BY ClientInit
<1>2. ClientInv /\ [Next]_vars => ClientInv'
  BY ClientStep
<1>3. QED
  BY <1>1, <1>2, PTL DEF Spec

-----------------------------------------------------------------------------
(* The theorems.                                                           *)

\* No callback of client.c runs on a freed client, whichever of wcb_connect,
\* wcb_send and wcb_recv deleted it and whatever else the iteration owed it.
THEOREM CallbacksAreSafe == Spec => []NoUseAfterFree
<1>1. ClientInv => NoUseAfterFree
  BY DEF ClientInv, Watched, NoUseAfterFree
<1>2. QED
  BY <1>1, ClientInvariant, PTL

\* No sample wcb_recv takes of a reply is longer than the reply really took, and
\* one taken with no other byte under way is exact, for every request length, path
\* and pattern of short sends; samples of anything else need a spurious event or a
\* closed or failed connection.
THEOREM LatencyIsSound == Spec => []SamplesAreSound
<1>1. ClientInv => SamplesAreSound
  BY DEF ClientInv
<1>2. QED
  BY <1>1, ClientInvariant, PTL

\* client_del runs only for an end or an error of the connection, for a request
\* that finds no room, or for a spurious event before the connect: the EV_READ that
\* wcb_connect takes for a failed connect is never that of a reply.
THEOREM DropsHaveCause == Spec => DropsOnlyForCause
<1> DEFINE Cause == state = "live" /\ state' = "freed" =>
                      \/ net \in {"fin", "err"}
                      \/ ~SendsFit(to_send)
                      \/ spurious /\ "connect" \in pending
<1>1. ClientInv /\ [Next]_vars => Cause \/ UNCHANGED vars
  <2>1. SUFFICES ASSUME ClientInv, Next, state = "live", state' = "freed"
                 PROVE  \/ net \in {"fin", "err"}
                        \/ ~SendsFit(to_send)
                        \/ spurious /\ "connect" \in pending
    OBVIOUS
  <2>2. ~wcb_silent
    BY <2>1 DEF wcb_silent, client_add
  <2>3. ~(wcb_exit \/ wcb_timeout \/ Poll \/ SpuriousPoll \/ Tick \/ Server)
    BY <2>1 DEF wcb_exit, wcb_timeout, Poll, SpuriousPoll, Iteration, Tick, Server, client
  <2>4. CASE wcb_connect
    BY <2>1, <2>4 DEF wcb_connect, Connected, ClientInv, EventsHold
  <2>5. CASE wcb_send
    BY <2>1, <2>5 DEF wcb_send
  <2>6. CASE wcb_recv
    BY <2>1, <2>6 DEF wcb_recv, RecvReply, RecvNothing, RecvFails
  <2>7. QED
    BY <2>1, <2>2, <2>3, <2>4, <2>5, <2>6 DEF Next
<1>2. QED
  BY <1>1, ClientInvariant, PTL DEF Spec, DropsOnlyForCause

-----------------------------------------------------------------------------
(* Owed requests are not forgotten.                                        *)

\* A live client has its timer started, and its write watcher when it owes
\* requests, whichever callback came last.
OwedIsWatched ==
  /\ state = "live" => "timeout" \in active /\ net # "none" /\ (to_send > 0 => "send" \in active)
  /\ state \in {"none", "failed"} => to_send = 0

\* Someone is at work on the client: a callback is owed, the loop has an event
\* for it, the connect is still under way, or the server has bytes to echo.
Attended ==
  pending # {} \/ Ready # {} \/ net = "syn" \/ (net = "est" /\ ready < Len(stream))

\* Every step keeps owed requests watched.
LEMMA OwedStep == ClientInv /\ OwedIsWatched /\ [Next]_vars => OwedIsWatched'
<1> SUFFICES ASSUME ClientInv, OwedIsWatched, [Next]_vars PROVE OwedIsWatched'
  OBVIOUS
<1>0. state \in {"none", "live", "freed", "failed"} /\ to_send \in Nat /\ pending \subseteq active
  BY DEF ClientInv, TypeOK
<1>1. state # "live" => pending = {}
  BY DEF ClientInv, Watched
<1>2. CASE state' = "freed"
  BY <1>2 DEF OwedIsWatched
<1>3. CASE wcb_silent
  <2>1. to_send' = to_send
    BY <1>3 DEF wcb_silent
  <2>2. CASE UNCHANGED <<state, active, net>>
    BY <2>1, <2>2 DEF OwedIsWatched
  <2>3. CASE state = "none" /\ client_add
    <3>1. to_send' = 0
      BY <2>1, <2>3 DEF OwedIsWatched
    <3>2. \/ state' = "live" /\ "timeout" \in active' /\ net' # "none"
          \/ state' = "failed"
      BY <2>3 DEF client_add
    <3>3. QED
      BY <3>1, <3>2 DEF OwedIsWatched
  <2>4. QED
    BY <1>3, <2>2, <2>3 DEF wcb_silent
<1>4. CASE wcb_timeout
  BY <1>0, <1>1, <1>4 DEF wcb_timeout, Called, path, OwedIsWatched
<1>5. CASE wcb_connect
  <2>1. CASE Connected
    BY <1>0, <1>1, <1>5, <2>1 DEF wcb_connect, Connected, Called, path, OwedIsWatched
  <2>2. QED
    BY <1>2, <1>5, <2>1 DEF wcb_connect, client_del
<1>6. CASE wcb_send
  <2>1. CASE to_send' = 0 /\ active' = active \ {"send"} /\ UNCHANGED <<state, net>>
    BY <1>0, <2>1 DEF OwedIsWatched
  <2>2. QED
    BY <1>2, <1>6, <2>1 DEF wcb_send, client_del
<1>7. CASE wcb_recv
  BY <1>2, <1>7 DEF wcb_recv, RecvReply, RecvNothing, RecvFails, client_del, OwedIsWatched
<1>8. CASE Poll \/ SpuriousPoll
  BY <1>8 DEF Poll, SpuriousPoll, Iteration, path, OwedIsWatched
<1>9. CASE Server
  BY <1>9 DEF Server, client, ServerConnects, ServerEchoes, ServerCloses, ConnectionFails, OwedIsWatched
<1>10. CASE wcb_exit \/ Tick \/ UNCHANGED vars
  BY <1>10 DEF wcb_exit, Tick, vars, client, path, OwedIsWatched
<1>11. QED
  BY <1>3, <1>4, <1>5, <1>6, <1>7, <1>8, <1>9, <1>10 DEF Next

\* A client that owes requests is never left to itself, for every request
\* length, path and interval: while the run goes on and the server has not closed
\* its side, its deletion, a callback, an event, the connect or an echo is ahead.
THEOREM OwedRequestsAreAttended ==
  Spec => [](to_send > 0 /\ running /\ net # "fin" => state = "freed" \/ Attended)
<1>1. Init => OwedIsWatched
  BY DEF Init, OwedIsWatched
<1>2. ClientInv /\ OwedIsWatched => (to_send > 0 /\ running /\ net # "fin" => state = "freed" \/ Attended)
  <2> SUFFICES ASSUME ClientInv, OwedIsWatched, to_send > 0, net # "fin", state # "freed"
               PROVE  Attended
    OBVIOUS
  <2>1. /\ state \in {"none", "live", "freed", "failed"} /\ to_send \in Nat
        /\ net \in {"none", "syn", "est", "fin", "err"}
    BY DEF ClientInv, TypeOK
  <2>2. state = "live" /\ "send" \in active /\ net \in {"syn", "est", "err"}
    BY <2>1 DEF OwedIsWatched
  <2>3. CASE Writable
    BY <2>2, <2>3 DEF Ready, Attended
  <2>4. CASE ~Writable
    <3>1. net = "syn" \/ (net = "est" /\ ~(Free > 0))
      BY <2>2, <2>4 DEF Writable
    <3>2. CASE net = "est" /\ ~(Free > 0)
      <4>1. PICK l \in Nat, r \in Nat : l = Len(stream) /\ r = ready
        BY Types DEF ClientInv
      <4>2. SndCap \in Nat \ {0} /\ ~(SndCap - (l - r) > 0)
        BY <3>2, <4>1, ClientAssumption DEF Free
      <4>3. r < l
        BY <4>2
      <4>4. QED
        BY <3>2, <4>1, <4>3 DEF Attended
    <3>3. QED
      BY <3>1, <3>2 DEF Attended
  <2>5. QED
    BY <2>3, <2>4
<1>3. QED
  BY <1>1, <1>2, ClientInvariant, OwedStep, PTL DEF Spec

=============================================================================
