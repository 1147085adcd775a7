-------------------------- MODULE LoadStatsProofs --------------------------
(***************************************************************************)
(* Proofs about the statistics of the two load clients that keep them, and *)
(* that neither client stands still on the way to them:                    *)
(* VirtanStats for every number of clients, every number of threads and    *)
(* every width of the counters, and then ErlangEcho, for every number of   *)
(* children, every length of the message and every number of requests.     *)
(***************************************************************************)
EXTENDS VirtanStats, ErlangEcho, FiniteSetTheorems, FunctionTheorems, SequenceTheorems, TLAPS

-----------------------------------------------------------------------------
(* The inductive invariant.                                                *)

Births  == {"new", "wait"}
Ends    == {"active", "error"}
Busy    == {"wait", "count", "connect", "active", "error"}

\* At most one birth is under way, in a thread or in a timer, and none once
\* clients_max has been passed.
OneBirth ==
  /\ \A r \in Runners : job[r].op \in Births =>
       /\ services_i <= ClientsMax
       /\ \A q \in Runners : job[q].op \in Births => q = r
       /\ \A i \in Ids : bear[i] # "waiting"
  /\ \A i \in Ids : bear[i] = "waiting" =>
       /\ services_i <= ClientsMax
       /\ \A j \in Ids : bear[j] = "waiting" => j = i

\* A thread works on a handler that is born, which no other thread works on:
\* before its connect is started, or when its connect has ended.
OneWorker ==
  /\ \A r \in Runners : job[r].op \in Busy =>
       /\ job[r].id < services_i /\ job[r].id < ClientsMax
       /\ conn[job[r].id] = IF job[r].op \in Ends THEN "ended" ELSE "none"
       /\ \A q \in Runners : job[q].op \in Busy /\ job[q].id = job[r].id => q = r
  /\ \A i \in Ids : conn[i] # "none" => i < services_i /\ i < ClientsMax

\* How many threads do op, and how many connections are in state s.
Doing(f, op)  == Cardinality({r \in Runners : f[r].op = op})
Number(f, s)  == Cardinality({i \in Ids : f[i] = s})
Lesser(a, b) == IF a <= b THEN a ELSE b

\* Every handler born is in one place.
Ledger ==
  /\ Lesser(services_i, ClientsMax)
       = Doing(job, "wait") + Doing(job, "count") + Doing(job, "connect")
         + Number(conn, "connecting") + Number(conn, "ended") + Number(conn, "ok") + Number(conn, "errored")
  /\ Doing(job, "active") + Doing(job, "error") = Number(conn, "ended")

\* What print_stat has read was so at the time, and errors only grow: for the
\* average, and for the final line.
AverageIsOld ==
  /\ seen.first = "none" => seen.children = Unread /\ seen.errors = Unread
  /\ seen.first = "errors" => seen.errors # Unread
  /\ seen.errors # Unread => seen.errors <= connection_errors
  /\ seen.first = "errors" /\ seen.children # Unread =>
       seen.errors <= seen.children /\ seen.children <= ClientsMax

FinalIsOld ==
  /\ final.first = "none" => final.errors = Unread /\ final.active = Unread
  /\ final.first = "errors" => final.errors # Unread
  /\ final.errors # Unread => final.errors <= connection_errors
  /\ final.first = "errors" /\ final.active # Unread =>
       final.errors + final.active <= ClientsMax

ReadsAreOld == AverageIsOld /\ FinalIsOld

StatsInv == CountersAreExact /\ OneBirth /\ OneWorker /\ Ledger /\ ReadsAreOld

-----------------------------------------------------------------------------
(* Counting.                                                               *)

One(b) == IF b THEN 1 ELSE 0

\* How the size of a set changes when only x may enter or leave it.
LEMMA SetChange ==
  ASSUME NEW D, IsFiniteSet(D), NEW A \in SUBSET D, NEW B \in SUBSET D, NEW x \in D,
         \A y \in D \ {x} : y \in A <=> y \in B
  PROVE  /\ Cardinality(A) \in Nat /\ Cardinality(B) \in Nat
         /\ Cardinality(B) = Cardinality(A) - One(x \in A) + One(x \in B)
         /\ x \in A => Cardinality(A) >= 1
<1>1. IsFiniteSet(A) /\ IsFiniteSet(B)
  BY FS_Subset
<1>2. Cardinality(A) \in Nat /\ Cardinality(B) \in Nat
  BY <1>1, FS_CardinalityType
<1>3. CASE x \in A /\ x \in B
  <2>1. A = B
    BY <1>3
  <2>2. Cardinality(A) # 0
    BY <1>1, <1>3, FS_EmptySet
  <2>3. QED
    BY <1>2, <1>3, <2>1, <2>2 DEF One
<1>4. CASE x \notin A /\ x \notin B
  <2>1. A = B
    BY <1>4
  <2>2. QED
    BY <1>2, <1>4, <2>1 DEF One
<1>5. CASE x \in A /\ x \notin B
  <2>1. B = A \ {x}
    BY <1>5
  <2>2. Cardinality(B) = Cardinality(A) - 1
    BY <1>1, <1>5, <2>1, FS_RemoveElement
  <2>3. QED
    BY <1>2, <1>5, <2>2 DEF One
<1>6. CASE x \notin A /\ x \in B
  <2>1. B = A \union {x}
    BY <1>6
  <2>2. Cardinality(B) = Cardinality(A) + 1
    BY <1>1, <1>6, <2>1, FS_AddElement
  <2>3. QED
    BY <1>2, <1>6, <2>2 DEF One
<1>7. QED
  BY <1>3, <1>4, <1>5, <1>6

\* A counter that stays below Wrap is not changed by the modulo.
LEMMA SmallModulo ==
  ASSUME NEW w \in Nat \ {0}, NEW n \in 0..(w - 1)
  PROVE  n % w = n /\ (n + w) % w = n
<1>1. PICK q \in Int, m \in Int : q = n \div w /\ m = n % w
  OBVIOUS
<1>2. n = w * q + m /\ 0 <= m /\ m < w
  BY <1>1
<1>3. q = 0
  <2>1. CASE q >= 1
    <3>1. w * q >= w
      BY <2>1
    <3>2. QED
      BY <1>2, <3>1
  <2>2. CASE q <= -1
    <3>1. w * q <= -w
      BY <2>2
    <3>2. QED
      BY <1>2, <3>1
  <2>3. QED
    BY <2>1, <2>2
<1>4. n % w = n
  BY <1>1, <1>2, <1>3
<1>5. PICK p \in Int, k \in Int : p = (n + w) \div w /\ k = (n + w) % w
  OBVIOUS
<1>6. n + w = w * p + k /\ 0 <= k /\ k < w
  BY <1>5
<1>7. p = 1
  <2>1. CASE p >= 2
    <3>1. w * p >= w * 2
      BY <2>1
    <3>2. QED
      BY <1>6, <3>1
  <2>2. CASE p <= 0
    <3>1. w * p <= 0
      BY <2>2
    <3>2. QED
      BY <1>6, <3>1
  <2>3. QED
    BY <2>1, <2>2
<1>8. k = n
  BY <1>6, <1>7
<1>9. QED
  BY <1>4, <1>5, <1>8

\* Fetch-and-add and fetch-and-sub where they do not wrap.
LEMMA NoWrap ==
  ASSUME NEW n \in Nat
  PROVE  /\ n + 1 < Wrap => Plus(n) = n + 1
         /\ 1 <= n /\ n < Wrap => Minus(n) = n - 1
<1>1. Wrap \in Nat \ {0}
  BY StatsAssumption
<1>2. ASSUME n + 1 < Wrap
      PROVE  Plus(n) = n + 1
  <2>1. n + 1 \in 0..(Wrap - 1)
    BY <1>1, <1>2
  <2>2. QED
    BY <1>1, <2>1, SmallModulo DEF Plus
<1>3. ASSUME 1 <= n, n < Wrap
      PROVE  Minus(n) = n - 1
  <2>1. n - 1 \in 0..(Wrap - 1) /\ n + Wrap - 1 = (n - 1) + Wrap
    BY <1>1, <1>3
  <2>2. QED
    BY <1>1, <2>1, SmallModulo DEF Minus
<1>4. QED
  BY <1>2, <1>3

Ops   == {"idle", "new", "wait", "count", "connect", "active", "error"}
Jobs  == [op : Ops, id : Ids]
ConnStates == {"none", "connecting", "ended", "ok", "errored"}

\* Threads and handlers are finitely many.
LEMMA RangesAreFinite ==
  IsFiniteSet(Runners) /\ IsFiniteSet(Ids)
<1>1. NumThreads \in Int /\ ClientsMax \in Int
  BY StatsAssumption
<1>2. QED
  BY <1>1, FS_Interval DEF Runners, Ids

\* The types as separate facts.
LEMMA Types ==
  ASSUME TypeOK
  PROVE  /\ services_i \in Nat /\ services_i <= ClientsMax + 1
         /\ children \in Nat /\ children < Wrap
         /\ connection_active \in Nat /\ connection_active < Wrap
         /\ connection_errors \in Nat /\ connection_errors < Wrap
         /\ job \in [Runners -> Jobs] /\ conn \in [Ids -> ConnStates]
         /\ ClientsMax \in Nat /\ 1 <= ClientsMax /\ Wrap \in Nat /\ ClientsMax + 1 < Wrap
<1>1. ClientsMax \in Nat /\ 1 <= ClientsMax /\ Wrap \in Nat /\ ClientsMax + 1 < Wrap
  BY StatsAssumption
<1>2. services_i \in Nat /\ services_i <= ClientsMax + 1
  BY <1>1 DEF TypeOK
<1>3. /\ children \in 0..(Wrap - 1) /\ connection_active \in 0..(Wrap - 1)
      /\ connection_errors \in 0..(Wrap - 1)
  BY DEF TypeOK
<1>4. job \in [Runners -> Jobs] /\ conn \in [Ids -> ConnStates]
  BY DEF TypeOK, Jobs, Ops, ConnStates
<1>5. QED
  BY <1>1, <1>2, <1>3, <1>4

\* The numbers are natural.
LEMMA Counts ==
  ASSUME NEW f, NEW v
  PROVE  Doing(f, v) \in Nat /\ Number(f, v) \in Nat
<1>1. /\ {r \in Runners : f[r].op = v} \in SUBSET Runners
      /\ {i \in Ids : f[i] = v} \in SUBSET Ids
  OBVIOUS
<1>2. IsFiniteSet({r \in Runners : f[r].op = v}) /\ IsFiniteSet({i \in Ids : f[i] = v})
  BY <1>1, RangesAreFinite, FS_Subset
<1>3. QED
  BY <1>2, FS_CardinalityType DEF Doing, Number

Put(f, x, y) == [f EXCEPT ![x] = y]

\* Thread r goes on to job j.
LEMMA JobChange ==
  ASSUME NEW f \in [Runners -> Jobs], NEW r \in Runners, NEW j \in Jobs,
         NEW v
  PROVE  /\ v # f[r].op /\ v # j.op => Doing(Put(f, r, j), v) = Doing(f, v)
         /\ v # f[r].op /\ v = j.op => Doing(Put(f, r, j), v) = Doing(f, v) + 1
         /\ v = f[r].op /\ v # j.op => Doing(Put(f, r, j), v) = Doing(f, v) - 1 /\ Doing(f, v) >= 1
<1>0. PICK g : g = Put(f, r, j)
  OBVIOUS
<1>1. g[r] = j /\ \A q \in Runners : q # r => g[q] = f[q]
  BY <1>0 DEF Put
<1>2. PICK A, B : A = {q \in Runners : f[q].op = v} /\ B = {q \in Runners : g[q].op = v}
  OBVIOUS
<1>3. A \in SUBSET Runners /\ B \in SUBSET Runners
  BY <1>2
<1>4. (r \in A <=> f[r].op = v) /\ (r \in B <=> j.op = v)
  BY <1>1, <1>2
<1>5. \A y \in Runners \ {r} : y \in A <=> y \in B
  BY <1>1, <1>2
<1>6. /\ Cardinality(A) \in Nat /\ Cardinality(B) \in Nat
      /\ Cardinality(B) = Cardinality(A) - One(r \in A) + One(r \in B)
      /\ r \in A => Cardinality(A) >= 1
  BY <1>3, <1>5, RangesAreFinite, SetChange
<1>7. Doing(f, v) = Cardinality(A) /\ Doing(g, v) = Cardinality(B)
  BY <1>2 DEF Doing
<1>8. QED
  BY <1>0, <1>4, <1>6, <1>7 DEF One

\* Connection i goes on to state s.
LEMMA ConnChange ==
  ASSUME NEW f \in [Ids -> ConnStates], NEW i \in Ids, NEW s \in ConnStates,
         NEW v
  PROVE  /\ v # f[i] /\ v # s => Number(Put(f, i, s), v) = Number(f, v)
         /\ v # f[i] /\ v = s => Number(Put(f, i, s), v) = Number(f, v) + 1
         /\ v = f[i] /\ v # s => Number(Put(f, i, s), v) = Number(f, v) - 1 /\ Number(f, v) >= 1
<1>0. PICK g : g = Put(f, i, s)
  OBVIOUS
<1>1. g[i] = s /\ \A k \in Ids : k # i => g[k] = f[k]
  BY <1>0 DEF Put
<1>2. PICK A, B : A = {k \in Ids : f[k] = v} /\ B = {k \in Ids : g[k] = v}
  OBVIOUS
<1>3. A \in SUBSET Ids /\ B \in SUBSET Ids
  BY <1>2
<1>4. (i \in A <=> f[i] = v) /\ (i \in B <=> s = v)
  BY <1>1, <1>2
<1>5. \A y \in Ids \ {i} : y \in A <=> y \in B
  BY <1>1, <1>2
<1>6. /\ Cardinality(A) \in Nat /\ Cardinality(B) \in Nat
      /\ Cardinality(B) = Cardinality(A) - One(i \in A) + One(i \in B)
      /\ i \in A => Cardinality(A) >= 1
  BY <1>3, <1>5, RangesAreFinite, SetChange
<1>7. Number(f, v) = Cardinality(A) /\ Number(g, v) = Cardinality(B)
  BY <1>2 DEF Number
<1>8. QED
  BY <1>0, <1>4, <1>6, <1>7 DEF One

\* The same for the variables.
LEMMA JobGoesOn ==
  ASSUME TypeOK, NEW r \in Runners, NEW j \in Jobs, job' = [job EXCEPT ![r] = j],
         job[r].op # j.op
  PROVE  /\ \A v : v # job[r].op /\ v # j.op => Doing(job', v) = Doing(job, v)
         /\ Doing(job', j.op) = Doing(job, j.op) + 1
         /\ Doing(job', job[r].op) = Doing(job, job[r].op) - 1 /\ Doing(job, job[r].op) >= 1
         /\ job' \in [Runners -> Jobs] /\ job'[r] = j
         /\ \A q \in Runners : q # r => job'[q] = job[q]
<1>0. PICK f \in [Runners -> Jobs] : f = job
  BY Types
<1>1. PICK g : f = job /\ g = job'
  BY <1>0
<1>2. g = [f EXCEPT ![r] = j] /\ g = Put(f, r, j)
  BY <1>1 DEF Put
<1>3. ASSUME NEW v
      PROVE  /\ v # f[r].op /\ v # j.op => Doing(g, v) = Doing(f, v)
             /\ v # f[r].op /\ v = j.op => Doing(g, v) = Doing(f, v) + 1
             /\ v = f[r].op /\ v # j.op => Doing(g, v) = Doing(f, v) - 1 /\ Doing(f, v) >= 1
  <2>1. /\ v # f[r].op /\ v # j.op => Doing(Put(f, r, j), v) = Doing(f, v)
        /\ v # f[r].op /\ v = j.op => Doing(Put(f, r, j), v) = Doing(f, v) + 1
        /\ v = f[r].op /\ v # j.op =>
             Doing(Put(f, r, j), v) = Doing(f, v) - 1 /\ Doing(f, v) >= 1
    BY JobChange
  <2>2. QED
    BY <1>2, <2>1
<1>4. g \in [Runners -> Jobs] /\ g[r] = j /\ \A q \in Runners : q # r => g[q] = f[q]
  BY <1>2
<1>5. QED
  BY <1>1, <1>3, <1>4

\* The same for the connections.
LEMMA ConnGoesOn ==
  ASSUME TypeOK, NEW i \in Ids, NEW s \in ConnStates, conn' = [conn EXCEPT ![i] = s],
         conn[i] # s
  PROVE  /\ \A v : v # conn[i] /\ v # s => Number(conn', v) = Number(conn, v)
         /\ Number(conn', s) = Number(conn, s) + 1
         /\ Number(conn', conn[i]) = Number(conn, conn[i]) - 1 /\ Number(conn, conn[i]) >= 1
         /\ conn' \in [Ids -> ConnStates] /\ conn'[i] = s
         /\ \A k \in Ids : k # i => conn'[k] = conn[k]
<1>0. PICK f \in [Ids -> ConnStates] : f = conn
  BY Types
<1>1. PICK g : f = conn /\ g = conn'
  BY <1>0
<1>2. g = [f EXCEPT ![i] = s] /\ g = Put(f, i, s)
  BY <1>1 DEF Put
<1>3. ASSUME NEW v
      PROVE  /\ v # f[i] /\ v # s => Number(g, v) = Number(f, v)
             /\ v # f[i] /\ v = s => Number(g, v) = Number(f, v) + 1
             /\ v = f[i] /\ v # s => Number(g, v) = Number(f, v) - 1 /\ Number(f, v) >= 1
  <2>1. /\ v # f[i] /\ v # s => Number(Put(f, i, s), v) = Number(f, v)
        /\ v # f[i] /\ v = s => Number(Put(f, i, s), v) = Number(f, v) + 1
        /\ v = f[i] /\ v # s =>
             Number(Put(f, i, s), v) = Number(f, v) - 1 /\ Number(f, v) >= 1
    BY ConnChange
  <2>2. QED
    BY <1>2, <2>1
<1>4. g \in [Ids -> ConnStates] /\ g[i] = s /\ \A k \in Ids : k # i => g[k] = f[k]
  BY <1>2
<1>5. QED
  BY <1>1, <1>3, <1>4

\* Goto and Return are changes of a job.
LEMMA JobMoves ==
  ASSUME TypeOK, NEW r \in Runners, NEW o \in Ops
  PROVE  /\ Goto(r, o) => job' = [job EXCEPT ![r] = [op |-> o, id |-> job[r].id]]
         /\ [op |-> o, id |-> job[r].id] \in Jobs
         /\ Return(r) => job' = [job EXCEPT ![r] = [op |-> "idle", id |-> 0]]
         /\ Idle \in Jobs /\ Idle = [op |-> "idle", id |-> 0] /\ 0 \in Ids
         /\ job[r].op \in Ops /\ job[r].id \in Ids
<1>1. job[r] \in Jobs /\ 0 \in Ids /\ "idle" \in Ops
  BY Types DEF Ids, Ops
<1>2. job[r] = [op |-> job[r].op, id |-> job[r].id] /\ job[r].op \in Ops /\ job[r].id \in Ids
  BY <1>1 DEF Jobs
<1>3. [op |-> o, id |-> job[r].id] \in Jobs /\ Idle \in Jobs
  BY <1>1, <1>2 DEF Jobs, Idle
<1>4. [job[r] EXCEPT !.op = o] = [op |-> o, id |-> job[r].id]
  BY <1>2
<1>5. Goto(r, o) => job' = [job EXCEPT ![r] = [op |-> o, id |-> job[r].id]]
  BY <1>4, Types DEF Goto
<1>6. QED
  BY <1>1, <1>2, <1>3, <1>5 DEF Return, Idle

\* An idle thread's job.
LEMMA IdleJob ==
  Idle \in Jobs /\ Idle.op = "idle"
<1>1. 0 \in Ids
  BY StatsAssumption DEF Ids
<1>2. QED
  BY <1>1 DEF Idle, Jobs, Ops

-----------------------------------------------------------------------------
(* The steps.                                                              *)

\* The sums of the invariant as facts about natural numbers.
LEMMA Sums ==
  ASSUME StatsInv
  PROVE  /\ connection_active = Doing(job, "connect") + Number(conn, "connecting") + Doing(job, "active")
         /\ children = Number(conn, "ended") + Number(conn, "ok") + Number(conn, "errored")
         /\ connection_errors = Number(conn, "errored")
         /\ connection_active + Doing(job, "wait") + Doing(job, "count") <= ClientsMax
         /\ children + Number(conn, "connecting") <= ClientsMax
         /\ connection_errors + Number(conn, "ended") <= children
         /\ connection_active + connection_errors <= ClientsMax
<1>1. /\ connection_active = Doing(job, "connect") + Number(conn, "connecting") + Doing(job, "active")
      /\ children = Number(conn, "ended") + Number(conn, "ok") + Number(conn, "errored")
      /\ connection_errors = Number(conn, "errored")
  BY DEF StatsInv, CountersAreExact, Doing, Number, Running, With
<1>2. PICK w \in Nat, n \in Nat, c \in Nat, a \in Nat, x \in Nat :
        /\ w = Doing(job, "wait") /\ n = Doing(job, "count") /\ c = Doing(job, "connect")
        /\ a = Doing(job, "active") /\ x = Doing(job, "error")
  BY Counts
<1>3. PICK k \in Nat, e \in Nat, o \in Nat, r \in Nat :
        /\ k = Number(conn, "connecting") /\ e = Number(conn, "ended") /\ o = Number(conn, "ok") /\ r = Number(conn, "errored")
  BY Counts
<1>4. PICK m \in Nat, s \in Nat : m = ClientsMax /\ s = services_i
  BY Types DEF StatsInv, CountersAreExact
<1>5. Lesser(s, m) = w + n + c + k + e + o + r /\ a + x = e
  BY <1>2, <1>3, <1>4 DEF StatsInv, Ledger
<1>6. w + n + c + k + e + o + r <= m
  BY <1>5 DEF Lesser
<1>7. (c + k + a) + w + n <= m /\ (c + k + a) + r <= m
  BY <1>5, <1>6
<1>8. (e + o + r) + k <= m /\ r + e <= e + o + r
  BY <1>6
<1>9. QED
  BY <1>1, <1>2, <1>3, <1>4, <1>7, <1>8

\* Types of the next state, variable by variable.
LEMMA TypesHold ==
  ASSUME TypeOK, services_i' = services_i, bear' \in [Ids -> {"off", "waiting", "fired"}],
         children' \in 0..(Wrap - 1), connection_active' \in 0..(Wrap - 1),
         connection_errors' \in 0..(Wrap - 1),
         job' \in [Runners -> Jobs], conn' \in [Ids -> ConnStates],
         seen' = seen, main' = main
  PROVE  TypeOK'
BY DEF TypeOK, Jobs, Ops, ConnStates, main

\* The counters and the timers before the step.
LEMMA TypesHeld ==
  ASSUME TypeOK
  PROVE  /\ children \in 0..(Wrap - 1) /\ connection_active \in 0..(Wrap - 1)
         /\ connection_errors \in 0..(Wrap - 1) /\ bear \in [Ids -> {"off", "waiting", "fired"}]
BY DEF TypeOK

\* The equations of CountersAreExact in terms of Doing and Number.
LEMMA Exact ==
  ASSUME TypeOK',
         connection_active' = Doing(job', "connect") + Number(conn', "connecting") + Doing(job', "active"),
         children' = Number(conn', "ended") + Number(conn', "ok") + Number(conn', "errored"),
         connection_errors' = Number(conn', "errored")
  PROVE  CountersAreExact'
BY DEF CountersAreExact, Doing, Number, Running, With

\* What print_stat has read stays old while errors are only added.
LEMMA ReadsStay ==
  ASSUME StatsInv, TypeOK', seen' = seen, main' = main,
         connection_errors <= connection_errors'
  PROVE  ReadsAreOld'
<1>1. TypeOK /\ AverageIsOld /\ FinalIsOld
  BY DEF StatsInv, CountersAreExact, ReadsAreOld
<1>2. seen.errors \in Int /\ final.errors \in Int
  BY <1>1, StatsAssumption DEF TypeOK
<1>3. connection_errors \in Int /\ connection_errors' \in Int
  BY <1>1, StatsAssumption DEF TypeOK
<1>4. /\ seen.errors <= connection_errors => seen.errors <= connection_errors'
      /\ final.errors <= connection_errors => final.errors <= connection_errors'
  BY <1>2, <1>3
<1>5. AverageIsOld'
  BY <1>1, <1>4 DEF AverageIsOld
<1>6. FinalIsOld'
  BY <1>1, <1>4 DEF FinalIsOld, main
<1>7. QED
  BY <1>5, <1>6 DEF ReadsAreOld

\* A step that begins no birth leaves at most one under way.
LEMMA NoNewBirth ==
  ASSUME OneBirth, bear' = bear, services_i' = services_i,
         \A q \in Runners : job'[q].op \in Births => job[q].op \in Births
  PROVE  OneBirth'
<1>1. \A q \in Runners : job'[q].op \in Births =>
        /\ services_i <= ClientsMax
        /\ \A p \in Runners : job'[p].op \in Births => p = q
        /\ \A i \in Ids : bear[i] # "waiting"
  BY DEF OneBirth
<1>2. QED
  BY <1>1 DEF OneBirth

\* Thread r goes on to job j, and the connections of the other threads' handlers
\* are left alone.
LEMMA WorkersStay ==
  ASSUME OneWorker, TypeOK, NEW r \in Runners, NEW j \in Jobs,
         job' = [job EXCEPT ![r] = j], services_i' = services_i,
         \A q \in Runners : q # r /\ job[q].op \in Busy =>
           /\ conn'[job[q].id] = conn[job[q].id]
           /\ j.op \in Busy => job[q].id # j.id,
         j.op \in Busy =>
           /\ j.id < services_i /\ j.id < ClientsMax
           /\ conn'[j.id] = IF j.op \in Ends THEN "ended" ELSE "none",
         \A i \in Ids : conn'[i] # "none" => i < services_i /\ i < ClientsMax
  PROVE  OneWorker'
<1>1. job'[r] = j /\ \A q \in Runners : q # r => job'[q] = job[q]
  BY Types
<1>2. ASSUME NEW q \in Runners, job'[q].op \in Busy
      PROVE  /\ job'[q].id < services_i /\ job'[q].id < ClientsMax
             /\ conn'[job'[q].id] = IF job'[q].op \in Ends THEN "ended" ELSE "none"
  <2>1. CASE q = r
    BY <1>1, <1>2, <2>1
  <2>2. CASE q # r
    <3>1. job'[q] = job[q]
      BY <1>1, <2>2
    <3>2. /\ job[q].id < services_i /\ job[q].id < ClientsMax
          /\ conn[job[q].id] = IF job[q].op \in Ends THEN "ended" ELSE "none"
      BY <1>2, <3>1 DEF OneWorker
    <3>3. conn'[job[q].id] = conn[job[q].id]
      BY <1>2, <2>2, <3>1
    <3>4. QED
      BY <3>1, <3>2, <3>3
  <2>3. QED
    BY <2>1, <2>2
<1>3. ASSUME NEW q \in Runners, NEW p \in Runners, job'[q].op \in Busy, job'[p].op \in Busy,
             job'[p].id = job'[q].id
      PROVE  p = q
  <2>1. CASE q = r /\ p # r
    BY <1>1, <1>3, <2>1
  <2>2. CASE q # r /\ p = r
    BY <1>1, <1>3, <2>2
  <2>3. CASE q # r /\ p # r
    BY <1>1, <1>3, <2>3 DEF OneWorker
  <2>4. QED
    BY <2>1, <2>2, <2>3
<1>4. QED
  BY <1>2, <1>3 DEF OneWorker

\* The invariant holds initially: main is about to create the first handler.
LEMMA StatsInit ==
  ASSUME Init
  PROVE  StatsInv
<1> USE DEF Init
<1>1. /\ Main \in Runners /\ 0 \in Ids /\ 0 <= ClientsMax
      /\ 0 \in 0..(ClientsMax + 1) /\ 0 \in 0..(Wrap - 1) /\ -1 \in -1..(Wrap - 1)
  BY StatsAssumption DEF Main, Runners, Ids
<1>2. \A r \in Runners : job[r] \in {[op |-> "new", id |-> 0], [op |-> "idle", id |-> 0]}
  BY DEF Idle
<1>3. \A r \in Runners : job[r].op = (IF r = Main THEN "new" ELSE "idle")
  BY DEF Idle
<1>4. TypeOK
  <2>1. job \in [Runners -> Jobs]
    BY <1>1, <1>2 DEF Jobs, Ops
  <2>2. conn \in [Ids -> ConnStates] /\ bear \in [Ids -> {"off", "waiting", "fired"}]
    BY DEF ConnStates
  <2>3. seen \in [children : -1..(Wrap - 1), errors : -1..(Wrap - 1),
                  first : {"none", "children", "errors"}]
    BY <1>1 DEF NothingRead, Unread
  <2>4. final \in [errors : -1..(Wrap - 1), active : -1..(Wrap - 1),
                   first : {"none", "errors", "active"}]
    BY <1>1 DEF NoTotal, Unread
  <2>5. stage \in {"average", "line", "returned"} /\ prints \in 0..Rounds
    BY StatsAssumption
  <2>6. QED
    BY <1>1, <2>1, <2>2, <2>3, <2>4, <2>5 DEF TypeOK, Jobs, Ops, ConnStates
<1>5. \A v \in {"wait", "count", "connect", "active", "error"} : Doing(job, v) = 0
  <2>1. \A v \in {"wait", "count", "connect", "active", "error"} : Running(v) = {}
    BY <1>3 DEF Running
  <2>2. QED
    BY <2>1, FS_EmptySet DEF Doing, Running
<1>6. \A v \in {"connecting", "ended", "ok", "errored"} : Number(conn, v) = 0
  <2>1. \A v \in {"connecting", "ended", "ok", "errored"} : With(v) = {}
    BY DEF With
  <2>2. QED
    BY <2>1, FS_EmptySet DEF Number, With
<1>7. CountersAreExact
  <2>1. /\ connection_active = Doing(job, "connect") + Number(conn, "connecting") + Doing(job, "active")
        /\ children = Number(conn, "ended") + Number(conn, "ok") + Number(conn, "errored")
        /\ connection_errors = Number(conn, "errored")
    BY <1>5, <1>6
  <2>2. QED
    BY <1>4, <2>1 DEF CountersAreExact, Doing, Number, Running, With
<1>8. OneBirth /\ OneWorker
  BY <1>1, <1>3 DEF OneBirth, OneWorker, Births, Busy
<1>9. Ledger
  <2>1. Lesser(services_i, ClientsMax) = 0
    BY <1>1 DEF Lesser
  <2>2. QED
    BY <1>5, <1>6, <2>1 DEF Ledger
<1>10. ReadsAreOld
  BY DEF ReadsAreOld, AverageIsOld, FinalIsOld, NothingRead, NoTotal
<1>11. QED
  BY <1>7, <1>8, <1>9, <1>10 DEF StatsInv

\* The constructor takes its service_id.
LEMMA TakeIdStep ==
  ASSUME StatsInv, NEW r \in Runners, TakeId(r)
  PROVE  StatsInv'
<1> USE DEF StatsInv, TakeId
<1>1. TypeOK
  BY DEF CountersAreExact
<1>2. /\ services_i <= ClientsMax
      /\ \A q \in Runners : job[q].op \in Births => q = r
      /\ \A i \in Ids : bear[i] # "waiting"
  BY DEF OneBirth, Births
<1>3. services_i' = services_i + 1 /\ services_i \in Nat /\ services_i' \in 0..(ClientsMax + 1)
  BY <1>1, <1>2, Types
<1>4. PICK j \in Jobs : /\ job' = [job EXCEPT ![r] = j]
                        /\ j = IF services_i >= ClientsMax THEN [op |-> "idle", id |-> 0]
                                                           ELSE [op |-> "wait", id |-> services_i]
  <2>1. services_i \in Ids /\ 0 \in Ids
    BY <1>1, <1>2, <1>3, Types DEF Ids
  <2>2. [op |-> "idle", id |-> 0] \in Jobs /\ [op |-> "wait", id |-> services_i] \in Jobs
    BY <2>1 DEF Jobs, Ops
  <2>3. QED
    BY <2>2 DEF Idle
<1>5. /\ job' \in [Runners -> Jobs] /\ job'[r] = j
      /\ \A q \in Runners : q # r => job'[q] = job[q]
  BY <1>1, <1>4, Types
<1>6. /\ Doing(job', "count") = Doing(job, "count") /\ Doing(job', "connect") = Doing(job, "connect")
      /\ Doing(job', "active") = Doing(job, "active") /\ Doing(job', "error") = Doing(job, "error")
      /\ Doing(job', "wait") = IF services_i >= ClientsMax THEN Doing(job, "wait") ELSE Doing(job, "wait") + 1
  <2>1. CASE services_i >= ClientsMax
    <3>1. j.op = "idle" /\ job[r].op = "new"
      BY <1>4, <2>1
    <3> HIDE DEF StatsInv, TakeId
    <3>2. job' = [job EXCEPT ![r] = j] /\ job[r].op # j.op
      BY <1>4, <3>1
    <3>3. \A v : v # job[r].op /\ v # j.op => Doing(job', v) = Doing(job, v)
      BY <1>1, <3>2, JobGoesOn
    <3>4. QED
      BY <2>1, <3>1, <3>3
  <2>2. CASE ~(services_i >= ClientsMax)
    <3>1. j.op = "wait" /\ job[r].op = "new"
      BY <1>4, <2>2
    <3> HIDE DEF StatsInv, TakeId
    <3>2. job' = [job EXCEPT ![r] = j] /\ job[r].op # j.op
      BY <1>4, <3>1
    <3>3. /\ \A v : v # job[r].op /\ v # j.op => Doing(job', v) = Doing(job, v)
          /\ Doing(job', j.op) = Doing(job, j.op) + 1
      BY <1>1, <3>2, JobGoesOn
    <3>4. QED
      BY <2>2, <3>1, <3>3
  <2>3. QED
    BY <2>1, <2>2
<1>7. \A v : Number(conn', v) = Number(conn, v)
  OBVIOUS
<1>8. TypeOK'
  BY <1>1, <1>3, <1>5 DEF TypeOK, Jobs, Ops, counters, main
<1>9. CountersAreExact'
  BY <1>6, <1>7, <1>8, Sums DEF CountersAreExact, Doing, Number, Running, With, counters
<1>10. OneBirth'
  <2>1. CASE services_i >= ClientsMax
    <3>1. job'[r].op = "idle"
      BY <1>4, <1>5, <2>1
    <3>2. \A q \in Runners : job'[q].op \notin Births
      BY <1>2, <1>5, <3>1 DEF Births
    <3>3. QED
      BY <1>2, <3>2 DEF OneBirth
  <2>2. CASE ~(services_i >= ClientsMax)
    <3>1. services_i' <= ClientsMax
      BY <1>1, <1>3, <2>2, Types
    <3>2. \A q \in Runners : job'[q].op \in Births => q = r
      BY <1>2, <1>5
    <3>3. QED
      BY <1>2, <3>1, <3>2 DEF OneBirth
  <2>3. QED
    BY <2>1, <2>2
<1>11. OneWorker'
  <2>1. ASSUME NEW q \in Runners, job'[q].op \in Busy
        PROVE  /\ job'[q].id < services_i' /\ job'[q].id < ClientsMax
               /\ conn[job'[q].id] = IF job'[q].op \in Ends THEN "ended" ELSE "none"
               /\ q # r => job'[q].id < services_i
               /\ q = r => job'[q].id = services_i
    <3>1. CASE q = r
      <4>1. ~(services_i >= ClientsMax)
        BY <1>4, <1>5, <2>1, <3>1 DEF Busy
      <4>2. job'[q].op = "wait" /\ job'[q].id = services_i
        BY <1>4, <1>5, <3>1, <4>1
      <4>3. services_i \in Ids /\ ~(services_i < services_i) /\ services_i < services_i'
            /\ services_i < ClientsMax
        BY <1>1, <1>2, <1>3, <4>1, Types DEF Ids
      <4>4. conn[services_i] = "none"
        BY <4>3 DEF OneWorker
      <4>5. QED
        BY <3>1, <4>2, <4>3, <4>4 DEF Ends
    <3>2. CASE q # r
      <4>1. job'[q] = job[q] /\ job[q].id \in Ids
        BY <1>1, <1>5, <3>2, Types DEF Jobs
      <4>2. /\ job[q].id < services_i /\ job[q].id < ClientsMax
            /\ conn[job[q].id] = IF job[q].op \in Ends THEN "ended" ELSE "none"
        BY <2>1, <4>1 DEF OneWorker
      <4>3. job[q].id < services_i'
        BY <1>3, <4>1, <4>2, StatsAssumption DEF Ids
      <4>4. QED
        BY <3>2, <4>1, <4>2, <4>3
    <3>3. QED
      BY <3>1, <3>2
  <2>2. ASSUME NEW q \in Runners, NEW p \in Runners, job'[q].op \in Busy, job'[p].op \in Busy,
               job'[p].id = job'[q].id
        PROVE  p = q
    <3>1. ~(services_i < services_i)
      BY <1>3
    <3>2. CASE q = r \/ p = r
      BY <2>1, <2>2, <3>1, <3>2
    <3>3. CASE q # r /\ p # r
      BY <1>5, <2>2, <3>3 DEF OneWorker
    <3>4. QED
      BY <3>2, <3>3
  <2>3. \A i \in Ids : conn'[i] # "none" => i < services_i' /\ i < ClientsMax
    <3>1. \A i \in Ids : i < services_i => i < services_i'
      BY <1>3, StatsAssumption DEF Ids
    <3>2. QED
      BY <3>1 DEF OneWorker
  <2>4. QED
    BY <2>1, <2>2, <2>3 DEF OneWorker
<1>12. Ledger'
  <2>1. PICK s \in Nat, m \in Nat, w \in Nat : s = services_i /\ m = ClientsMax /\ w = Doing(job, "wait")
    BY <1>1, Types, Counts
  <2>2. Lesser(s + 1, m) = IF s >= m THEN Lesser(s, m) ELSE Lesser(s, m) + 1
    BY DEF Lesser
  <2>3. PICK n \in Nat, c \in Nat, k \in Nat, e \in Nat, o \in Nat, x \in Nat :
          /\ n = Doing(job, "count") /\ c = Doing(job, "connect") /\ k = Number(conn, "connecting")
          /\ e = Number(conn, "ended") /\ o = Number(conn, "ok") /\ x = Number(conn, "errored")
    BY Counts
  <2>4. Lesser(s, m) = w + n + c + k + e + o + x
    BY <2>1, <2>3 DEF Ledger
  <2>5. Lesser(s + 1, m) = (IF s >= m THEN w ELSE w + 1) + n + c + k + e + o + x
    BY <2>2, <2>4
  <2>6. QED
    BY <1>3, <1>6, <1>7, <2>1, <2>3, <2>5 DEF Ledger
<1>13. ReadsAreOld'
  <2>1. connection_errors <= connection_errors'
    BY <1>1, Types DEF counters
  <2>2. QED
    BY <1>8, <2>1, ReadsStay
<1>14. QED
  BY <1>9, <1>10, <1>11, <1>12, <1>13

\* The constructor starts the timer that will bear the next handler.
LEMMA StartBearTimerStep ==
  ASSUME StatsInv, NEW r \in Runners, StartBearTimer(r)
  PROVE  StatsInv'
<1> USE DEF StatsInv, StartBearTimer
<1>1. TypeOK
  BY DEF CountersAreExact
<1>2. /\ services_i <= ClientsMax
      /\ \A q \in Runners : job[q].op \in Births => q = r
      /\ \A i \in Ids : bear[i] # "waiting"
  BY DEF OneBirth, Births
<1>3. PICK j \in Jobs : /\ job' = [job EXCEPT ![r] = j]
                        /\ j.op = "count" /\ j.id = job[r].id /\ j.id \in Ids
  BY <1>1, JobMoves DEF Ops
<1>4. /\ job' \in [Runners -> Jobs] /\ job'[r] = j
      /\ \A q \in Runners : q # r => job'[q] = job[q]
  BY <1>1, <1>3, Types
<1>5. /\ \A v : v # "wait" /\ v # "count" => Doing(job', v) = Doing(job, v)
      /\ Doing(job', "count") = Doing(job, "count") + 1
      /\ Doing(job', "wait") = Doing(job, "wait") - 1
  <2>1. job[r].op = "wait" /\ job[r].op # j.op
    BY <1>3
  <2>2. /\ \A v : v # job[r].op /\ v # j.op => Doing(job', v) = Doing(job, v)
        /\ Doing(job', j.op) = Doing(job, j.op) + 1
        /\ Doing(job', job[r].op) = Doing(job, job[r].op) - 1
    BY <1>1, <1>3, <2>1, JobGoesOn
  <2>3. QED
    BY <1>3, <2>1, <2>2
<1>6. bear' = [bear EXCEPT ![j.id] = "waiting"] /\ bear' \in [Ids -> {"off", "waiting", "fired"}]
  BY <1>1, <1>3 DEF TypeOK
<1>7. TypeOK'
  BY <1>1, <1>4, <1>6 DEF TypeOK, Jobs, Ops, counters, main
<1>8. CountersAreExact'
  <2>1. /\ Doing(job', "connect") = Doing(job, "connect")
        /\ Doing(job', "active") = Doing(job, "active")
    BY <1>5
  <2>2. QED
    BY <1>7, <2>1, Sums, Exact DEF counters
<1>9. OneBirth'
  <2>1. \A q \in Runners : job'[q].op \notin Births
    BY <1>2, <1>3, <1>4 DEF Births
  <2>2. \A i \in Ids : bear'[i] = "waiting" => i = j.id
    BY <1>1, <1>2, <1>6 DEF TypeOK
  <2>3. QED
    BY <1>2, <2>1, <2>2 DEF OneBirth
<1>10. OneWorker'
  <2>1. /\ j.id < services_i /\ j.id < ClientsMax /\ conn[j.id] = "none"
        /\ \A q \in Runners : job[q].op \in Busy /\ job[q].id = j.id => q = r
    BY <1>3 DEF OneWorker, Busy, Ends
  <2>2. j.op \notin Ends /\ conn' = conn
    BY <1>3 DEF Ends
  <2>3. \A i \in Ids : conn'[i] # "none" => i < services_i /\ i < ClientsMax
    BY DEF OneWorker
  <2>4. \A q \in Runners : q # r /\ job[q].op \in Busy =>
          /\ conn'[job[q].id] = conn[job[q].id]
          /\ j.op \in Busy => job[q].id # j.id
    BY <2>1, <2>2
  <2>5. j.op \in Busy =>
          /\ j.id < services_i /\ j.id < ClientsMax
          /\ conn'[j.id] = IF j.op \in Ends THEN "ended" ELSE "none"
    BY <2>1, <2>2
  <2>6. QED
    BY <1>1, <1>3, <2>3, <2>4, <2>5, WorkersStay
<1>11. Ledger'
  <2>1. PICK w \in Nat, n \in Nat, a \in Nat, x \in Nat :
          /\ w = Doing(job, "wait") /\ n = Doing(job, "count")
          /\ a = Doing(job, "active") /\ x = Doing(job, "error")
    BY Counts
  <2>2. Doing(job', "wait") + Doing(job', "count") = Doing(job, "wait") + Doing(job, "count")
    BY <1>5, <2>1
  <2>3. /\ Doing(job', "connect") = Doing(job, "connect") /\ Doing(job', "error") = Doing(job, "error")
        /\ Doing(job', "active") = Doing(job, "active")
    BY <1>5
  <2>4. QED
    BY <2>2, <2>3 DEF Ledger
<1>12. ReadsAreOld'
  <2>1. connection_errors <= connection_errors'
    BY <1>1, Types DEF counters
  <2>2. QED
    BY <1>7, <2>1, ReadsStay
<1>13. QED
  BY <1>8, <1>9, <1>10, <1>11, <1>12

\* The constructor counts the connection as active, before it connects.
LEMMA CountActiveStep ==
  ASSUME StatsInv, NEW r \in Runners, CountActive(r)
  PROVE  StatsInv'
<1> USE DEF StatsInv, CountActive
<1>1. TypeOK
  BY DEF CountersAreExact
<1>2. PICK j \in Jobs : /\ job' = [job EXCEPT ![r] = j]
                        /\ j.op = "connect" /\ j.id = job[r].id /\ j.id \in Ids
  BY <1>1, JobMoves DEF Ops
<1>3. /\ job' \in [Runners -> Jobs] /\ job'[r] = j
      /\ \A q \in Runners : q # r => job'[q] = job[q]
  BY <1>1, <1>2, Types
<1>4. /\ \A v : v # "count" /\ v # "connect" => Doing(job', v) = Doing(job, v)
      /\ Doing(job', "connect") = Doing(job, "connect") + 1
      /\ Doing(job', "count") = Doing(job, "count") - 1 /\ Doing(job, "count") >= 1
  <2>1. job[r].op = "count" /\ job[r].op # j.op
    BY <1>2
  <2>2. /\ \A v : v # job[r].op /\ v # j.op => Doing(job', v) = Doing(job, v)
        /\ Doing(job', j.op) = Doing(job, j.op) + 1
        /\ Doing(job', job[r].op) = Doing(job, job[r].op) - 1 /\ Doing(job, job[r].op) >= 1
    BY <1>1, <1>2, <2>1, JobGoesOn
  <2>3. QED
    BY <1>2, <2>1, <2>2
<1>5. connection_active' = connection_active + 1 /\ connection_active' \in 0..(Wrap - 1)
  <2>1. PICK a \in Nat, w \in Nat, n \in Nat, m \in Nat, k \in Nat :
          /\ a = connection_active /\ w = Doing(job, "wait") /\ n = Doing(job, "count")
          /\ m = ClientsMax /\ k = Wrap
    BY <1>1, Types, Counts
  <2>2. a + w + n <= m /\ n >= 1 /\ m + 1 < k
    BY <1>1, <1>4, <2>1, Sums, Types
  <2>3. a + 1 < k /\ a + 1 \in 0..(k - 1)
    BY <2>2
  <2>4. Plus(a) = a + 1
    BY <2>1, <2>3, NoWrap
  <2>5. QED
    BY <2>1, <2>3, <2>4
<1>6. TypeOK'
  BY <1>1, <1>3, <1>5 DEF TypeOK, Jobs, Ops, main
<1>7. CountersAreExact'
  <2>1. PICK a \in Nat, c \in Nat, k \in Nat :
          /\ a = Doing(job, "active") /\ c = Doing(job, "connect") /\ k = Number(conn, "connecting")
    BY Counts
  <2>2. connection_active = c + k + a
    BY <2>1, Sums
  <2>3. connection_active' = (c + 1) + k + a
    BY <1>5, <2>2
  <2>4. Doing(job', "active") = a /\ Doing(job', "connect") = c + 1
    BY <1>4, <2>1
  <2>5. QED
    BY <1>6, <2>1, <2>3, <2>4, Sums, Exact
<1>8. OneBirth'
  <2>1. \A q \in Runners : job'[q].op \in Births => job[q].op \in Births
    BY <1>2, <1>3 DEF Births
  <2>2. QED
    BY <2>1, NoNewBirth
<1>9. OneWorker'
  <2>1. /\ j.id < services_i /\ j.id < ClientsMax /\ conn[j.id] = "none"
        /\ \A q \in Runners : job[q].op \in Busy /\ job[q].id = j.id => q = r
    BY <1>2 DEF OneWorker, Busy, Ends
  <2>2. j.op \notin Ends /\ conn' = conn
    BY <1>2 DEF Ends
  <2>3. \A i \in Ids : conn'[i] # "none" => i < services_i /\ i < ClientsMax
    BY DEF OneWorker
  <2>4. \A q \in Runners : q # r /\ job[q].op \in Busy =>
          /\ conn'[job[q].id] = conn[job[q].id]
          /\ j.op \in Busy => job[q].id # j.id
    BY <2>1, <2>2
  <2>5. j.op \in Busy =>
          /\ j.id < services_i /\ j.id < ClientsMax
          /\ conn'[j.id] = IF j.op \in Ends THEN "ended" ELSE "none"
    BY <2>1, <2>2
  <2>6. QED
    BY <1>1, <1>2, <2>3, <2>4, <2>5, WorkersStay
<1>10. Ledger'
  <2>1. PICK n \in Nat, c \in Nat, w \in Nat :
          n = Doing(job, "count") /\ c = Doing(job, "connect") /\ w = Doing(job, "wait")
    BY Counts
  <2>2. Doing(job', "count") = n - 1 /\ Doing(job', "connect") = c + 1 /\ Doing(job', "wait") = w
    BY <1>4, <2>1
  <2>3. w + (n - 1) + (c + 1) = w + n + c
    OBVIOUS
  <2>4. Doing(job', "error") = Doing(job, "error") /\ Doing(job', "active") = Doing(job, "active")
    BY <1>4
  <2>5. QED
    BY <2>1, <2>2, <2>3, <2>4 DEF Ledger
<1>11. ReadsAreOld'
  <2>1. connection_errors <= connection_errors'
    BY <1>1, Types
  <2>2. QED
    BY <1>6, <2>1, ReadsStay
<1>12. QED
  BY <1>7, <1>8, <1>9, <1>10, <1>11

\* The constructor starts the connect and returns.
LEMMA StartConnectStep ==
  ASSUME StatsInv, NEW r \in Runners, StartConnect(r)
  PROVE  StatsInv'
<1> USE DEF StatsInv, StartConnect
<1>1. TypeOK
  BY DEF CountersAreExact
<1>2. PICK j \in Jobs : job' = [job EXCEPT ![r] = j] /\ j.op = "idle"
  BY IdleJob DEF Return
<1>3. /\ job' \in [Runners -> Jobs] /\ job'[r] = j
      /\ \A q \in Runners : q # r => job'[q] = job[q]
  BY <1>1, <1>2, Types
<1>4. PICK i \in Ids : i = job[r].id
  BY <1>1, Types DEF Jobs
<1>5. /\ i < services_i /\ i < ClientsMax /\ conn[i] = "none"
      /\ \A q \in Runners : job[q].op \in Busy /\ job[q].id = i => q = r
  BY <1>4 DEF OneWorker, Busy, Ends
<1>6. conn' = [conn EXCEPT ![i] = "connecting"] /\ "connecting" \in ConnStates
  BY <1>4 DEF ConnStates
<1>7. /\ \A v : v # "connect" /\ v # "idle" => Doing(job', v) = Doing(job, v)
      /\ Doing(job', "connect") = Doing(job, "connect") - 1
  <2>1. job[r].op = "connect" /\ job[r].op # j.op
    BY <1>2
  <2>2. /\ \A v : v # job[r].op /\ v # j.op => Doing(job', v) = Doing(job, v)
        /\ Doing(job', job[r].op) = Doing(job, job[r].op) - 1 /\ Doing(job, job[r].op) >= 1
    BY <1>1, <1>2, <2>1, JobGoesOn
  <2>3. QED
    BY <1>2, <2>1, <2>2
<1>8. /\ \A v : v # "none" /\ v # "connecting" => Number(conn', v) = Number(conn, v)
      /\ Number(conn', "connecting") = Number(conn, "connecting") + 1
      /\ conn' \in [Ids -> ConnStates] /\ conn'[i] = "connecting"
      /\ \A k \in Ids : k # i => conn'[k] = conn[k]
  <2>1. conn[i] # "connecting"
    BY <1>5
  <2>2. /\ \A v : v # conn[i] /\ v # "connecting" => Number(conn', v) = Number(conn, v)
        /\ Number(conn', "connecting") = Number(conn, "connecting") + 1
        /\ conn' \in [Ids -> ConnStates] /\ conn'[i] = "connecting"
        /\ \A k \in Ids : k # i => conn'[k] = conn[k]
    BY <1>1, <1>6, <2>1, ConnGoesOn
  <2>3. QED
    BY <1>5, <2>2
<1>9. TypeOK'
  <2>1. UNCHANGED <<services_i, children, connection_active, connection_errors, bear, seen, main>>
    BY DEF counters
  <2>2. QED
    BY <1>1, <1>3, <1>8, <2>1, TypesHold, TypesHeld
<1>10. CountersAreExact'
  <2>1. PICK a \in Nat, c \in Nat, k \in Nat :
          /\ a = Doing(job, "active") /\ c = Doing(job, "connect") /\ k = Number(conn, "connecting")
    BY Counts
  <2>2. connection_active' = c + k + a
    BY <2>1, Sums DEF counters
  <2>3. connection_active' = (c - 1) + (k + 1) + a
    BY <2>2
  <2>4. Doing(job', "active") = a /\ Doing(job', "connect") = c - 1 /\ Number(conn', "connecting") = k + 1
    BY <1>7, <1>8, <2>1
  <2>5. /\ Number(conn', "ended") = Number(conn, "ended") /\ Number(conn', "ok") = Number(conn, "ok")
        /\ Number(conn', "errored") = Number(conn, "errored")
    BY <1>8
  <2>6. QED
    BY <1>9, <2>3, <2>4, <2>5, Sums, Exact DEF counters
<1>11. OneBirth'
  <2>1. \A q \in Runners : job'[q].op \in Births => job[q].op \in Births
    BY <1>2, <1>3 DEF Births
  <2>2. QED
    BY <2>1, NoNewBirth
<1>12. OneWorker'
  <2>1. j.op \notin Busy
    BY <1>2 DEF Busy
  <2>2. \A k \in Ids : conn'[k] # "none" => k < services_i /\ k < ClientsMax
    BY <1>5, <1>8 DEF OneWorker
  <2>3. \A q \in Runners : job[q].id \in Ids
    BY <1>1, Types DEF Jobs
  <2>4. \A q \in Runners : q # r /\ job[q].op \in Busy =>
          /\ conn'[job[q].id] = conn[job[q].id]
          /\ j.op \in Busy => job[q].id # j.id
    BY <1>5, <1>8, <2>1, <2>3
  <2>5. j.op \in Busy =>
          /\ j.id < services_i /\ j.id < ClientsMax
          /\ conn'[j.id] = IF j.op \in Ends THEN "ended" ELSE "none"
    BY <2>1
  <2>6. QED
    BY <1>1, <1>2, <2>2, <2>4, <2>5, WorkersStay
<1>13. Ledger'
  <2>1. PICK w \in Nat, n \in Nat, c \in Nat, k \in Nat :
          /\ w = Doing(job, "wait") /\ n = Doing(job, "count") /\ c = Doing(job, "connect")
          /\ k = Number(conn, "connecting")
    BY Counts
  <2>2. /\ Doing(job', "wait") = w /\ Doing(job', "count") = n /\ Doing(job', "connect") = c - 1
        /\ Number(conn', "connecting") = k + 1
    BY <1>7, <1>8, <2>1
  <2>3. w + n + (c - 1) + (k + 1) = w + n + c + k
    OBVIOUS
  <2>4. Doing(job', "error") = Doing(job, "error") /\ Doing(job', "active") = Doing(job, "active")
    BY <1>7
  <2>5. /\ Number(conn', "ended") = Number(conn, "ended") /\ Number(conn', "ok") = Number(conn, "ok")
        /\ Number(conn', "errored") = Number(conn, "errored")
    BY <1>8
  <2>6. QED
    BY <2>1, <2>2, <2>3, <2>4, <2>5 DEF Ledger
<1>14. ReadsAreOld'
  <2>1. connection_errors <= connection_errors'
    BY <1>1, Types DEF counters
  <2>2. QED
    BY <1>9, <2>1, ReadsStay
<1>15. QED
  BY <1>10, <1>11, <1>12, <1>13, <1>14

\* A handler's timer fires: its thread begins the next constructor.
LEMMA NewConnectionStep ==
  ASSUME StatsInv, NEW i \in Ids, Service(i) \in Runners, new_connection_handler(i)
  PROVE  StatsInv'
<1> USE DEF StatsInv, new_connection_handler
<1>1. TypeOK
  BY DEF CountersAreExact
<1>2. PICK r \in Runners : r = Service(i)
  OBVIOUS
<1>3. PICK j \in Jobs : job' = [job EXCEPT ![r] = j] /\ j.op = "new"
  <2>1. 0 \in Ids
    BY StatsAssumption DEF Ids
  <2>2. [op |-> "new", id |-> 0] \in Jobs
    BY <2>1 DEF Jobs, Ops
  <2>3. QED
    BY <1>2, <2>2
<1>4. /\ job' \in [Runners -> Jobs] /\ job'[r] = j
      /\ \A q \in Runners : q # r => job'[q] = job[q]
  BY <1>1, <1>3, Types
<1>5. /\ bear[i] = "waiting" /\ services_i <= ClientsMax
      /\ \A k \in Ids : bear[k] = "waiting" => k = i
      /\ \A q \in Runners : job[q].op \notin Births
  BY DEF OneBirth
<1>6. \A v : v # "new" /\ v # "idle" => Doing(job', v) = Doing(job, v)
  <2>1. job[r].op = "idle" /\ job[r].op # j.op
    BY <1>2, <1>3, IdleJob
  <2>2. \A v : v # job[r].op /\ v # j.op => Doing(job', v) = Doing(job, v)
    BY <1>1, <1>3, <2>1, JobGoesOn
  <2>3. QED
    BY <1>3, <2>1, <2>2
<1>7. bear' \in [Ids -> {"off", "waiting", "fired"}] /\ \A k \in Ids : bear'[k] # "waiting"
  BY <1>1, <1>5 DEF TypeOK
<1>8. TypeOK'
  <2>1. UNCHANGED <<services_i, children, connection_active, connection_errors, conn, seen, main>>
    BY DEF counters
  <2>2. conn \in [Ids -> ConnStates]
    BY <1>1, Types
  <2>3. QED
    BY <1>1, <1>4, <1>7, <2>1, <2>2, TypesHold, TypesHeld
<1>9. /\ Doing(job', "wait") = Doing(job, "wait") /\ Doing(job', "count") = Doing(job, "count")
      /\ Doing(job', "connect") = Doing(job, "connect") /\ Doing(job', "active") = Doing(job, "active")
      /\ Doing(job', "error") = Doing(job, "error")
  BY <1>6
<1>10. CountersAreExact'
  BY <1>8, <1>9, Sums, Exact DEF counters
<1>11. OneBirth'
  <2>1. \A q \in Runners : job'[q].op \in Births => q = r
    BY <1>4, <1>5
  <2>2. QED
    BY <1>5, <1>7, <2>1 DEF OneBirth
<1>12. OneWorker'
  <2>1. j.op \notin Busy /\ conn' = conn
    BY <1>3 DEF Busy
  <2>2. \A k \in Ids : conn'[k] # "none" => k < services_i /\ k < ClientsMax
    BY DEF OneWorker
  <2>3. \A q \in Runners : q # r /\ job[q].op \in Busy =>
          /\ conn'[job[q].id] = conn[job[q].id]
          /\ j.op \in Busy => job[q].id # j.id
    BY <2>1
  <2>4. j.op \in Busy =>
          /\ j.id < services_i /\ j.id < ClientsMax
          /\ conn'[j.id] = IF j.op \in Ends THEN "ended" ELSE "none"
    BY <2>1
  <2>5. QED
    BY <1>1, <1>3, <2>2, <2>3, <2>4, WorkersStay
<1>13. Ledger'
  BY <1>9 DEF Ledger
<1>14. ReadsAreOld'
  <2>1. connection_errors <= connection_errors'
    BY <1>1, Types DEF counters
  <2>2. QED
    BY <1>8, <2>1, ReadsStay
<1>15. QED
  BY <1>10, <1>11, <1>12, <1>13, <1>14

\* A connect ends: it is counted as a child.
LEMMA ConnectStep ==
  ASSUME StatsInv, NEW i \in Ids, Service(i) \in Runners, connect(i)
  PROVE  StatsInv'
<1> USE DEF StatsInv, connect
<1>1. TypeOK
  BY DEF CountersAreExact
<1>2. PICK r \in Runners : r = Service(i)
  OBVIOUS
<1>3. PICK j \in Jobs : job' = [job EXCEPT ![r] = j] /\ j.op = "active" /\ j.id = i
  <2>1. [op |-> "active", id |-> i] \in Jobs
    BY DEF Jobs, Ops
  <2>2. QED
    BY <1>2, <2>1
<1>4. /\ job' \in [Runners -> Jobs] /\ job'[r] = j
      /\ \A q \in Runners : q # r => job'[q] = job[q]
  BY <1>1, <1>3, Types
<1>5. /\ i < services_i /\ i < ClientsMax /\ conn[i] = "connecting"
      /\ \A q \in Runners : job[q].op \in Busy => job[q].id # i
  <2>1. conn[i] = "connecting" /\ conn[i] # "none"
    OBVIOUS
  <2>2. i < services_i /\ i < ClientsMax
    BY <2>1 DEF OneWorker
  <2>3. \A q \in Runners : job[q].op \in Busy => conn[job[q].id] \in {"ended", "none"}
    BY DEF OneWorker
  <2>4. QED
    BY <2>1, <2>2, <2>3
<1>6. conn' = [conn EXCEPT ![i] = "ended"] /\ "ended" \in ConnStates
  BY DEF ConnStates
<1>7. /\ \A v : v # "active" /\ v # "idle" => Doing(job', v) = Doing(job, v)
      /\ Doing(job', "active") = Doing(job, "active") + 1
  <2>1. job[r].op = "idle" /\ job[r].op # j.op
    BY <1>2, <1>3, IdleJob
  <2>2. /\ \A v : v # job[r].op /\ v # j.op => Doing(job', v) = Doing(job, v)
        /\ Doing(job', j.op) = Doing(job, j.op) + 1
    BY <1>1, <1>3, <2>1, JobGoesOn
  <2>3. QED
    BY <1>3, <2>1, <2>2
<1>8. /\ \A v : v # "connecting" /\ v # "ended" => Number(conn', v) = Number(conn, v)
      /\ Number(conn', "ended") = Number(conn, "ended") + 1
      /\ Number(conn', "connecting") = Number(conn, "connecting") - 1 /\ Number(conn, "connecting") >= 1
      /\ conn' \in [Ids -> ConnStates] /\ conn'[i] = "ended"
      /\ \A k \in Ids : k # i => conn'[k] = conn[k]
  <2>1. conn[i] # "ended"
    BY <1>5
  <2>2. /\ \A v : v # conn[i] /\ v # "ended" => Number(conn', v) = Number(conn, v)
        /\ Number(conn', "ended") = Number(conn, "ended") + 1
        /\ Number(conn', conn[i]) = Number(conn, conn[i]) - 1 /\ Number(conn, conn[i]) >= 1
        /\ conn' \in [Ids -> ConnStates] /\ conn'[i] = "ended"
        /\ \A k \in Ids : k # i => conn'[k] = conn[k]
    BY <1>1, <1>6, <2>1, ConnGoesOn
  <2>3. QED
    BY <1>5, <2>2
<1>9. children' = children + 1 /\ children' \in 0..(Wrap - 1)
  <2>1. PICK a \in Nat, n \in Nat, m \in Nat, k \in Nat :
          a = children /\ n = Number(conn, "connecting") /\ m = ClientsMax /\ k = Wrap
    BY <1>1, Types, Counts
  <2>2. a + n <= m /\ n >= 1 /\ m + 1 < k
    BY <1>1, <1>8, <2>1, Sums, Types
  <2>3. a + 1 < k /\ a + 1 \in 0..(k - 1)
    BY <2>2
  <2>4. Plus(a) = a + 1
    BY <2>1, <2>3, NoWrap
  <2>5. QED
    BY <2>1, <2>3, <2>4
<1>10. TypeOK'
  BY <1>1, <1>4, <1>8, <1>9, TypesHold, TypesHeld
<1>11. PICK a \in Nat, c \in Nat, x \in Nat, k \in Nat, e \in Nat, o \in Nat, z \in Nat :
        /\ a = Doing(job, "active") /\ c = Doing(job, "connect") /\ x = Doing(job, "error")
        /\ k = Number(conn, "connecting") /\ e = Number(conn, "ended") /\ o = Number(conn, "ok")
        /\ z = Number(conn, "errored")
  BY Counts
<1>12. /\ Doing(job', "active") = a + 1 /\ Doing(job', "connect") = c /\ Doing(job', "error") = x
       /\ Number(conn', "connecting") = k - 1 /\ Number(conn', "ended") = e + 1
       /\ Number(conn', "ok") = o /\ Number(conn', "errored") = z
       /\ Doing(job', "wait") = Doing(job, "wait") /\ Doing(job', "count") = Doing(job, "count")
  BY <1>7, <1>8, <1>11
<1>13. CountersAreExact'
  <2>1. connection_active = c + k + a /\ children = e + o + z /\ connection_errors = z
    BY <1>11, Sums
  <2>2. connection_active' = c + (k - 1) + (a + 1) /\ children' = (e + 1) + o + z
    BY <1>9, <2>1
  <2>3. QED
    BY <1>10, <1>12, <2>1, <2>2, Exact
<1>14. OneBirth'
  <2>1. \A q \in Runners : job'[q].op \in Births => job[q].op \in Births
    BY <1>3, <1>4 DEF Births
  <2>2. QED
    BY <2>1, NoNewBirth
<1>15. OneWorker'
  <2>1. \A q \in Runners : job[q].id \in Ids
    BY <1>1, Types DEF Jobs
  <2>2. \A k_1 \in Ids : conn'[k_1] # "none" => k_1 < services_i /\ k_1 < ClientsMax
    BY <1>5, <1>8 DEF OneWorker
  <2>3. \A q \in Runners : q # r /\ job[q].op \in Busy =>
          /\ conn'[job[q].id] = conn[job[q].id]
          /\ j.op \in Busy => job[q].id # j.id
    BY <1>3, <1>5, <1>8, <2>1
  <2>4. j.op \in Busy =>
          /\ j.id < services_i /\ j.id < ClientsMax
          /\ conn'[j.id] = IF j.op \in Ends THEN "ended" ELSE "none"
    BY <1>3, <1>5, <1>8 DEF Ends
  <2>5. QED
    BY <1>1, <1>3, <2>2, <2>3, <2>4, WorkersStay
<1>16. Ledger'
  <2>1. PICK w \in Nat, n \in Nat : w = Doing(job, "wait") /\ n = Doing(job, "count")
    BY Counts
  <2>2. Lesser(services_i, ClientsMax) = w + n + c + k + e + o + z /\ a + x = e
    BY <1>11, <2>1 DEF Ledger
  <2>3. Lesser(services_i, ClientsMax) = w + n + c + (k - 1) + (e + 1) + o + z
        /\ (a + 1) + x = e + 1
    BY <2>2
  <2>4. QED
    BY <1>12, <2>1, <2>3 DEF Ledger
<1>17. ReadsAreOld'
  <2>1. connection_errors <= connection_errors'
    BY <1>1, Types
  <2>2. QED
    BY <1>10, <2>1, ReadsStay
<1>18. QED
  BY <1>13, <1>14, <1>15, <1>16, <1>17

\* A connection that leaves the active ones was counted among them.
LEMMA ActiveLeaves ==
  ASSUME StatsInv, NEW r \in Runners, job[r].op = "active",
         connection_active' = Minus(connection_active)
  PROVE  connection_active' = connection_active - 1 /\ connection_active' \in 0..(Wrap - 1)
<1>1. TypeOK
  BY DEF StatsInv, CountersAreExact
<1>2. Doing(job, "active") >= 1
  <2>1. PICK j \in Jobs : j = Idle /\ j.op = "idle"
    BY IdleJob
  <2>2. PICK f \in [Runners -> Jobs] : f = job
    BY <1>1, Types
  <2>3. PICK v : v = "active"
    OBVIOUS
  <2>4. v = f[r].op /\ v # j.op => Doing(Put(f, r, j), v) = Doing(f, v) - 1 /\ Doing(f, v) >= 1
    BY JobChange
  <2>5. QED
    BY <2>1, <2>2, <2>3, <2>4
<1>3. PICK n \in Nat, c \in Nat, k \in Nat, a \in Nat, w \in Nat :
        /\ n = connection_active /\ c = Doing(job, "connect") /\ k = Number(conn, "connecting")
        /\ a = Doing(job, "active") /\ w = Wrap
  BY <1>1, Types, Counts
<1>4. n = c + k + a /\ a >= 1 /\ n < w
  BY <1>1, <1>2, <1>3, Sums, Types
<1>5. 1 <= n /\ n - 1 \in 0..(w - 1)
  BY <1>4
<1>6. Minus(n) = n - 1
  BY <1>3, <1>4, <1>5, NoWrap
<1>7. QED
  BY <1>3, <1>5, <1>6

\* The connection is good: it leaves the active ones and the handler returns.
LEMMA LeavesGoodStep ==
  ASSUME StatsInv, NEW r \in Runners, job[r].op = "active", Return(r),
         connection_active' = Minus(connection_active),
         conn' = [conn EXCEPT ![job[r].id] = "ok"],
         UNCHANGED <<services_i, children, connection_errors, bear, seen, main>>
  PROVE  StatsInv'
<1> USE DEF StatsInv
<1>1. TypeOK
  BY DEF CountersAreExact
<1>2. PICK j \in Jobs : job' = [job EXCEPT ![r] = j] /\ j.op = "idle"
  BY IdleJob DEF Return
<1>3. /\ job' \in [Runners -> Jobs] /\ job'[r] = j
      /\ \A q \in Runners : q # r => job'[q] = job[q]
  BY <1>1, <1>2, Types
<1>4. PICK i \in Ids : i = job[r].id
  BY <1>1, Types DEF Jobs
<1>5. /\ i < services_i /\ i < ClientsMax /\ conn[i] = "ended"
      /\ \A q \in Runners : job[q].op \in Busy /\ job[q].id = i => q = r
  BY <1>4 DEF OneWorker, Busy, Ends
<1>6. conn' = [conn EXCEPT ![i] = "ok"] /\ "ok" \in ConnStates
  BY <1>4 DEF ConnStates
<1>7. /\ \A v : v # "active" /\ v # "idle" => Doing(job', v) = Doing(job, v)
      /\ Doing(job', "active") = Doing(job, "active") - 1 /\ Doing(job, "active") >= 1
  <2>1. job[r].op = "active" /\ job[r].op # j.op
    BY <1>2
  <2>2. /\ \A v : v # job[r].op /\ v # j.op => Doing(job', v) = Doing(job, v)
        /\ Doing(job', job[r].op) = Doing(job, job[r].op) - 1 /\ Doing(job, job[r].op) >= 1
    BY <1>1, <1>2, <2>1, JobGoesOn
  <2>3. QED
    BY <1>2, <2>1, <2>2
<1>8. /\ \A v : v # "ended" /\ v # "ok" => Number(conn', v) = Number(conn, v)
      /\ Number(conn', "ok") = Number(conn, "ok") + 1
      /\ Number(conn', "ended") = Number(conn, "ended") - 1 /\ Number(conn, "ended") >= 1
      /\ conn' \in [Ids -> ConnStates] /\ conn'[i] = "ok"
      /\ \A k \in Ids : k # i => conn'[k] = conn[k]
  <2>1. conn[i] # "ok"
    BY <1>5
  <2>2. /\ \A v : v # conn[i] /\ v # "ok" => Number(conn', v) = Number(conn, v)
        /\ Number(conn', "ok") = Number(conn, "ok") + 1
        /\ Number(conn', conn[i]) = Number(conn, conn[i]) - 1 /\ Number(conn, conn[i]) >= 1
        /\ conn' \in [Ids -> ConnStates] /\ conn'[i] = "ok"
        /\ \A k \in Ids : k # i => conn'[k] = conn[k]
    BY <1>1, <1>6, <2>1, ConnGoesOn
  <2>3. QED
    BY <1>5, <2>2
<1>9. connection_active' = connection_active - 1 /\ connection_active' \in 0..(Wrap - 1)
  BY <1>1, ActiveLeaves
<1>10. TypeOK'
  BY <1>1, <1>3, <1>8, <1>9, TypesHold, TypesHeld
<1>11. PICK a \in Nat, c \in Nat, x \in Nat, k \in Nat, e \in Nat, o \in Nat, z \in Nat :
        /\ a = Doing(job, "active") /\ c = Doing(job, "connect") /\ x = Doing(job, "error")
        /\ k = Number(conn, "connecting") /\ e = Number(conn, "ended") /\ o = Number(conn, "ok")
        /\ z = Number(conn, "errored")
  BY Counts
<1>12. /\ Doing(job', "active") = a - 1 /\ Doing(job', "connect") = c /\ Doing(job', "error") = x
       /\ Number(conn', "connecting") = k /\ Number(conn', "ended") = e - 1
       /\ Number(conn', "ok") = o + 1 /\ Number(conn', "errored") = z
       /\ Doing(job', "wait") = Doing(job, "wait") /\ Doing(job', "count") = Doing(job, "count")
  BY <1>7, <1>8, <1>11
<1>13. CountersAreExact'
  <2>1. connection_active = c + k + a /\ children = e + o + z /\ connection_errors = z
    BY <1>11, Sums
  <2>2. connection_active' = c + k + (a - 1) /\ children' = (e - 1) + (o + 1) + z
    BY <1>9, <2>1
  <2>3. QED
    BY <1>10, <1>12, <2>1, <2>2, Exact
<1>14. OneBirth'
  <2>1. \A q \in Runners : job'[q].op \in Births => job[q].op \in Births
    BY <1>2, <1>3 DEF Births
  <2>2. QED
    BY <2>1, NoNewBirth
<1>15. OneWorker'
  <2>1. j.op \notin Busy
    BY <1>2 DEF Busy
  <2>2. \A k_1 \in Ids : conn'[k_1] # "none" => k_1 < services_i /\ k_1 < ClientsMax
    BY <1>5, <1>8 DEF OneWorker
  <2>3. \A q \in Runners : job[q].id \in Ids
    BY <1>1, Types DEF Jobs
  <2>4. \A q \in Runners : q # r /\ job[q].op \in Busy =>
          /\ conn'[job[q].id] = conn[job[q].id]
          /\ j.op \in Busy => job[q].id # j.id
    BY <1>5, <1>8, <2>1, <2>3
  <2>5. j.op \in Busy =>
          /\ j.id < services_i /\ j.id < ClientsMax
          /\ conn'[j.id] = IF j.op \in Ends THEN "ended" ELSE "none"
    BY <2>1
  <2>6. QED
    BY <1>1, <1>2, <2>2, <2>4, <2>5, WorkersStay
<1>16. Ledger'
  <2>1. PICK w \in Nat, n \in Nat : w = Doing(job, "wait") /\ n = Doing(job, "count")
    BY Counts
  <2>2. Lesser(services_i, ClientsMax) = w + n + c + k + e + o + z /\ a + x = e
    BY <1>11, <2>1 DEF Ledger
  <2>3. Lesser(services_i, ClientsMax) = w + n + c + k + (e - 1) + (o + 1) + z
        /\ (a - 1) + x = e - 1
    BY <2>2
  <2>4. QED
    BY <1>12, <2>1, <2>3 DEF Ledger
<1>17. ReadsAreOld'
  <2>1. connection_errors <= connection_errors'
    BY <1>1, Types
  <2>2. QED
    BY <1>10, <2>1, ReadsStay
<1>18. QED
  BY <1>13, <1>14, <1>15, <1>16, <1>17

\* The connection failed: it leaves the active ones and will be counted as an
\* error.
LEMMA LeavesFailedStep ==
  ASSUME StatsInv, NEW r \in Runners, job[r].op = "active", Goto(r, "error"),
         connection_active' = Minus(connection_active), conn' = conn,
         UNCHANGED <<services_i, children, connection_errors, bear, seen, main>>
  PROVE  StatsInv'
<1> USE DEF StatsInv
<1>1. TypeOK
  BY DEF CountersAreExact
<1>2. PICK j \in Jobs : /\ job' = [job EXCEPT ![r] = j]
                        /\ j.op = "error" /\ j.id = job[r].id /\ j.id \in Ids
  BY <1>1, JobMoves DEF Ops
<1>3. /\ job' \in [Runners -> Jobs] /\ job'[r] = j
      /\ \A q \in Runners : q # r => job'[q] = job[q]
  BY <1>1, <1>2, Types
<1>4. /\ \A v : v # "active" /\ v # "error" => Doing(job', v) = Doing(job, v)
      /\ Doing(job', "error") = Doing(job, "error") + 1
      /\ Doing(job', "active") = Doing(job, "active") - 1
  <2>1. job[r].op = "active" /\ job[r].op # j.op
    BY <1>2
  <2>2. /\ \A v : v # job[r].op /\ v # j.op => Doing(job', v) = Doing(job, v)
        /\ Doing(job', j.op) = Doing(job, j.op) + 1
        /\ Doing(job', job[r].op) = Doing(job, job[r].op) - 1 /\ Doing(job, job[r].op) >= 1
    BY <1>1, <1>2, <2>1, JobGoesOn
  <2>3. QED
    BY <1>2, <2>1, <2>2
<1>5. connection_active' = connection_active - 1 /\ connection_active' \in 0..(Wrap - 1)
  BY <1>1, ActiveLeaves
<1>6. TypeOK'
  <2>1. conn' \in [Ids -> ConnStates]
    BY <1>1, Types
  <2>2. QED
    BY <1>1, <1>3, <1>5, <2>1, TypesHold, TypesHeld
<1>7. CountersAreExact'
  <2>1. PICK a \in Nat, c \in Nat, k \in Nat :
          /\ a = Doing(job, "active") /\ c = Doing(job, "connect") /\ k = Number(conn, "connecting")
    BY Counts
  <2>2. connection_active = c + k + a
    BY <2>1, Sums
  <2>3. connection_active' = c + k + (a - 1)
    BY <1>5, <2>2
  <2>4. Doing(job', "active") = a - 1 /\ Doing(job', "connect") = c
    BY <1>4, <2>1
  <2>5. QED
    BY <1>6, <2>1, <2>3, <2>4, Sums, Exact
<1>8. OneBirth'
  <2>1. \A q \in Runners : job'[q].op \in Births => job[q].op \in Births
    BY <1>2, <1>3 DEF Births
  <2>2. QED
    BY <2>1, NoNewBirth
<1>9. OneWorker'
  <2>1. /\ j.id < services_i /\ j.id < ClientsMax /\ conn[j.id] = "ended"
        /\ \A q \in Runners : job[q].op \in Busy /\ job[q].id = j.id => q = r
    BY <1>2 DEF OneWorker, Busy, Ends
  <2>2. j.op \in Ends
    BY <1>2 DEF Ends
  <2>3. \A i \in Ids : conn'[i] # "none" => i < services_i /\ i < ClientsMax
    BY DEF OneWorker
  <2>4. \A q \in Runners : q # r /\ job[q].op \in Busy =>
          /\ conn'[job[q].id] = conn[job[q].id]
          /\ j.op \in Busy => job[q].id # j.id
    BY <2>1, <2>2
  <2>5. j.op \in Busy =>
          /\ j.id < services_i /\ j.id < ClientsMax
          /\ conn'[j.id] = IF j.op \in Ends THEN "ended" ELSE "none"
    BY <2>1, <2>2
  <2>6. QED
    BY <1>1, <1>2, <2>3, <2>4, <2>5, WorkersStay
<1>10. Ledger'
  <2>1. PICK a \in Nat, x \in Nat : a = Doing(job, "active") /\ x = Doing(job, "error")
    BY Counts
  <2>2. Doing(job', "active") = a - 1 /\ Doing(job', "error") = x + 1
    BY <1>4, <2>1
  <2>3. (a - 1) + (x + 1) = a + x
    OBVIOUS
  <2>4. /\ Doing(job', "wait") = Doing(job, "wait") /\ Doing(job', "count") = Doing(job, "count")
        /\ Doing(job', "connect") = Doing(job, "connect")
    BY <1>4
  <2>5. QED
    BY <2>1, <2>2, <2>3, <2>4 DEF Ledger
<1>11. ReadsAreOld'
  <2>1. connection_errors <= connection_errors'
    BY <1>1, Types
  <2>2. QED
    BY <1>6, <2>1, ReadsStay
<1>12. QED
  BY <1>7, <1>8, <1>9, <1>10, <1>11

\* The failed connection is counted as an error and the handler returns.
LEMMA ErrorsStep ==
  ASSUME StatsInv, NEW r \in Runners, connect_Errors(r)
  PROVE  StatsInv'
<1> USE DEF StatsInv, connect_Errors
<1>1. TypeOK
  BY DEF CountersAreExact
<1>2. PICK j \in Jobs : job' = [job EXCEPT ![r] = j] /\ j.op = "idle"
  BY IdleJob DEF Return
<1>3. /\ job' \in [Runners -> Jobs] /\ job'[r] = j
      /\ \A q \in Runners : q # r => job'[q] = job[q]
  BY <1>1, <1>2, Types
<1>4. PICK i \in Ids : i = job[r].id
  BY <1>1, Types DEF Jobs
<1>5. /\ i < services_i /\ i < ClientsMax /\ conn[i] = "ended"
      /\ \A q \in Runners : job[q].op \in Busy /\ job[q].id = i => q = r
  BY <1>4 DEF OneWorker, Busy, Ends
<1>6. conn' = [conn EXCEPT ![i] = "errored"] /\ "errored" \in ConnStates
  BY <1>4 DEF ConnStates
<1>7. /\ \A v : v # "error" /\ v # "idle" => Doing(job', v) = Doing(job, v)
      /\ Doing(job', "error") = Doing(job, "error") - 1 /\ Doing(job, "error") >= 1
  <2>1. job[r].op = "error" /\ job[r].op # j.op
    BY <1>2
  <2>2. /\ \A v : v # job[r].op /\ v # j.op => Doing(job', v) = Doing(job, v)
        /\ Doing(job', job[r].op) = Doing(job, job[r].op) - 1 /\ Doing(job, job[r].op) >= 1
    BY <1>1, <1>2, <2>1, JobGoesOn
  <2>3. QED
    BY <1>2, <2>1, <2>2
<1>8. /\ \A v : v # "ended" /\ v # "errored" => Number(conn', v) = Number(conn, v)
      /\ Number(conn', "errored") = Number(conn, "errored") + 1
      /\ Number(conn', "ended") = Number(conn, "ended") - 1 /\ Number(conn, "ended") >= 1
      /\ conn' \in [Ids -> ConnStates] /\ conn'[i] = "errored"
      /\ \A k \in Ids : k # i => conn'[k] = conn[k]
  <2>1. conn[i] # "errored"
    BY <1>5
  <2>2. /\ \A v : v # conn[i] /\ v # "errored" => Number(conn', v) = Number(conn, v)
        /\ Number(conn', "errored") = Number(conn, "errored") + 1
        /\ Number(conn', conn[i]) = Number(conn, conn[i]) - 1 /\ Number(conn, conn[i]) >= 1
        /\ conn' \in [Ids -> ConnStates] /\ conn'[i] = "errored"
        /\ \A k \in Ids : k # i => conn'[k] = conn[k]
    BY <1>1, <1>6, <2>1, ConnGoesOn
  <2>3. QED
    BY <1>5, <2>2
<1>9. connection_errors' = connection_errors + 1 /\ connection_errors' \in 0..(Wrap - 1)
  <2>1. PICK y \in Nat, a \in Nat, n \in Nat, m \in Nat, k \in Nat, b \in Nat :
          /\ y = connection_errors /\ a = children /\ n = Number(conn, "ended") /\ m = ClientsMax
          /\ k = Wrap /\ b = Number(conn, "connecting")
    BY <1>1, Types, Counts
  <2>2. y + n <= a /\ a + b <= m /\ n >= 1 /\ m + 1 < k
    BY <1>1, <1>8, <2>1, Sums, Types
  <2>3. y + 1 < k /\ y + 1 \in 0..(k - 1)
    BY <2>2
  <2>4. Plus(y) = y + 1
    BY <2>1, <2>3, NoWrap
  <2>5. QED
    BY <2>1, <2>3, <2>4
<1>10. TypeOK'
  BY <1>1, <1>3, <1>8, <1>9, TypesHold, TypesHeld
<1>11. PICK a \in Nat, c \in Nat, x \in Nat, k \in Nat, e \in Nat, o \in Nat, z \in Nat :
        /\ a = Doing(job, "active") /\ c = Doing(job, "connect") /\ x = Doing(job, "error")
        /\ k = Number(conn, "connecting") /\ e = Number(conn, "ended") /\ o = Number(conn, "ok")
        /\ z = Number(conn, "errored")
  BY Counts
<1>12. /\ Doing(job', "active") = a /\ Doing(job', "connect") = c /\ Doing(job', "error") = x - 1
       /\ Number(conn', "connecting") = k /\ Number(conn', "ended") = e - 1
       /\ Number(conn', "ok") = o /\ Number(conn', "errored") = z + 1
       /\ Doing(job', "wait") = Doing(job, "wait") /\ Doing(job', "count") = Doing(job, "count")
  BY <1>7, <1>8, <1>11
<1>13. CountersAreExact'
  <2>1. connection_active = c + k + a /\ children = e + o + z /\ connection_errors = z
    BY <1>11, Sums
  <2>2. connection_errors' = z + 1 /\ children' = (e - 1) + o + (z + 1)
    BY <1>9, <2>1
  <2>3. QED
    BY <1>10, <1>12, <2>1, <2>2, Exact
<1>14. OneBirth'
  <2>1. \A q \in Runners : job'[q].op \in Births => job[q].op \in Births
    BY <1>2, <1>3 DEF Births
  <2>2. QED
    BY <2>1, NoNewBirth
<1>15. OneWorker'
  <2>1. j.op \notin Busy
    BY <1>2 DEF Busy
  <2>2. \A k_1 \in Ids : conn'[k_1] # "none" => k_1 < services_i /\ k_1 < ClientsMax
    BY <1>5, <1>8 DEF OneWorker
  <2>3. \A q \in Runners : job[q].id \in Ids
    BY <1>1, Types DEF Jobs
  <2>4. \A q \in Runners : q # r /\ job[q].op \in Busy =>
          /\ conn'[job[q].id] = conn[job[q].id]
          /\ j.op \in Busy => job[q].id # j.id
    BY <1>5, <1>8, <2>1, <2>3
  <2>5. j.op \in Busy =>
          /\ j.id < services_i /\ j.id < ClientsMax
          /\ conn'[j.id] = IF j.op \in Ends THEN "ended" ELSE "none"
    BY <2>1
  <2>6. QED
    BY <1>1, <1>2, <2>2, <2>4, <2>5, WorkersStay
<1>16. Ledger'
  <2>1. PICK w \in Nat, n \in Nat : w = Doing(job, "wait") /\ n = Doing(job, "count")
    BY Counts
  <2>2. Lesser(services_i, ClientsMax) = w + n + c + k + e + o + z /\ a + x = e
    BY <1>11, <2>1 DEF Ledger
  <2>3. Lesser(services_i, ClientsMax) = w + n + c + k + (e - 1) + o + (z + 1)
        /\ a + (x - 1) = e - 1
    BY <2>2
  <2>4. QED
    BY <1>12, <2>1, <2>3 DEF Ledger
<1>17. ReadsAreOld'
  <2>1. connection_errors <= connection_errors'
    BY <1>1, <1>9, Types
  <2>2. QED
    BY <1>10, <2>1, ReadsStay
<1>18. QED
  BY <1>13, <1>14, <1>15, <1>16, <1>17

\* The values main has read, and where it is.
SeenTypes  == [children : -1..(Wrap - 1), errors : -1..(Wrap - 1),
               first : {"none", "children", "errors"}]
FinalTypes == [errors : -1..(Wrap - 1), active : -1..(Wrap - 1),
               first : {"none", "errors", "active"}]
Stages     == {"average", "line", "returned"}

\* What main does disturbs only what it has read.
LEMMA MainStep ==
  ASSUME StatsInv, UNCHANGED <<services_i, counters, job, conn, bear>>,
         seen' \in SeenTypes, final' \in FinalTypes, stage' \in Stages, prints' \in 0..Rounds,
         AverageIsOld', FinalIsOld'
  PROVE  StatsInv'
<1>1. TypeOK'
  BY DEF StatsInv, CountersAreExact, TypeOK, counters, SeenTypes, FinalTypes, Stages
<1>2. CountersAreExact'
  BY <1>1, Sums, Exact DEF counters
<1>3. OneBirth' /\ OneWorker'
  BY DEF StatsInv, OneBirth, OneWorker
<1>4. Ledger'
  BY DEF StatsInv, Ledger
<1>5. QED
  BY <1>2, <1>3, <1>4 DEF StatsInv, ReadsAreOld

\* The types of what main keeps, and of the counters as it reads them.
LEMMA MainTypes ==
  ASSUME StatsInv
  PROVE  /\ seen \in SeenTypes /\ final \in FinalTypes /\ stage \in Stages
         /\ prints \in 0..Rounds
         /\ children \in -1..(Wrap - 1) /\ connection_errors \in -1..(Wrap - 1)
         /\ connection_active \in -1..(Wrap - 1)
         /\ AverageIsOld /\ FinalIsOld
<1>1. TypeOK
  BY DEF StatsInv, CountersAreExact
<1>2. /\ children \in 0..(Wrap - 1) /\ connection_errors \in 0..(Wrap - 1)
      /\ connection_active \in 0..(Wrap - 1) /\ Wrap \in Nat
  BY <1>1, StatsAssumption DEF TypeOK
<1>3. /\ children \in -1..(Wrap - 1) /\ connection_errors \in -1..(Wrap - 1)
      /\ connection_active \in -1..(Wrap - 1)
  BY <1>2
<1>4. /\ seen \in SeenTypes /\ final \in FinalTypes /\ stage \in Stages
      /\ prints \in 0..Rounds
  BY <1>1 DEF TypeOK, SeenTypes, FinalTypes, Stages
<1>5. QED
  BY <1>3, <1>4 DEF StatsInv, ReadsAreOld

\* A read for the average leaves the final line alone.
LEMMA SeenStep ==
  ASSUME StatsInv, UNCHANGED <<services_i, counters, job, conn, bear, final>>,
         seen' \in SeenTypes, stage' \in Stages, prints' \in 0..Rounds, AverageIsOld'
  PROVE  StatsInv'
<1>1. final' \in FinalTypes /\ FinalIsOld'
  BY MainTypes DEF FinalIsOld, counters
<1>2. QED
  BY <1>1, MainStep

\* main reads children.
LEMMA ReadChildrenStep ==
  ASSUME StatsInv, ReadChildren
  PROVE  StatsInv'
<1>1. TypeOK /\ AverageIsOld
  BY DEF StatsInv, CountersAreExact, ReadsAreOld
<1>2. /\ seen'.children = children /\ seen'.errors = seen.errors
      /\ seen'.first = First(seen, "children")
      /\ seen' \in SeenTypes
  <2>1. First(seen, "children") \in {"none", "children", "errors"}
    BY MainTypes DEF First, SeenTypes
  <2>2. seen' = [seen EXCEPT !.children = children, !.first = First(seen, "children")]
    BY DEF ReadChildren
  <2>3. QED
    BY <2>1, <2>2, MainTypes DEF SeenTypes
<1>3. seen.errors # Unread => seen.errors <= children /\ children <= ClientsMax
  <2>1. PICK e \in Int, n \in Nat, c \in Nat, d \in Nat, k \in Nat, m \in Nat :
          /\ e = seen.errors /\ n = connection_errors /\ c = children
          /\ d = Number(conn, "ended") /\ k = Number(conn, "connecting") /\ m = ClientsMax
    BY <1>1, Types, Counts, StatsAssumption DEF TypeOK
  <2>2. n + d <= c /\ c + k <= m
    BY <2>1, Sums
  <2>3. e # Unread => e <= n
    BY <1>1, <2>1 DEF AverageIsOld
  <2>4. e # Unread => e <= c /\ c <= m
    BY <2>2, <2>3
  <2>5. QED
    BY <2>1, <2>4
<1>4. /\ seen'.first # "none"
      /\ seen'.first = "errors" => seen.first = "errors"
  BY <1>2 DEF First
<1>5. connection_errors' = connection_errors /\ stage' = stage /\ prints' = prints /\ final' = final
  BY DEF ReadChildren, counters, main
<1>6. AverageIsOld'
  BY <1>1, <1>2, <1>3, <1>4, <1>5 DEF AverageIsOld
<1>7. QED
  BY <1>2, <1>5, <1>6, MainTypes, SeenStep DEF ReadChildren

\* main reads connection_errors.
LEMMA ReadErrorsStep ==
  ASSUME StatsInv, ReadErrors
  PROVE  StatsInv'
<1>1. TypeOK /\ AverageIsOld
  BY DEF StatsInv, CountersAreExact, ReadsAreOld
<1>2. connection_errors \in Nat /\ connection_errors # Unread /\ connection_errors <= connection_errors
  BY <1>1, Types DEF Unread
<1>3. /\ seen'.errors = connection_errors /\ seen'.children = seen.children
      /\ seen'.first = First(seen, "errors")
      /\ seen' \in SeenTypes
  <2>1. First(seen, "errors") \in {"none", "children", "errors"}
    BY MainTypes DEF First, SeenTypes
  <2>2. seen' = [seen EXCEPT !.errors = connection_errors, !.first = First(seen, "errors")]
    BY DEF ReadErrors
  <2>3. QED
    BY <2>1, <2>2, MainTypes DEF SeenTypes
<1>4. seen'.first # "none"
  BY <1>3 DEF First
<1>5. seen'.first = "errors" => seen'.children = Unread
  <2>1. seen.first # "errors"
    BY <1>1 DEF ReadErrors, AverageIsOld
  <2>2. QED
    BY <1>1, <1>3, <2>1 DEF First, AverageIsOld
<1>6. connection_errors' = connection_errors /\ stage' = stage /\ prints' = prints /\ final' = final
  BY DEF ReadErrors, counters, main
<1>7. AverageIsOld'
  BY <1>2, <1>3, <1>4, <1>5, <1>6 DEF AverageIsOld
<1>8. QED
  BY <1>3, <1>6, <1>7, MainTypes, SeenStep DEF ReadErrors

\* main has computed the average and begins anew, or goes on to the final line.
LEMMA PrintStatStep ==
  ASSUME StatsInv, PrintStat
  PROVE  StatsInv'
<1>1. seen' = [children |-> -1, errors |-> -1, first |-> "none"]
  BY DEF PrintStat, NothingRead, Unread
<1>2. seen' \in SeenTypes
  <2>1. -1 \in -1..(Wrap - 1)
    BY StatsAssumption
  <2>2. QED
    BY <1>1, <2>1 DEF SeenTypes
<1>3. AverageIsOld'
  BY <1>1 DEF AverageIsOld, Unread
<1>4. stage' \in Stages /\ prints' \in 0..Rounds
  <2>1. CASE prints < Rounds
    <3>1. prints' = prints + 1 /\ stage' = stage
      BY <2>1 DEF PrintStat
    <3>2. prints + 1 \in 0..Rounds
      BY <2>1, MainTypes, StatsAssumption
    <3>3. QED
      BY <3>1, <3>2, MainTypes
  <2>2. CASE ~(prints < Rounds)
    BY <2>2, MainTypes DEF PrintStat, Stages
  <2>3. QED
    BY <2>1, <2>2
<1>5. QED
  BY <1>2, <1>3, <1>4, SeenStep DEF PrintStat

\* The final line: a read, or the print that ends main.
LEMMA FinalStep ==
  ASSUME StatsInv, UNCHANGED <<services_i, counters, job, conn, bear, seen, prints>>,
         final' \in FinalTypes, stage' \in Stages, FinalIsOld'
  PROVE  StatsInv'
<1>1. seen' \in SeenTypes /\ prints' \in 0..Rounds /\ AverageIsOld'
  BY MainTypes DEF AverageIsOld, counters
<1>2. QED
  BY <1>1, MainStep

\* main reads connection_errors for the sum in the final line.
LEMMA ReadFinalErrorsStep ==
  ASSUME StatsInv, ReadFinalErrors
  PROVE  StatsInv'
<1>1. TypeOK /\ FinalIsOld
  BY DEF StatsInv, CountersAreExact, ReadsAreOld
<1>2. connection_errors \in Nat /\ connection_errors # Unread /\ connection_errors <= connection_errors
  BY <1>1, Types DEF Unread
<1>3. /\ final'.errors = connection_errors /\ final'.active = final.active
      /\ final'.first = First(final, "errors")
      /\ final' \in FinalTypes
  <2>1. First(final, "errors") \in {"none", "errors", "active"}
    BY MainTypes DEF First, FinalTypes
  <2>2. final' = [final EXCEPT !.errors = connection_errors, !.first = First(final, "errors")]
    BY DEF ReadFinalErrors
  <2>3. QED
    BY <2>1, <2>2, MainTypes DEF FinalTypes
<1>4. final'.first # "none"
  BY <1>3 DEF First
<1>5. final'.first = "errors" => final'.active = Unread
  <2>1. final.first # "errors"
    BY <1>1 DEF ReadFinalErrors, FinalIsOld
  <2>2. QED
    BY <1>1, <1>3, <2>1 DEF First, FinalIsOld
<1>6. connection_errors' = connection_errors /\ stage' = stage
  BY DEF ReadFinalErrors, counters
<1>7. FinalIsOld'
  BY <1>2, <1>3, <1>4, <1>5, <1>6 DEF FinalIsOld
<1>8. QED
  BY <1>3, <1>6, <1>7, MainTypes, FinalStep DEF ReadFinalErrors

\* main reads connection_active for it: the connections that were errors before
\* are among the errors still, and no error is active.
LEMMA ReadFinalActiveStep ==
  ASSUME StatsInv, ReadFinalActive
  PROVE  StatsInv'
<1>1. TypeOK /\ FinalIsOld
  BY DEF StatsInv, CountersAreExact, ReadsAreOld
<1>2. /\ final'.active = connection_active /\ final'.errors = final.errors
      /\ final'.first = First(final, "active")
      /\ final' \in FinalTypes
  <2>1. First(final, "active") \in {"none", "errors", "active"}
    BY MainTypes DEF First, FinalTypes
  <2>2. final' = [final EXCEPT !.active = connection_active, !.first = First(final, "active")]
    BY DEF ReadFinalActive
  <2>3. QED
    BY <2>1, <2>2, MainTypes DEF FinalTypes
<1>3. final.errors # Unread => final.errors + connection_active <= ClientsMax
  <2>1. PICK e \in Int, n \in Nat, a \in Nat, m \in Nat :
          /\ e = final.errors /\ n = connection_errors /\ a = connection_active /\ m = ClientsMax
    BY <1>1, Types, StatsAssumption DEF TypeOK
  <2>2. a + n <= m
    BY <2>1, Sums
  <2>3. e # Unread => e <= n
    BY <1>1, <2>1 DEF FinalIsOld
  <2>4. e # Unread => e + a <= m
    BY <2>2, <2>3
  <2>5. QED
    BY <2>1, <2>4
<1>4. /\ final'.first # "none"
      /\ final'.first = "errors" => final.first = "errors"
  BY <1>2 DEF First
<1>5. connection_errors' = connection_errors /\ stage' = stage
  BY DEF ReadFinalActive, counters
<1>6. FinalIsOld'
  BY <1>1, <1>2, <1>3, <1>4, <1>5 DEF FinalIsOld
<1>7. QED
  BY <1>2, <1>5, <1>6, MainTypes, FinalStep DEF ReadFinalActive

\* main prints the final line and returns.
LEMMA FinalPrintStep ==
  ASSUME StatsInv, FinalPrint
  PROVE  StatsInv'
<1>1. FinalIsOld' /\ final' \in FinalTypes /\ stage' \in Stages
  BY MainTypes DEF FinalPrint, FinalIsOld, counters, Stages
<1>2. QED
  BY <1>1, FinalStep DEF FinalPrint

\* Every step keeps the invariant.
LEMMA StatsStep ==
  ASSUME StatsInv, [Next]_vars
  PROVE  StatsInv'
<1>1. ASSUME NEW r \in Runners, ServiceStep(r)
      PROVE  StatsInv'
  <2>1. CASE TakeId(r)
    BY <2>1, TakeIdStep
  <2>2. CASE StartBearTimer(r)
    BY <2>2, StartBearTimerStep
  <2>3. CASE CountActive(r)
    BY <2>3, CountActiveStep
  <2>4. CASE StartConnect(r)
    BY <2>4, StartConnectStep
  <2>5. CASE connect_Leaves(r)
    <3>1. CASE Goto(r, "error") /\ UNCHANGED conn
      BY <2>5, <3>1, LeavesFailedStep DEF connect_Leaves
    <3>2. CASE Return(r) /\ conn' = [conn EXCEPT ![job[r].id] = "ok"]
      BY <2>5, <3>2, LeavesGoodStep DEF connect_Leaves
    <3>3. QED
      BY <2>5, <3>1, <3>2 DEF connect_Leaves
  <2>6. CASE connect_Errors(r)
    BY <2>6, ErrorsStep
  <2>7. ASSUME NEW i \in Ids, Service(i) = r, new_connection_handler(i)
        PROVE  StatsInv'
    <3>1. Service(i) \in Runners
      BY <2>7
    <3>2. QED
      BY <2>7, <3>1, NewConnectionStep
  <2>8. ASSUME NEW i \in Ids, Service(i) = r, connect(i)
        PROVE  StatsInv'
    <3>1. Service(i) \in Runners
      BY <2>8
    <3>2. QED
      BY <2>8, <3>1, ConnectStep
  <2>9. QED
    BY <1>1, <2>1, <2>2, <2>3, <2>4, <2>5, <2>6, <2>7, <2>8 DEF ServiceStep
<1>2. CASE ReadChildren
  BY <1>2, ReadChildrenStep
<1>3. CASE ReadErrors
  BY <1>3, ReadErrorsStep
<1>4. CASE PrintStat
  BY <1>4, PrintStatStep
<1>5. CASE ReadFinalErrors
  BY <1>5, ReadFinalErrorsStep
<1>6. CASE ReadFinalActive
  BY <1>6, ReadFinalActiveStep
<1>7. CASE FinalPrint
  BY <1>7, FinalPrintStep
<1>8. CASE UNCHANGED vars
  <2>1. UNCHANGED <<services_i, counters, job, conn, bear, final, seen, stage, prints>>
    BY <1>8 DEF vars, main
  <2>2. AverageIsOld'
    BY <2>1, MainTypes DEF AverageIsOld, counters
  <2>3. QED
    BY <2>1, <2>2, MainTypes, SeenStep
<1>9. QED
  BY <1>1, <1>2, <1>3, <1>4, <1>5, <1>6, <1>7, <1>8 DEF Next

\* The invariant holds throughout.
LEMMA StatsInvariant ==
  Spec => []StatsInv
<1>1. Init => StatsInv
  BY StatsInit
<1>2. StatsInv /\ [Next]_vars => StatsInv'
  BY StatsStep
<1>3. QED
  BY <1>1, <1>2, PTL DEF Spec

\* For any number of clients and threads, in any interleaving of the constructors
\* with the handlers they overtake: the atomic counters of the client are the
\* numbers of connections that they name, and none of them wraps.
THEOREM CountersMatchConnections ==
  Spec => []CountersAreExact
<1>1. StatsInv => CountersAreExact
  BY DEF StatsInv
<1>2. QED
  BY <1>1, StatsInvariant, PTL

\* What print_stat computes is sound whenever the errors were read first, although
\* the counters go on changing between the two reads: the divisor of the average is
\* a number of connections, and the final sum counts no connection twice.
THEOREM PrintedNumbersAreSound ==
  Spec => []ErrorsFirstIsSound
<1>1. ASSUME StatsInv, HaveRead, seen.first = "errors"
      PROVE  Divisor <= ClientsMax
  <2>1. PICK e \in Int, c \in Int, m \in Nat, w \in Nat \ {0} :
          /\ e = seen.errors /\ c = seen.children /\ m = ClientsMax /\ w = Wrap
          /\ 1 <= m /\ m + 1 < w /\ -1 <= e
    BY <1>1, StatsAssumption DEF StatsInv, CountersAreExact, TypeOK
  <2>2. e # -1 /\ e <= c /\ c <= m
    BY <1>1, <2>1 DEF StatsInv, ReadsAreOld, AverageIsOld, HaveRead, Unread
  <2>3. PICK d \in Int : d = c - e
    OBVIOUS
  <2>4. d \in 0..(w - 1) /\ c + w - e = d + w /\ d <= m
    BY <2>1, <2>2, <2>3
  <2>5. (d + w) % w = d
    BY <2>4, SmallModulo
  <2>6. Good = d
    BY <2>1, <2>4, <2>5 DEF Good
  <2>7. QED
    BY <2>1, <2>4, <2>6 DEF Divisor
<1>2. ASSUME StatsInv, HaveTotal, final.first = "errors"
      PROVE  Total <= ClientsMax
  <2>1. PICK e \in Int, a \in Int, m \in Nat, w \in Nat \ {0} :
          /\ e = final.errors /\ a = final.active /\ m = ClientsMax /\ w = Wrap
          /\ m + 1 < w /\ -1 <= e /\ -1 <= a
    BY <1>2, StatsAssumption DEF StatsInv, CountersAreExact, TypeOK
  <2>2. e # -1 /\ a # -1 /\ e + a <= m
    BY <1>2, <2>1 DEF StatsInv, ReadsAreOld, FinalIsOld, HaveTotal, Unread
  <2>3. PICK d \in Int : d = e + a
    OBVIOUS
  <2>4. d \in 0..(w - 1) /\ d <= m
    BY <2>1, <2>2, <2>3
  <2>5. d % w = d
    BY <2>4, SmallModulo
  <2>6. QED
    BY <2>1, <2>3, <2>4, <2>5 DEF Total
<1>3. StatsInv => ErrorsFirstIsSound
  BY <1>1, <1>2 DEF ErrorsFirstIsSound
<1>4. QED
  BY <1>3, StatsInvariant, PTL

-----------------------------------------------------------------------------
(* Nothing is forgotten on the ramp.                                       *)

Building == {"wait", "count", "connect"}

\* A handler that is born is in its constructor or has started its connect, a
\* connect that has ended is being worked on until it is good or counted, and the
\* chain of births goes on, in a thread or in a timer, until clients_max is passed.
Tended ==
  /\ \A i \in Ids : i < services_i /\ i < ClientsMax /\ conn[i] = "none" =>
       \E r \in Runners : job[r].op \in Building /\ job[r].id = i
  /\ \A i \in Ids : conn[i] = "ended" => \E r \in Runners : job[r].op \in Ends /\ job[r].id = i
  /\ services_i <= ClientsMax =>
       (\E r \in Runners : job[r].op \in Births) \/ \E i \in Ids : bear[i] = "waiting"
  /\ \A r \in Runners : job[r].op = "idle" => job[r] = Idle

\* Thread r has something to do: the conditions of the steps of ServiceStep.
CanServe(r) ==
  /\ stage # "returned"
  /\ \/ job[r].op # "idle"
     \/ /\ job[r] = Idle
        /\ \E i \in Ids : Service(i) = r /\ (bear[i] = "waiting" \/ conn[i] = "connecting")

\* Main, which creates the first handler, tends to it.
LEMMA TendedInit == Init => Tended
<1> SUFFICES ASSUME Init PROVE Tended
  OBVIOUS
<1>1. Main \in Runners
  BY StatsAssumption DEF Main, Runners
<1>2. job[Main] = [op |-> "new", id |-> 0] /\ \A r \in Runners : r # Main => job[r] = Idle
  BY <1>1 DEF Init
<1>3. job[Main].op \in Births /\ job[Main].op # "idle"
  BY <1>2 DEF Births
<1>4. services_i = 0 /\ \A i \in Ids : conn[i] = "none" /\ ~(i < 0)
  BY StatsAssumption DEF Init, Ids
<1>5. QED
  BY <1>1, <1>2, <1>3, <1>4 DEF Tended

\* Thread r goes on to job j; what it gives up has been done.
LEMMA TendedMoves ==
  ASSUME StatsInv, Tended, NEW r \in Runners, NEW j \in Jobs, job' = [job EXCEPT ![r] = j],
         j.op = "idle" => j = Idle,
         \A i \in Ids : i < services_i' /\ i < ClientsMax /\ conn'[i] = "none" =>
           \/ i < services_i /\ conn[i] = "none" /\ ~(job[r].op \in Building /\ job[r].id = i)
           \/ j.op \in Building /\ j.id = i,
         \A i \in Ids : conn'[i] = "ended" =>
           \/ conn[i] = "ended" /\ ~(job[r].op \in Ends /\ job[r].id = i)
           \/ j.op \in Ends /\ j.id = i,
         services_i' <= ClientsMax =>
           \/ j.op \in Births \/ \E i \in Ids : bear'[i] = "waiting"
           \/ services_i <= ClientsMax /\ bear' = bear /\ job[r].op \notin Births
  PROVE  Tended'
<1>1. job'[r] = j /\ \A q \in Runners : q # r => job'[q] = job[q]
  BY Types DEF StatsInv, CountersAreExact
<1>2. ASSUME NEW i \in Ids, i < services_i', i < ClientsMax, conn'[i] = "none"
      PROVE  \E q \in Runners : job'[q].op \in Building /\ job'[q].id = i
  <2>1. CASE j.op \in Building /\ j.id = i
    BY <1>1, <2>1
  <2>2. CASE i < services_i /\ conn[i] = "none" /\ ~(job[r].op \in Building /\ job[r].id = i)
    <3>1. PICK q \in Runners : job[q].op \in Building /\ job[q].id = i
      BY <1>2, <2>2 DEF Tended
    <3>2. q # r
      BY <2>2, <3>1
    <3>3. QED
      BY <1>1, <3>1, <3>2
  <2>3. QED
    BY <1>2, <2>1, <2>2
<1>3. ASSUME NEW i \in Ids, conn'[i] = "ended"
      PROVE  \E q \in Runners : job'[q].op \in Ends /\ job'[q].id = i
  <2>1. CASE j.op \in Ends /\ j.id = i
    BY <1>1, <2>1
  <2>2. CASE conn[i] = "ended" /\ ~(job[r].op \in Ends /\ job[r].id = i)
    <3>1. PICK q \in Runners : job[q].op \in Ends /\ job[q].id = i
      BY <2>2 DEF Tended
    <3>2. q # r
      BY <2>2, <3>1
    <3>3. QED
      BY <1>1, <3>1, <3>2
  <2>3. QED
    BY <1>3, <2>1, <2>2
<1>4. ASSUME services_i' <= ClientsMax
      PROVE  (\E q \in Runners : job'[q].op \in Births) \/ \E i \in Ids : bear'[i] = "waiting"
  <2>1. CASE j.op \in Births
    BY <1>1, <2>1
  <2>2. CASE services_i <= ClientsMax /\ bear' = bear /\ job[r].op \notin Births
    <3>1. CASE \E i \in Ids : bear[i] = "waiting"
      BY <2>2, <3>1
    <3>2. CASE \E q \in Runners : job[q].op \in Births
      <4>1. PICK q \in Runners : job[q].op \in Births
        BY <3>2
      <4>2. q # r
        BY <2>2, <4>1
      <4>3. QED
        BY <1>1, <4>1, <4>2
    <3>3. QED
      BY <2>2, <3>1, <3>2 DEF Tended
  <2>3. QED
    BY <1>4, <2>1, <2>2
<1>5. \A q \in Runners : job'[q].op = "idle" => job'[q] = Idle
  BY <1>1 DEF Tended
<1>6. QED
  BY <1>2, <1>3, <1>4, <1>5 DEF Tended

\* Every step of the constructor tends to what is born.
LEMMA TendedBirth ==
  ASSUME StatsInv, Tended, NEW r \in Runners,
         TakeId(r) \/ StartBearTimer(r) \/ CountActive(r) \/ StartConnect(r)
  PROVE  Tended'
<1>1. TypeOK /\ OneBirth /\ OneWorker
  BY DEF StatsInv, CountersAreExact
<1>2. /\ services_i \in Nat /\ ClientsMax \in Nat /\ job \in [Runners -> Jobs]
      /\ conn \in [Ids -> ConnStates]
  BY <1>1, Types
<1>3. CASE TakeId(r)
  <2>1. PICK j \in Jobs : /\ job' = [job EXCEPT ![r] = j]
                          /\ services_i >= ClientsMax => j = Idle
                          /\ services_i < ClientsMax => j.op = "wait" /\ j.id = services_i
    <3>1. CASE services_i >= ClientsMax
      <4>1. job' = [job EXCEPT ![r] = Idle] /\ Idle \in Jobs
        BY <1>3, <3>1, IdleJob DEF TakeId
      <4>2. ~(services_i < ClientsMax)
        BY <1>2, <3>1
      <4>3. QED
        BY <4>1, <4>2
    <3>2. CASE services_i < ClientsMax
      <4>1. services_i \in Ids /\ ~(services_i >= ClientsMax)
        BY <1>2, <3>2 DEF Ids
      <4>2. [op |-> "wait", id |-> services_i] \in Jobs
        BY <4>1 DEF Jobs, Ops
      <4>3. QED
        BY <1>2, <1>3, <3>2, <4>1, <4>2 DEF TakeId
    <3>3. QED
      BY <1>2, <3>1, <3>2
  <2>2. /\ job[r].op = "new" /\ services_i' = services_i + 1
        /\ UNCHANGED <<conn, bear>> /\ services_i <= ClientsMax
    BY <1>1, <1>3 DEF TakeId, OneBirth, Births
  <2>3. \A i \in Ids : i < services_i' /\ i < ClientsMax =>
          i < services_i \/ (services_i < ClientsMax /\ i = services_i)
    BY <1>2, <2>2 DEF Ids
  <2>4. j.op = "idle" => j = Idle
    BY <1>2, <2>1
  <2>5. \A i \in Ids : i < services_i' /\ i < ClientsMax /\ conn'[i] = "none" =>
          \/ i < services_i /\ conn[i] = "none" /\ ~(job[r].op \in Building /\ job[r].id = i)
          \/ j.op \in Building /\ j.id = i
    BY <2>1, <2>2, <2>3 DEF Building
  <2>6. services_i' <= ClientsMax => j.op \in Births
    BY <1>2, <2>1, <2>2 DEF Births
  <2>7. \A i \in Ids : conn'[i] = "ended" =>
          \/ conn[i] = "ended" /\ ~(job[r].op \in Ends /\ job[r].id = i)
          \/ j.op \in Ends /\ j.id = i
    BY <2>2 DEF Ends
  <2>8. QED
    BY <2>1, <2>4, <2>5, <2>6, <2>7, TendedMoves
<1>4. CASE StartBearTimer(r) \/ CountActive(r)
  <2>1. PICK op \in {"count", "connect"} :
          /\ job[r].op \in Building /\ Goto(r, op) /\ UNCHANGED <<services_i, conn>>
          /\ \/ job[r].op \notin Births /\ bear' = bear
             \/ bear' = [bear EXCEPT ![job[r].id] = "waiting"]
    BY <1>4 DEF StartBearTimer, CountActive, Building, Births
  <2>2. job[r] \in Jobs /\ job[r].id \in Ids
    BY <1>2 DEF Jobs
  <2>3. PICK j \in Jobs : job' = [job EXCEPT ![r] = j] /\ j.op = op /\ j.id = job[r].id
    <3>1. [op |-> op, id |-> job[r].id] \in Jobs
      BY <2>1, <2>2 DEF Jobs, Ops
    <3>2. [job[r] EXCEPT !.op = op] = [op |-> op, id |-> job[r].id]
      BY <2>2 DEF Jobs
    <3>3. QED
      BY <1>2, <2>1, <3>1, <3>2 DEF Goto
  <2>4. j.op # "idle" /\ j.op \in Building /\ job[r].op \notin Ends
    BY <2>1, <2>3 DEF Building, Ends
  <2>5. \A i \in Ids : i < services_i' /\ i < ClientsMax /\ conn'[i] = "none" =>
          \/ i < services_i /\ conn[i] = "none" /\ ~(job[r].op \in Building /\ job[r].id = i)
          \/ j.op \in Building /\ j.id = i
    BY <2>1, <2>3, <2>4
  <2>6. \/ \E i \in Ids : bear'[i] = "waiting"
        \/ bear' = bear /\ job[r].op \notin Births
    BY <1>1, <2>1, <2>2 DEF TypeOK
  <2>7. services_i' <= ClientsMax =>
          \/ j.op \in Births \/ \E i \in Ids : bear'[i] = "waiting"
          \/ services_i <= ClientsMax /\ bear' = bear /\ job[r].op \notin Births
    BY <2>1, <2>6
  <2>8. \A i \in Ids : conn'[i] = "ended" =>
          \/ conn[i] = "ended" /\ ~(job[r].op \in Ends /\ job[r].id = i)
          \/ j.op \in Ends /\ j.id = i
    BY <2>1, <2>4
  <2>9. j.op = "idle" => j = Idle
    BY <2>4
  <2>10. QED
    BY <2>3, <2>5, <2>7, <2>8, <2>9, TendedMoves
<1>5. CASE StartConnect(r)
  <2>1. PICK j \in Jobs : j = Idle /\ job' = [job EXCEPT ![r] = j]
    BY <1>5, IdleJob DEF StartConnect, Return
  <2>2. /\ job[r].op = "connect" /\ job[r].op \notin Births /\ job[r].op \notin Ends
        /\ conn' = [conn EXCEPT ![job[r].id] = "connecting"]
        /\ UNCHANGED <<services_i, bear>>
    BY <1>5 DEF StartConnect, Births, Ends
  <2>3. \A i \in Ids : conn'[i] = "none" => conn[i] = "none" /\ job[r].id # i
    BY <1>2, <2>2
  <2>4. \A i \in Ids : conn'[i] = "ended" => conn[i] = "ended"
    BY <1>2, <2>2
  <2>5. \A i \in Ids : i < services_i' /\ i < ClientsMax /\ conn'[i] = "none" =>
          \/ i < services_i /\ conn[i] = "none" /\ ~(job[r].op \in Building /\ job[r].id = i)
          \/ j.op \in Building /\ j.id = i
    BY <2>2, <2>3
  <2>6. \A i \in Ids : conn'[i] = "ended" =>
          \/ conn[i] = "ended" /\ ~(job[r].op \in Ends /\ job[r].id = i)
          \/ j.op \in Ends /\ j.id = i
    BY <2>2, <2>4
  <2>7. services_i' <= ClientsMax =>
          \/ j.op \in Births \/ \E i \in Ids : bear'[i] = "waiting"
          \/ services_i <= ClientsMax /\ bear' = bear /\ job[r].op \notin Births
    BY <2>2
  <2>8. QED
    BY <2>1, <2>5, <2>6, <2>7, TendedMoves
<1>6. QED
  BY <1>3, <1>4, <1>5

\* So does every handler.
LEMMA TendedHandlers ==
  ASSUME StatsInv, Tended, NEW r \in Runners,
         \/ connect_Leaves(r) \/ connect_Errors(r)
         \/ \E i \in Ids : Service(i) = r /\ (new_connection_handler(i) \/ connect(i))
  PROVE  Tended'
<1>1. TypeOK /\ OneBirth /\ OneWorker
  BY DEF StatsInv, CountersAreExact
<1>2. /\ services_i \in Nat /\ ClientsMax \in Nat /\ job \in [Runners -> Jobs]
      /\ conn \in [Ids -> ConnStates]
  BY <1>1, Types
<1>3. ASSUME NEW i \in Ids, Service(i) = r, new_connection_handler(i)
      PROVE  Tended'
  <2>1. PICK j \in Jobs : job' = [job EXCEPT ![r] = j] /\ j.op = "new"
    <3>1. 0 \in Ids
      BY StatsAssumption DEF Ids
    <3>2. [op |-> "new", id |-> 0] \in Jobs
      BY <3>1 DEF Jobs, Ops
    <3>3. QED
      BY <1>3, <3>2 DEF new_connection_handler
  <2>2. job[r].op = "idle" /\ UNCHANGED <<services_i, conn>>
    BY <1>3, IdleJob DEF new_connection_handler
  <2>3. j.op \in Births /\ j.op # "idle" /\ job[r].op \notin Building /\ job[r].op \notin Ends
    BY <2>1, <2>2 DEF Births, Building, Ends
  <2>4. \A k \in Ids : k < services_i' /\ k < ClientsMax /\ conn'[k] = "none" =>
          k < services_i /\ conn[k] = "none" /\ ~(job[r].op \in Building /\ job[r].id = k)
    BY <2>2, <2>3
  <2>5. \A k \in Ids : conn'[k] = "ended" => conn[k] = "ended" /\ ~(job[r].op \in Ends /\ job[r].id = k)
    BY <2>2, <2>3
  <2>6. QED
    BY <2>1, <2>3, <2>4, <2>5, TendedMoves
<1>4. ASSUME NEW i \in Ids, Service(i) = r, connect(i)
      PROVE  Tended'
  <2>1. PICK j \in Jobs : job' = [job EXCEPT ![r] = j] /\ j.op = "active" /\ j.id = i
    <3>1. [op |-> "active", id |-> i] \in Jobs
      BY DEF Jobs, Ops
    <3>2. QED
      BY <1>4, <3>1 DEF connect
  <2>2. /\ job[r].op = "idle" /\ conn[i] = "connecting" /\ conn' = [conn EXCEPT ![i] = "ended"]
        /\ UNCHANGED <<services_i, bear>>
    BY <1>4, IdleJob DEF connect
  <2>3. /\ j.op \in Ends /\ j.op # "idle" /\ job[r].op \notin Births
        /\ job[r].op \notin Building /\ job[r].op \notin Ends
    BY <2>1, <2>2 DEF Births, Building, Ends
  <2>4. conn'[i] = "ended" /\ \A k \in Ids : k # i => conn'[k] = conn[k]
    BY <1>2, <2>2
  <2>5. \A k \in Ids : k < services_i' /\ k < ClientsMax /\ conn'[k] = "none" =>
          k < services_i /\ conn[k] = "none" /\ ~(job[r].op \in Building /\ job[r].id = k)
    BY <2>2, <2>3, <2>4
  <2>6. \A k \in Ids : conn'[k] = "ended" =>
          \/ conn[k] = "ended" /\ ~(job[r].op \in Ends /\ job[r].id = k)
          \/ j.op \in Ends /\ j.id = k
    BY <2>1, <2>3, <2>4
  <2>7. services_i' <= ClientsMax => services_i <= ClientsMax /\ bear' = bear /\ job[r].op \notin Births
    BY <2>2, <2>3
  <2>8. QED
    BY <2>1, <2>3, <2>5, <2>6, <2>7, TendedMoves
<1>5. ASSUME NEW res \in {"ok", "errored"}, Return(r), conn' = [conn EXCEPT ![job[r].id] = res],
             job[r].op \in Ends, UNCHANGED <<services_i, bear>>
      PROVE  Tended'
  <2>1. PICK j \in Jobs : j = Idle /\ job' = [job EXCEPT ![r] = j]
    BY <1>5, IdleJob DEF Return
  <2>2. job[r].op \notin Births /\ job[r].op \notin Building
    BY <1>5 DEF Births, Ends, Building
  <2>3. \A k \in Ids : (conn'[k] = "none" => conn[k] = "none")
                       /\ (conn'[k] = "ended" => conn[k] = "ended" /\ job[r].id # k)
    BY <1>2, <1>5
  <2>4. \A k \in Ids : k < services_i' /\ k < ClientsMax /\ conn'[k] = "none" =>
          k < services_i /\ conn[k] = "none" /\ ~(job[r].op \in Building /\ job[r].id = k)
    BY <1>5, <2>2, <2>3
  <2>5. \A k \in Ids : conn'[k] = "ended" => conn[k] = "ended" /\ ~(job[r].op \in Ends /\ job[r].id = k)
    BY <2>3
  <2>6. services_i' <= ClientsMax => services_i <= ClientsMax /\ bear' = bear /\ job[r].op \notin Births
    BY <1>5, <2>2
  <2>7. QED
    BY <2>1, <2>4, <2>5, <2>6, TendedMoves
<1>6. ASSUME job[r].op = "active", Goto(r, "error"), UNCHANGED <<services_i, conn, bear>>
      PROVE  Tended'
  <2>1. job[r] \in Jobs /\ job[r].id \in Ids
    BY <1>2 DEF Jobs
  <2>2. PICK j \in Jobs : job' = [job EXCEPT ![r] = j] /\ j.op = "error" /\ j.id = job[r].id
    <3>1. [op |-> "error", id |-> job[r].id] \in Jobs
      BY <2>1 DEF Jobs, Ops
    <3>2. [job[r] EXCEPT !.op = "error"] = [op |-> "error", id |-> job[r].id]
      BY <2>1 DEF Jobs
    <3>3. QED
      BY <1>2, <1>6, <3>1, <3>2 DEF Goto
  <2>3. /\ j.op \in Ends /\ j.op # "idle" /\ job[r].op \notin Births /\ job[r].op \notin Building
    BY <1>6, <2>2 DEF Births, Building, Ends
  <2>4. \A k \in Ids : k < services_i' /\ k < ClientsMax /\ conn'[k] = "none" =>
          k < services_i /\ conn[k] = "none" /\ ~(job[r].op \in Building /\ job[r].id = k)
    BY <1>6, <2>3
  <2>5. \A k \in Ids : conn'[k] = "ended" =>
          \/ conn[k] = "ended" /\ ~(job[r].op \in Ends /\ job[r].id = k)
          \/ j.op \in Ends /\ j.id = k
    BY <1>6, <2>2, <2>3
  <2>6. services_i' <= ClientsMax => services_i <= ClientsMax /\ bear' = bear /\ job[r].op \notin Births
    BY <1>6, <2>3
  <2>7. QED
    BY <2>2, <2>3, <2>4, <2>5, <2>6, TendedMoves
<1>7. CASE connect_Leaves(r)
  BY <1>5, <1>6, <1>7 DEF connect_Leaves, Ends
<1>8. CASE connect_Errors(r)
  BY <1>5, <1>8 DEF connect_Errors, Ends
<1>9. QED
  BY <1>3, <1>4, <1>7, <1>8

\* The load client does not stall half-way: as long as main has not returned and one
\* of the connections is neither connected nor counted as an error, some thread has a
\* handler to run, in a constructor, at a timer or at a connect; no interleaving
\* of the constructors with the handlers they overtake loses a birth.
THEOREM RampNeverStalls ==
  Spec => [](Settled \/ stage = "returned" \/ \E r \in Runners : CanServe(r))
<1>1. StatsInv /\ Tended /\ [Next]_vars => Tended'
  <2> SUFFICES ASSUME StatsInv, Tended, [Next]_vars PROVE Tended'
    OBVIOUS
  <2>1. CASE UNCHANGED <<services_i, job, conn, bear>>
    BY <2>1 DEF Tended
  <2>2. CASE \/ ReadChildren \/ ReadErrors \/ PrintStat
             \/ ReadFinalErrors \/ ReadFinalActive \/ FinalPrint \/ UNCHANGED vars
    BY <2>1, <2>2 DEF ReadChildren, ReadErrors, PrintStat, ReadFinalErrors, ReadFinalActive,
                      FinalPrint, vars
  <2>3. QED
    BY <2>2, TendedBirth, TendedHandlers DEF Next, ServiceStep
<1>2. ASSUME StatsInv, Tended, NEW i \in 0..(ClientsMax - 1), conn[i] \notin {"ok", "errored"},
             stage # "returned"
      PROVE  \E r \in Runners : CanServe(r)
  <2>1. TypeOK
    BY <1>2 DEF StatsInv, CountersAreExact
  <2>2. /\ services_i \in Nat /\ services_i <= ClientsMax + 1 /\ conn \in [Ids -> ConnStates]
        /\ ClientsMax \in Nat
    BY <2>1, Types
  <2>3. i \in Ids /\ i < ClientsMax
    BY <2>2 DEF Ids
  <2>4. \A k \in Ids : Service(k) \in Runners
    BY StatsAssumption DEF Ids, Service, Runners
  <2>5. CASE \E r \in Runners : job[r].op # "idle"
    BY <1>2, <2>5 DEF CanServe
  <2>6. CASE \A r \in Runners : job[r].op = "idle"
    <3>1. \A r \in Runners : job[r] = Idle
      BY <1>2, <2>6 DEF Tended
    <3>2. ASSUME NEW k \in Ids, bear[k] = "waiting" \/ conn[k] = "connecting"
          PROVE  \E r \in Runners : CanServe(r)
      BY <1>2, <2>4, <3>1, <3>2 DEF CanServe
    <3>3. conn[i] \in {"none", "connecting", "ended"}
      BY <1>2, <2>2, <2>3 DEF ConnStates
    <3>4. conn[i] # "ended"
      BY <1>2, <2>3, <2>6 DEF Tended, Ends
    <3>5. CASE conn[i] = "none"
      <4>1. ~(i < services_i)
        BY <1>2, <2>3, <2>6, <3>5 DEF Tended, Building
      <4>2. services_i <= ClientsMax
        BY <2>2, <2>3, <4>1
      <4>3. \E k \in Ids : bear[k] = "waiting"
        BY <1>2, <2>6, <4>2 DEF Tended, Births
      <4>4. QED
        BY <3>2, <4>3
    <3>6. QED
      BY <2>3, <3>2, <3>3, <3>4, <3>5
  <2>7. QED
    BY <2>5, <2>6
<1> DEFINE Goes == Settled \/ stage = "returned" \/ \E r \in Runners : CanServe(r)
<1>3. StatsInv /\ Tended => Goes
  BY <1>2 DEF Settled
<1> HIDE DEF Goes
<1>4. Spec => []Goes
  BY <1>1, <1>3, StatsInvariant, TendedInit, PTL DEF Spec
<1>5. QED
  BY <1>4 DEF Goes

-----------------------------------------------------------------------------
(* The load client of erlang-virtan and its logger.                        *)

Has(l, what) == \E i \in 1..Len(l) : l[i] = what
Connected    == {"pausing", "waiting", "erred"}

\* What a connector in state st has under way to the logger: its connect comes
\* first and its error last, so an error is never heard of before the connect.
ReportsAre(l, st) ==
  /\ \A i \in 1..Len(l) :
       /\ l[i] = "connect_time" => i = 1 /\ st \in Connected
       /\ l[i] = "connect_error" => i = 1 /\ st = "refused"
       /\ l[i] = "exchange_error" => i = Len(l) /\ st = "erred"
  /\ st = "erred" /\ Has(l, "connect_time") => Has(l, "exchange_error")
  /\ st \in {"none", "connecting"} => l = <<>>

\* The connectors in one of the states sts whose report the logger has taken.
Heard(f, g, sts, what) == {c \in Conns : f[c] \in sts /\ ~Has(g[c], what)}

Tally ==
  /\ \A c \in Conns : ReportsAre(log[c], con[c])
  /\ stats.conErr = Cardinality(Heard(con, log, {"refused"}, "connect_error"))
  /\ stats.exchErr = Cardinality(Heard(con, log, {"erred"}, "exchange_error"))
  /\ stats.chld = stats.conErr + Cardinality(Heard(con, log, Connected, "connect_time"))

Spawned == \A c \in Conns : c > running => con[c] = "none"

\* All that may be in a mailbox between two exchanges is the end of the connection.
Rest(m, lk) == m = <<>> \/ (m = <<"closed">> /\ lk = "none")

\* The bytes of one request, and no others, are on their way up and down, until
\* the whole reply is in the mailbox.
OneRequest(st, m, u, d, lk) ==
  /\ u + d <= MsgLen
  /\ st \in {"none", "connecting", "refused"} => m = <<>> /\ u = 0 /\ d = 0 /\ lk = "none"
  /\ st = "pausing" => u = 0 /\ d = 0 /\ Rest(m, lk)
  /\ st = "waiting" /\ m # <<>> /\ Head(m) = "whole" => u = 0 /\ d = 0 /\ Rest(Tail(m), lk)

\* Without a fault there is nothing in a mailbox but a whole reply, and only the
\* connections of a client that has gone are down.
NoTrouble(st, m, lk, gone) ==
  /\ st # "erred"
  /\ st = "pausing" => m = <<>>
  /\ st = "waiting" => m \in {<<>>, <<"whole">>}
  /\ ~gone => lk # "down"

Orderly(c) ==
  /\ OneRequest(con[c], mail[c], up[c], down[c], link[c])
  /\ ~fault[c] => NoTrouble(con[c], mail[c], link[c], ClientGone(c))

ErlangInv == ErlangTypeOK /\ Spawned /\ Tally /\ \A c \in Conns : Orderly(c)

\* What is in a sequence after one more element and after its first is taken.
LEMMA HasChanges ==
  ASSUME NEW S, NEW l \in Seq(S), NEW x \in S
  PROVE  /\ Append(l, x) \in Seq(S) /\ Len(Append(l, x)) = Len(l) + 1
         /\ \A w : Has(Append(l, x), w) <=> Has(l, w) \/ x = w
         /\ l # <<>> => /\ Tail(l) \in Seq(S) /\ Len(l) >= 1 /\ Len(Tail(l)) = Len(l) - 1
                        /\ Head(l) = l[1] /\ Head(l) \in S
                        /\ \A i \in 1..(Len(l) - 1) : Tail(l)[i] = l[i + 1]
                        /\ \A w : Has(l, w) <=> Head(l) = w \/ Has(Tail(l), w)
<1>1. Len(l) \in Nat
  BY LenProperties
<1>2. /\ Append(l, x) \in Seq(S) /\ Len(Append(l, x)) = Len(l) + 1
      /\ \A i \in 1..Len(l) : Append(l, x)[i] = l[i]
      /\ Append(l, x)[Len(l) + 1] = x
  BY AppendProperties
<1>3. ASSUME NEW w PROVE Has(Append(l, x), w) <=> Has(l, w) \/ x = w
  <2> DEFINE a == Append(l, x)
  <2> HIDE DEF a
  <2>0. Len(a) = Len(l) + 1 /\ (\A i \in 1..Len(l) : a[i] = l[i]) /\ a[Len(l) + 1] = x
    BY <1>2 DEF a
  <2>1. \A i \in 1..(Len(l) + 1) : i \in 1..Len(l) \/ i = Len(l) + 1
    BY <1>1
  <2>2. \A i \in 1..Len(l) : i \in 1..(Len(l) + 1)
    BY <1>1
  <2>3. Len(l) + 1 \in 1..(Len(l) + 1)
    BY <1>1
  <2>4. Has(a, w) => Has(l, w) \/ x = w
    BY <2>0, <2>1 DEF Has
  <2>5. Has(l, w) \/ x = w => Has(a, w)
    BY <2>0, <2>2, <2>3 DEF Has
  <2>6. QED
    BY <2>4, <2>5 DEF a
<1>4. ASSUME l # <<>>
      PROVE  /\ Tail(l) \in Seq(S) /\ Len(l) >= 1 /\ Len(Tail(l)) = Len(l) - 1
             /\ Head(l) = l[1] /\ Head(l) \in S
             /\ \A i \in 1..(Len(l) - 1) : Tail(l)[i] = l[i + 1]
             /\ \A w : Has(l, w) <=> Head(l) = w \/ Has(Tail(l), w)
  <2>1. /\ Tail(l) \in Seq(S) /\ Len(Tail(l)) = Len(l) - 1
        /\ \A i \in 1..Len(Tail(l)) : Tail(l)[i] = l[i + 1]
        /\ Head(l) \in S
    BY <1>4, HeadTailProperties
  <2>2. Len(l) >= 1
    BY <1>1, <1>4, EmptySeq
  <2>3. Head(l) = l[1]
    BY <1>4
  <2>4. ASSUME NEW w PROVE Has(l, w) <=> Head(l) = w \/ Has(Tail(l), w)
    <3> DEFINE t == Tail(l)
    <3> HIDE DEF t
    <3>0. Len(t) = Len(l) - 1 /\ \A i \in 1..(Len(l) - 1) : t[i] = l[i + 1]
      BY <2>1 DEF t
    <3>1. ASSUME NEW i \in 1..Len(l), l[i] = w
          PROVE  l[1] = w \/ Has(t, w)
      <4>1. CASE i = 1
        BY <3>1, <4>1
      <4>2. CASE i # 1
        <5>1. PICK j \in Nat : j = i - 1
          BY <1>1, <4>2
        <5>2. j \in 1..(Len(l) - 1) /\ j + 1 = i
          BY <1>1, <4>2, <5>1
        <5>3. t[j] = w
          BY <3>0, <3>1, <5>2
        <5>4. QED
          BY <3>0, <5>2, <5>3 DEF Has
      <4>3. QED
        BY <4>1, <4>2
    <3>2. ASSUME NEW i \in 1..(Len(l) - 1), t[i] = w
          PROVE  Has(l, w)
      <4>1. i + 1 \in 1..Len(l)
        BY <1>1
      <4>2. l[i + 1] = w
        BY <3>0, <3>2
      <4>3. QED
        BY <4>1, <4>2 DEF Has
    <3>3. l[1] = w => Has(l, w)
      <4>1. 1 \in 1..Len(l)
        BY <1>1, <2>2
      <4>2. QED
        BY <4>1 DEF Has
    <3>4. Has(l, w) => l[1] = w \/ Has(t, w)
      BY <3>1 DEF Has
    <3>5. Has(t, w) => Has(l, w)
      BY <3>0, <3>2 DEF Has
    <3>6. QED
      BY <2>3, <3>3, <3>4, <3>5 DEF t
  <2>5. QED
    BY <2>1, <2>2, <2>3, <2>4
<1>5. QED
  BY <1>2, <1>3, <1>4

\* A connector that changes from state st to new and reports what.
Reporting(st, what, new) ==
  \/ st = "connecting" /\ what = "connect_time" /\ new = "pausing"
  \/ st = "connecting" /\ what = "connect_error" /\ new = "refused"
  \/ st = "waiting" /\ what = "exchange_time" /\ new = "pausing"
  \/ st = "waiting" /\ what = "exchange_error" /\ new = "erred"

\* A connector's reports after the one that goes with its change of state.
LEMMA ReportAdded ==
  ASSUME NEW l \in Seq(Reports), NEW st, NEW what, NEW new, ReportsAre(l, st),
         Reporting(st, what, new)
  PROVE  Append(l, what) \in Seq(Reports) /\ ReportsAre(Append(l, what), new)
<1>0. /\ what \in Reports
      /\ \/ st = "connecting" /\ what = "connect_time" /\ new = "pausing"
         \/ st = "connecting" /\ what = "connect_error" /\ new = "refused"
         \/ st = "waiting" /\ what = "exchange_time" /\ new = "pausing"
         \/ st = "waiting" /\ what = "exchange_error" /\ new = "erred"
  BY DEF Reports, Reporting
<1> DEFINE a == Append(l, what)
<1>1. /\ a \in Seq(Reports) /\ Len(l) \in Nat /\ Len(a) = Len(l) + 1
      /\ \A i \in 1..Len(l) : a[i] = l[i]
      /\ a[Len(l) + 1] = what
  BY <1>0, AppendProperties, LenProperties
<1>2. \A w : Has(a, w) <=> Has(l, w) \/ what = w
  BY <1>0, HasChanges
<1> HIDE DEF a
<1>3. ASSUME NEW i \in 1..Len(a)
      PROVE  (i \in 1..Len(l) /\ a[i] = l[i]) \/ (i = Len(a) /\ a[i] = what)
  <2>1. i \in 1..Len(l) \/ i = Len(l) + 1
    BY <1>1
  <2>2. QED
    BY <1>1, <2>1
<1>4. CASE st = "connecting"
  <2>1. l = <<>> /\ Len(l) = 0
    BY <1>4 DEF ReportsAre
  <2>2. Len(a) = 1 /\ a[1] = what /\ \A i \in 1..Len(a) : i = 1
    BY <1>1, <2>1
  <2>3. \A i \in 1..Len(a) : /\ a[i] = "connect_time" => i = 1 /\ new \in Connected
                             /\ a[i] = "connect_error" => i = 1 /\ new = "refused"
                             /\ a[i] # "exchange_error"
    BY <1>0, <1>4, <2>2 DEF Connected
  <2>4. ReportsAre(a, new)
    BY <1>0, <1>4, <2>3 DEF ReportsAre
  <2>5. QED
    BY <1>1, <2>4 DEF a
<1>5. CASE st = "waiting"
  <2>1. \A i \in 1..Len(l) : /\ l[i] = "connect_time" => i = 1
                             /\ l[i] # "connect_error" /\ l[i] # "exchange_error"
    BY <1>5 DEF ReportsAre
  <2>2. what \in {"exchange_time", "exchange_error"} /\ new \in {"pausing", "erred"}
        /\ (what = "exchange_error" <=> new = "erred")
    BY <1>0, <1>5
  <2>3. \A i \in 1..Len(a) : /\ a[i] = "connect_time" => i = 1 /\ new \in Connected
                             /\ a[i] # "connect_error"
                             /\ a[i] = "exchange_error" => i = Len(a) /\ new = "erred"
    BY <1>3, <2>1, <2>2 DEF Connected
  <2>4. new = "erred" => Has(a, "exchange_error")
    BY <1>2, <2>2
  <2>5. ReportsAre(a, new)
    BY <2>2, <2>3, <2>4 DEF ReportsAre
  <2>6. QED
    BY <1>1, <2>5 DEF a
<1>6. QED
  BY <1>0, <1>4, <1>5

\* The logger takes the first report of a connector: it had not heard it before,
\* and the others stay as they were.
LEMMA ReportTaken ==
  ASSUME NEW l \in Seq(Reports), NEW st, ReportsAre(l, st), l # <<>>
  PROVE  /\ Tail(l) \in Seq(Reports) /\ Head(l) \in Reports /\ ReportsAre(Tail(l), st)
         /\ Has(l, Head(l))
         /\ \A w \in Reports : Head(l) # w => (Has(Tail(l), w) <=> Has(l, w))
         /\ Head(l) # "exchange_time" => ~Has(Tail(l), Head(l))
<1> DEFINE t == Tail(l)
           h == Head(l)
<1>1. /\ t \in Seq(Reports) /\ Len(l) \in Nat /\ Len(l) >= 1 /\ Len(t) = Len(l) - 1
      /\ h = l[1] /\ h \in Reports
      /\ \A i \in 1..(Len(l) - 1) : t[i] = l[i + 1]
      /\ \A w : Has(l, w) <=> h = w \/ Has(t, w)
  <2>1. "connect_time" \in Reports
    BY DEF Reports
  <2>2. QED
    BY <2>1, HasChanges, LenProperties
<1> HIDE DEF t, h
<1>2. ASSUME NEW i \in 1..Len(t)
      PROVE  /\ t[i] # "connect_time" /\ t[i] # "connect_error"
             /\ t[i] = "exchange_error" => i = Len(t) /\ st = "erred"
  <2>1. PICK j \in Nat : j = i + 1
    BY <1>1
  <2>2. j \in 1..Len(l) /\ j # 1 /\ t[i] = l[j] /\ (j = Len(l) => i = Len(t))
    BY <1>1, <2>1
  <2>3. QED
    BY <2>2 DEF ReportsAre
<1>3. ~Has(t, "connect_time") /\ ~Has(t, "connect_error")
  BY <1>2 DEF Has
<1>4. h = "exchange_error" => ~Has(t, "exchange_error")
  <2> SUFFICES ASSUME h = "exchange_error" PROVE ~Has(t, "exchange_error")
    OBVIOUS
  <2>1. 1 \in 1..Len(l)
    BY <1>1
  <2>2. 1 = Len(l)
    BY <1>1, <2>1 DEF ReportsAre
  <2>3. Len(t) = 0
    BY <1>1, <2>2
  <2>4. QED
    BY <2>3 DEF Has
<1>5. st \notin {"none", "connecting"}
  BY DEF ReportsAre
<1>6. ReportsAre(t, st)
  BY <1>2, <1>3, <1>5 DEF ReportsAre
<1>7. h # "exchange_time" => ~Has(t, h)
  BY <1>1, <1>3, <1>4 DEF Reports
<1>8. QED
  BY <1>1, <1>6, <1>7 DEF t, h

\* Whether a connector counts among the heard.
Took(st, l, sts, what) == One(st \in sts /\ ~Has(l, what))

\* A report that has been sent is not heard yet.
LEMMA AddedIsUnheard ==
  ASSUME NEW l \in Seq(Reports), NEW st, NEW what, NEW new, ReportsAre(l, st),
         Reporting(st, what, new)
  PROVE  /\ Took(new, Append(l, what), {"refused"}, "connect_error") = Took(st, l, {"refused"}, "connect_error")
         /\ Took(new, Append(l, what), {"erred"}, "exchange_error") = Took(st, l, {"erred"}, "exchange_error")
         /\ Took(new, Append(l, what), Connected, "connect_time") = Took(st, l, Connected, "connect_time")
<1>0. /\ what \in Reports
      /\ \/ st = "connecting" /\ what = "connect_time" /\ new = "pausing"
         \/ st = "connecting" /\ what = "connect_error" /\ new = "refused"
         \/ st = "waiting" /\ what = "exchange_time" /\ new = "pausing"
         \/ st = "waiting" /\ what = "exchange_error" /\ new = "erred"
  BY DEF Reports, Reporting
<1> DEFINE a == Append(l, what)
<1>1. \A w : Has(a, w) <=> Has(l, w) \/ what = w
  BY <1>0, HasChanges
<1> HIDE DEF a
<1>2. st \notin {"refused", "erred"}
  BY <1>0
<1>3. (new = "refused" => Has(a, "connect_error")) /\ (new = "erred" => Has(a, "exchange_error"))
  BY <1>0, <1>1
<1>4. (new \in Connected /\ ~Has(a, "connect_time")) <=> (st \in Connected /\ ~Has(l, "connect_time"))
  <2>1. CASE st = "connecting" /\ what = "connect_time" /\ new = "pausing"
    BY <1>1, <2>1 DEF Connected
  <2>2. CASE st = "connecting" /\ what = "connect_error" /\ new = "refused"
    BY <2>2 DEF Connected
  <2>3. CASE st = "waiting" /\ what = "exchange_time" /\ new = "pausing"
    BY <1>1, <2>3 DEF Connected
  <2>4. CASE st = "waiting" /\ what = "exchange_error" /\ new = "erred"
    BY <1>1, <2>4 DEF Connected
  <2>5. QED
    BY <1>0, <2>1, <2>2, <2>3, <2>4
<1>5. QED
  BY <1>2, <1>3, <1>4 DEF a, Took, One

\* A report that is taken is heard from then on.
LEMMA TakenIsHeard ==
  ASSUME NEW l \in Seq(Reports), NEW st, ReportsAre(l, st), l # <<>>
  PROVE  /\ Took(st, Tail(l), {"refused"}, "connect_error")
              = Took(st, l, {"refused"}, "connect_error") + One(Head(l) = "connect_error")
         /\ Took(st, Tail(l), {"erred"}, "exchange_error")
              = Took(st, l, {"erred"}, "exchange_error") + One(Head(l) = "exchange_error")
         /\ Took(st, Tail(l), Connected, "connect_time")
              = Took(st, l, Connected, "connect_time") + One(Head(l) = "connect_time")
<1> DEFINE t == Tail(l)
           h == Head(l)
<1>1. /\ Has(l, h) /\ h \in Reports
      /\ \A w \in Reports : h # w => (Has(t, w) <=> Has(l, w))
      /\ h # "exchange_time" => ~Has(t, h)
  BY ReportTaken
<1>2. /\ h = "connect_error" => st = "refused"
      /\ h = "exchange_error" => st = "erred"
      /\ h = "connect_time" => st \in Connected
  <2>1. Len(l) \in Nat /\ Len(l) >= 1 /\ h = l[1]
    BY <1>1, HasChanges, LenProperties
  <2>2. 1 \in 1..Len(l)
    BY <2>1
  <2>3. QED
    BY <2>1, <2>2 DEF ReportsAre
<1> HIDE DEF t, h
<1>3. {"connect_error", "exchange_error", "connect_time"} \subseteq Reports
  BY DEF Reports
<1>4. ASSUME NEW w \in Reports, NEW sts, h = w => st \in sts, w # "exchange_time"
      PROVE  Took(st, t, sts, w) = Took(st, l, sts, w) + One(h = w)
  <2>1. CASE h = w
    <3>1. Has(l, w) /\ ~Has(t, w) /\ st \in sts
      BY <1>1, <1>4, <2>1
    <3>2. QED
      BY <2>1, <3>1 DEF Took, One
  <2>2. CASE h # w
    <3>1. Has(t, w) <=> Has(l, w)
      BY <1>1, <2>2
    <3>2. Took(st, t, sts, w) = Took(st, l, sts, w) /\ Took(st, l, sts, w) \in Nat
      BY <3>1 DEF Took, One
    <3>3. One(h = w) = 0
      BY <2>2 DEF One
    <3>4. QED
      BY <3>2, <3>3
  <2>3. QED
    BY <2>1, <2>2
<1>5. QED
  BY <1>2, <1>3, <1>4 DEF t, h

\* The types as separate facts.
ConStates == {"none", "connecting", "pausing", "waiting", "refused", "erred"}
Mails     == {"whole", "part", "closed"}
LogCounts    == [chld : Nat, conErr : Nat, exchErr : Nat, msgs : Nat]
LogTypes ==
  con \in [Conns -> ConStates] /\ log \in [Conns -> Seq(Reports)] /\ stats \in LogCounts

\* How the tally changes when one connector and the counts do.
LEMMA TallyMoves ==
  ASSUME LogTypes, LogTypes', Tally, NEW c \in Conns,
         \A x \in Conns \ {c} : con'[x] = con[x] /\ log'[x] = log[x],
         ReportsAre(log'[c], con'[c]),
         stats'.conErr = stats.conErr - Took(con[c], log[c], {"refused"}, "connect_error")
                           + Took(con'[c], log'[c], {"refused"}, "connect_error"),
         stats'.exchErr = stats.exchErr - Took(con[c], log[c], {"erred"}, "exchange_error")
                            + Took(con'[c], log'[c], {"erred"}, "exchange_error"),
         stats'.chld - stats'.conErr
           = stats.chld - stats.conErr - Took(con[c], log[c], Connected, "connect_time")
               + Took(con'[c], log'[c], Connected, "connect_time")
  PROVE  Tally'
<1>1. IsFiniteSet(Conns)
  <2>1. MaxChildren \in Int
    BY ErlangAssumption
  <2>2. QED
    BY <2>1, FS_Interval DEF Conns
<1>2. ASSUME NEW sts, NEW w
      PROVE  /\ Cardinality(Heard(con, log, sts, w)) \in Nat
             /\ Cardinality(Heard(con', log', sts, w)) \in Nat
             /\ Cardinality(Heard(con', log', sts, w))
                  = Cardinality(Heard(con, log, sts, w)) - Took(con[c], log[c], sts, w)
                      + Took(con'[c], log'[c], sts, w)
  <2>1. PICK A \in SUBSET Conns : A = Heard(con, log, sts, w)
    BY DEF Heard
  <2>2. PICK B \in SUBSET Conns : B = Heard(con', log', sts, w)
    BY DEF Heard
  <2>3. \A y \in Conns \ {c} : y \in A <=> y \in B
    BY <2>1, <2>2 DEF Heard
  <2>4. /\ Cardinality(A) \in Nat /\ Cardinality(B) \in Nat
        /\ Cardinality(B) = Cardinality(A) - One(c \in A) + One(c \in B)
    BY <1>1, <2>3, SetChange
  <2>5. One(c \in A) = Took(con[c], log[c], sts, w) /\ One(c \in B) = Took(con'[c], log'[c], sts, w)
    BY <2>1, <2>2 DEF Heard, Took, One
  <2>6. QED
    BY <2>1, <2>2, <2>4, <2>5
<1>3. \A x \in Conns : ReportsAre(log'[x], con'[x])
  BY DEF Tally
<1>4. stats'.conErr = Cardinality(Heard(con', log', {"refused"}, "connect_error"))
  BY <1>2 DEF Tally
<1>5. stats'.exchErr = Cardinality(Heard(con', log', {"erred"}, "exchange_error"))
  BY <1>2 DEF Tally
<1>6. stats'.chld = stats'.conErr + Cardinality(Heard(con', log', Connected, "connect_time"))
  <2>1. PICK a \in Nat, b \in Nat, x \in Nat, y \in Nat :
          a = stats.chld /\ b = stats.conErr /\ x = stats'.chld /\ y = stats'.conErr
    BY DEF LogTypes, LogCounts
  <2>2. PICK p \in Nat, q \in Nat :
          /\ p = Cardinality(Heard(con, log, Connected, "connect_time"))
          /\ q = Cardinality(Heard(con', log', Connected, "connect_time"))
    BY <1>2
  <2>3. PICK t \in Nat, u \in Nat :
          /\ t = Took(con[c], log[c], Connected, "connect_time")
          /\ u = Took(con'[c], log'[c], Connected, "connect_time")
    BY DEF Took, One
  <2>4. q = p - t + u
    BY <1>2, <2>2, <2>3
  <2>5. x - y = a - b - t + u
    BY <2>1, <2>3
  <2>6. a = b + p
    BY <2>1, <2>2 DEF Tally
  <2>7. x = y + q
    BY <2>4, <2>5, <2>6
  <2>8. QED
    BY <2>1, <2>2, <2>7
<1>7. QED
  BY <1>3, <1>4, <1>5, <1>6 DEF Tally

\* The empty mailbox and the mailbox with one message.
LEMMA SmallMail ==
  ASSUME NEW m \in Seq(Mails), NEW x \in Mails
  PROVE  /\ Append(m, x) \in Seq(Mails) /\ Append(m, x) # <<>>
         /\ m = <<>> => Append(m, x) = <<x>>
         /\ Head(<<x>>) = x /\ Tail(<<x>>) = <<>>
         /\ m # <<>> => /\ Head(Append(m, x)) = Head(m) /\ Tail(m) \in Seq(Mails)
                        /\ Tail(Append(m, x)) = Append(Tail(m), x)
<1>1. /\ Len(m) \in Nat /\ Append(m, x) \in Seq(Mails) /\ Len(Append(m, x)) = Len(m) + 1
      /\ Append(m, x)[Len(m) + 1] = x /\ \A i \in 1..Len(m) : Append(m, x)[i] = m[i]
  BY AppendProperties, LenProperties
<1>2. Append(m, x) # <<>>
  BY AppendProperties
<1>3. Append(<<>>, x) = <<x>>
  OBVIOUS
<1>4. Head(<<x>>) = x /\ Tail(<<x>>) = <<>>
  OBVIOUS
<1>5. ASSUME m # <<>>
      PROVE  /\ Head(Append(m, x)) = Head(m) /\ Tail(m) \in Seq(Mails)
             /\ Tail(Append(m, x)) = Append(Tail(m), x)
  <2>1. 1 <= Len(m)
    BY <1>1, <1>5, EmptySeq
  <2>2. Head(Append(m, x)) = Head(m)
    <3>1. Head(Append(m, x)) = Append(m, x)[1] /\ Head(m) = m[1]
      BY <1>1, <1>2, <1>5
    <3>2. QED
      BY <1>1, <2>1, <3>1
  <2>3. /\ Tail(m) \in Seq(Mails) /\ Len(Tail(m)) = Len(m) - 1
        /\ \A i \in 1..Len(Tail(m)) : Tail(m)[i] = m[i + 1]
    BY <1>5, HeadTailProperties
  <2>4. /\ Tail(Append(m, x)) \in Seq(Mails) /\ Len(Tail(Append(m, x))) = Len(m)
        /\ \A i \in 1..Len(Tail(Append(m, x))) : Tail(Append(m, x))[i] = Append(m, x)[i + 1]
    BY <1>1, <1>2, HeadTailProperties
  <2>5. /\ Append(Tail(m), x) \in Seq(Mails) /\ Len(Append(Tail(m), x)) = Len(m)
        /\ \A i \in 1..Len(Tail(m)) : Append(Tail(m), x)[i] = Tail(m)[i]
        /\ Append(Tail(m), x)[Len(Tail(m)) + 1] = x
    BY <1>1, <2>3, AppendProperties
  <2> DEFINE p == Tail(Append(m, x))
             q == Append(Tail(m), x)
             a == Append(m, x)
             t == Tail(m)
  <2>6. /\ p \in Seq(Mails) /\ q \in Seq(Mails) /\ Len(p) = Len(m) /\ Len(q) = Len(m)
        /\ Len(t) = Len(m) - 1
        /\ \A i \in 1..Len(m) : p[i] = a[i + 1]
        /\ \A i \in 1..(Len(m) - 1) : t[i] = m[i + 1] /\ q[i] = t[i]
        /\ q[Len(t) + 1] = x /\ a[Len(m) + 1] = x
        /\ \A i \in 1..Len(m) : a[i] = m[i]
    BY <1>1, <2>3, <2>4, <2>5
  <2> HIDE DEF p, q, a, t
  <2>7. ASSUME NEW i \in 1..Len(m) PROVE p[i] = q[i]
    <3>1. CASE i = Len(m)
      <4>1. Len(t) + 1 = i
        BY <1>1, <2>6, <3>1
      <4>2. q[i] = x
        BY <2>6, <4>1
      <4>3. p[i] = x
        BY <2>6, <3>1
      <4>4. QED
        BY <4>2, <4>3
    <3>2. CASE i # Len(m)
      <4>1. PICK j \in Nat : j = i + 1
        BY <1>1
      <4>2. i \in 1..(Len(m) - 1) /\ j \in 1..Len(m)
        BY <1>1, <3>2, <4>1
      <4>3. p[i] = a[j] /\ q[i] = m[j]
        BY <2>6, <4>1, <4>2
      <4>4. QED
        BY <2>6, <4>2, <4>3
    <3>3. QED
      BY <3>1, <3>2
  <2>8. p = q
    BY <2>6, <2>7, SeqEqual
  <2>9. QED
    BY <2>2, <2>3, <2>8 DEF p, q
<1>6. QED
  BY <1>1, <1>2, <1>3, <1>4, <1>5

\* A piece of the reply comes: all of it in one piece, or a fault.
LEMMA PieceComes ==
  ASSUME NEW st \in ConStates \ {"refused", "erred"}, NEW m \in Seq(Mails),
         NEW u \in Nat, NEW d \in Nat, NEW lk, NEW gone, NEW n \in 1..d, NEW x \in Mails,
         OneRequest(st, m, u, d, lk),
         x = "whole" => n = MsgLen
  PROVE  /\ OneRequest(st, Append(m, x), u, d - n, lk)
         /\ NoTrouble(st, m, lk, gone) /\ x = "whole" => NoTrouble(st, Append(m, x), lk, gone)
<1>0. MsgLen \in Nat \ {0}
  BY ErlangAssumption
<1>1. n \in Nat /\ 1 <= n /\ n <= d
  OBVIOUS
<1>2. st = "waiting" /\ u + d <= MsgLen
  BY <1>1 DEF OneRequest, ConStates
<1>3. ~(m # <<>> /\ Head(m) = "whole")
  BY <1>1, <1>2 DEF OneRequest
<1>4. u + (d - n) <= MsgLen /\ (n = MsgLen => u = 0 /\ d - n = 0)
  BY <1>0, <1>1, <1>2
<1>5. CASE m = <<>>
  <2>1. Append(m, x) = <<x>> /\ Head(<<x>>) = x /\ Tail(<<x>>) = <<>>
    BY <1>5, SmallMail
  <2>2. OneRequest(st, Append(m, x), u, d - n, lk)
    BY <1>2, <1>4, <2>1 DEF OneRequest, Rest
  <2>3. NoTrouble(st, m, lk, gone) /\ x = "whole" => NoTrouble(st, Append(m, x), lk, gone)
    BY <1>2, <2>1 DEF NoTrouble
  <2>4. QED
    BY <2>2, <2>3
<1>6. CASE m # <<>>
  <2>1. Head(Append(m, x)) = Head(m) /\ Head(m) # "whole"
    BY <1>3, <1>6, SmallMail
  <2>2. OneRequest(st, Append(m, x), u, d - n, lk)
    BY <1>2, <1>4, <2>1 DEF OneRequest
  <2>3. ~NoTrouble(st, m, lk, gone)
    <3>1. Head(<<"whole">>) = "whole"
      OBVIOUS
    <3>2. QED
      BY <1>2, <1>6, <2>1, <3>1 DEF NoTrouble
  <2>4. QED
    BY <2>2, <2>3
<1>7. QED
  BY <1>5, <1>6

\* The end of the connection comes, after the reply.
LEMMA EndComes ==
  ASSUME NEW st \in ConStates \ {"refused", "erred"}, NEW m \in Seq(Mails), NEW u \in Nat,
         OneRequest(st, m, u, 0, "down")
  PROVE  OneRequest(st, Append(m, "closed"), u, 0, "none")
<1>1. st \in {"pausing", "waiting"} /\ "closed" \in Mails
  BY DEF OneRequest, ConStates, Mails
<1>2. /\ m = <<>> => Append(m, "closed") = <<"closed">>
      /\ Head(<<"closed">>) = "closed" /\ Tail(<<"closed">>) = <<>>
      /\ m # <<>> => /\ Head(Append(m, "closed")) = Head(m)
                     /\ Tail(Append(m, "closed")) = Append(Tail(m), "closed")
                     /\ Tail(m) \in Seq(Mails)
  BY <1>1, SmallMail
<1>3. CASE m = <<>>
  <2>1. Append(m, "closed") = <<"closed">> /\ Head(<<"closed">>) # "whole"
    BY <1>2, <1>3
  <2>2. QED
    BY <1>1, <2>1 DEF OneRequest, Rest
<1>4. CASE m # <<>>
  <2>1. st = "waiting"
    BY <1>1, <1>4 DEF OneRequest, Rest
  <2>2. CASE Head(m) = "whole"
    <3>1. u = 0 /\ Tail(m) = <<>>
      BY <1>4, <2>1, <2>2 DEF OneRequest, Rest
    <3>2. Append(Tail(m), "closed") = <<"closed">>
      BY <1>1, <1>2, <1>4, <3>1, SmallMail
    <3>3. QED
      BY <1>2, <1>4, <2>1, <3>1, <3>2 DEF OneRequest, Rest
  <2>3. CASE Head(m) # "whole"
    BY <1>2, <1>4, <2>1, <2>3 DEF OneRequest
  <2>4. QED
    BY <2>2, <2>3
<1>5. QED
  BY <1>3, <1>4

Links      == {"none", "queued", "up", "down"}
Handlers   == {"none", "bind", "handle", "ended"}
Acceptor   == [pc : {"accept", "control", "perm", "ended"}, sock : {NoSock} \union Conns]
NetTypes ==
  /\ mail \in [Conns -> Seq(Mails)] /\ link \in [Conns -> Links]
  /\ up \in [Conns -> 0..MsgLen] /\ down \in [Conns -> 0..MsgLen]
  /\ fault \in [Conns -> BOOLEAN] /\ over \in BOOLEAN
ServerTypes ==
  /\ acc \in Acceptor /\ handler \in [Conns -> Handlers]
  /\ owner \in [Conns -> {"acceptor", "handler"}] /\ perm \in [Conns -> BOOLEAN]
ClientTypes == running \in 0..MaxChildren /\ sent \in [Conns -> 0..MaxSent]

\* The types of the parts.
LEMMA ErlangTypes ==
  ASSUME ErlangTypeOK
  PROVE  LogTypes /\ NetTypes /\ ServerTypes /\ ClientTypes
BY DEF ErlangTypeOK, LogTypes, NetTypes, ServerTypes, ClientTypes, ConStates, Mails, LogCounts, Links,
       Handlers, Acceptor

\* One connection changes and stays in order; the others do not change.
LEMMA OrderlyMoves ==
  ASSUME \A x \in Conns : Orderly(x), NEW c \in Conns, over' = over,
         \A x \in Conns \ {c} :
           /\ con'[x] = con[x] /\ mail'[x] = mail[x] /\ up'[x] = up[x]
           /\ down'[x] = down[x] /\ link'[x] = link[x] /\ fault'[x] = fault[x],
         Orderly(c)'
  PROVE  \A x \in Conns : Orderly(x)'
<1> SUFFICES ASSUME NEW x \in Conns
             PROVE  Orderly(x)'
  OBVIOUS
<1>1. CASE x = c
  BY <1>1
<1>2. CASE x # c
  <2>1. /\ con'[x] = con[x] /\ mail'[x] = mail[x] /\ up'[x] = up[x]
        /\ down'[x] = down[x] /\ link'[x] = link[x] /\ fault'[x] = fault[x]
    BY <1>2
  <2>2. Orderly(x)
    OBVIOUS
  <2>3. ClientGone(x)' <=> ClientGone(x)
    BY <2>1 DEF ClientGone
  <2>4. OneRequest(con'[x], mail'[x], up'[x], down'[x], link'[x])
    BY <2>1, <2>2 DEF Orderly
  <2>5. ASSUME ~fault'[x] PROVE NoTrouble(con'[x], mail'[x], link'[x], ClientGone(x)')
    BY <2>1, <2>2, <2>3, <2>5 DEF Orderly, NoTrouble
  <2>6. QED
    BY <2>4, <2>5 DEF Orderly
<1>3. QED
  BY <1>1, <1>2

\* The same without changes at all but in the server.
LEMMA OrderlyStays ==
  ASSUME \A x \in Conns : Orderly(x), UNCHANGED <<con, mail, up, down, link, fault, over>>
  PROVE  \A x \in Conns : Orderly(x)'
BY DEF Orderly, OneRequest, NoTrouble, Rest, ClientGone

\* The invariant holds initially.
LEMMA ErlangStarts ==
  ASSUME ErlangInit
  PROVE  ErlangInv
<1>1. /\ MaxChildren \in Nat /\ MsgLen \in Nat \ {0} /\ MaxSent \in Nat
      /\ 0 \in 0..MaxChildren /\ 0 \in 0..MsgLen /\ 0 \in 0..MaxSent
  BY ErlangAssumption
<1>2. <<>> \in Seq(Mails) /\ <<>> \in Seq(Reports) /\ Len(<<>>) = 0
  BY EmptySeq
<1>3. ErlangTypeOK
  <2>1. LogTypes
    BY <1>2 DEF ErlangInit, LogTypes, ConStates, LogCounts
  <2>2. mail \in [Conns -> Seq(Mails)] /\ link \in [Conns -> Links]
    BY <1>2 DEF ErlangInit, Links
  <2>3. up \in [Conns -> 0..MsgLen] /\ down \in [Conns -> 0..MsgLen]
    BY <1>1 DEF ErlangInit
  <2>4. fault \in [Conns -> BOOLEAN] /\ perm \in [Conns -> BOOLEAN]
    BY DEF ErlangInit
  <2>5. over \in BOOLEAN
    BY DEF ErlangInit
  <2>6. acc \in Acceptor /\ handler \in [Conns -> Handlers] /\ owner \in [Conns -> {"acceptor", "handler"}]
    BY DEF ErlangInit, Acceptor, Handlers
  <2>7. ClientTypes
    BY <1>1 DEF ErlangInit, ClientTypes
  <2>8. QED
    BY <2>1, <2>2, <2>3, <2>4, <2>5, <2>6, <2>7
       DEF ErlangTypeOK, LogTypes, ClientTypes, ConStates, Mails, LogCounts, Links, Handlers, Acceptor
<1>4. Spawned
  BY DEF ErlangInit, Spawned
<1>5. Tally
  <2>1. \A c \in Conns : con[c] = "none" /\ log[c] = <<>>
    BY DEF ErlangInit
  <2>2. \A c \in Conns : ReportsAre(log[c], con[c])
    BY <1>2, <2>1 DEF ReportsAre
  <2>3. Heard(con, log, {"refused"}, "connect_error") = {} /\ Heard(con, log, {"erred"}, "exchange_error") = {}
        /\ Heard(con, log, Connected, "connect_time") = {}
    BY <2>1 DEF Heard, Connected
  <2>4. stats.conErr = 0 /\ stats.exchErr = 0 /\ stats.chld = 0
    BY DEF ErlangInit
  <2>5. Cardinality({}) = 0
    BY FS_EmptySet
  <2>6. QED
    BY <2>2, <2>3, <2>4, <2>5 DEF Tally
<1>6. ASSUME NEW c \in Conns PROVE Orderly(c)
  <2>1. con[c] = "none" /\ mail[c] = <<>> /\ up[c] = 0 /\ down[c] = 0 /\ link[c] = "none"
    BY DEF ErlangInit
  <2>2. QED
    BY <1>1, <2>1 DEF Orderly, OneRequest, NoTrouble
<1>7. QED
  BY <1>3, <1>4, <1>5, <1>6 DEF ErlangInv

\* The starter spawns a connector.
LEMMA StarterStep ==
  ASSUME ErlangInv, starter
  PROVE  ErlangInv'
<1>1. /\ ErlangTypeOK /\ LogTypes /\ NetTypes /\ ServerTypes /\ ClientTypes
      /\ Spawned /\ Tally /\ \A x \in Conns : Orderly(x)
  BY ErlangTypes DEF ErlangInv
<1>2. /\ running < MaxChildren /\ running' = running + 1
      /\ con' = [con EXCEPT ![running + 1] = "connecting"]
      /\ UNCHANGED <<sent, mail, log, stats, over, acc, handler, owner, perm, link, up, down, fault>>
  BY DEF starter, Set, server, network
<1>3. PICK c \in Conns : c = running + 1
  BY <1>1, <1>2, ErlangAssumption DEF ClientTypes, Conns
<1>4. con' \in [Conns -> ConStates] /\ con'[c] = "connecting" /\ \A x \in Conns \ {c} : con'[x] = con[x]
  BY <1>1, <1>2, <1>3 DEF LogTypes, ConStates
<1>5. con[c] = "none"
  <2>1. c > running
    BY <1>1, <1>3, ErlangAssumption DEF ClientTypes
  <2>2. QED
    BY <1>1, <2>1 DEF Spawned
<1>6. LogTypes'
  BY <1>1, <1>2, <1>4 DEF LogTypes
<1>7. ErlangTypeOK'
  <2>1. running' \in 0..MaxChildren
    BY <1>1, <1>2, ErlangAssumption DEF ClientTypes
  <2>2. QED
    BY <1>1, <1>2, <1>4, <2>1 DEF ErlangTypeOK, ConStates
<1>8. Spawned'
  <2> SUFFICES ASSUME NEW x \in Conns, x > running' PROVE con'[x] = "none"
    BY DEF Spawned
  <2>1. x # c /\ x > running
    BY <1>1, <1>2, <1>3, ErlangAssumption DEF ClientTypes, Conns
  <2>2. QED
    BY <1>1, <1>4, <2>1 DEF Spawned
<1>9. Tally'
  <2>1. log[c] = <<>> /\ log' = log /\ stats' = stats
    BY <1>1, <1>2, <1>5 DEF Tally, ReportsAre
  <2>2. ReportsAre(log'[c], con'[c])
    BY <1>1, <1>4, <1>5, <2>1 DEF Tally, ReportsAre
  <2>3. /\ Took(con[c], log[c], {"refused"}, "connect_error") = 0
        /\ Took(con'[c], log'[c], {"refused"}, "connect_error") = 0
        /\ Took(con[c], log[c], {"erred"}, "exchange_error") = 0
        /\ Took(con'[c], log'[c], {"erred"}, "exchange_error") = 0
        /\ Took(con[c], log[c], Connected, "connect_time") = 0
        /\ Took(con'[c], log'[c], Connected, "connect_time") = 0
    BY <1>4, <1>5 DEF Took, One, Connected
  <2>4. PICK a \in Nat, b \in Nat, e \in Nat : a = stats.chld /\ b = stats.conErr /\ e = stats.exchErr
    BY <1>1 DEF LogTypes, LogCounts
  <2>5. b = b - 0 + 0 /\ e = e - 0 + 0 /\ a - b = a - b - 0 + 0
    OBVIOUS
  <2>6. QED
    BY <1>1, <1>4, <1>6, <2>1, <2>2, <2>3, <2>4, <2>5, TallyMoves
<1>10. Orderly(c)'
  <2>1. Orderly(c)
    BY <1>1
  <2>2. QED
    BY <1>2, <1>4, <1>5, <2>1 DEF Orderly, OneRequest, NoTrouble, ClientGone
<1>11. \A x \in Conns : Orderly(x)'
  BY <1>1, <1>2, <1>4, <1>10, OrderlyMoves
<1>12. QED
  BY <1>7, <1>8, <1>9, <1>11 DEF ErlangInv

\* A connector changes its state and reports it.
LEMMA ReportTally ==
  ASSUME LogTypes, Spawned, Tally, NEW c \in Conns, NEW what, NEW new,
         con' = [con EXCEPT ![c] = new], log' = [log EXCEPT ![c] = Append(@, what)],
         stats' = stats, running' = running,
         Reporting(con[c], what, new)
  PROVE  LogTypes' /\ Tally' /\ Spawned'
<1>1. PICK l \in Seq(Reports), st \in ConStates : l = log[c] /\ st = con[c]
  BY DEF LogTypes
<1>2. /\ new \in ConStates /\ st # "none"
      /\ Reporting(st, what, new)
  BY <1>1 DEF ConStates, Reporting
<1>3. ReportsAre(l, st)
  BY <1>1 DEF Tally
<1>4. Append(l, what) \in Seq(Reports) /\ ReportsAre(Append(l, what), new)
  BY <1>2, <1>3, ReportAdded
<1>5. /\ con' \in [Conns -> ConStates] /\ con'[c] = new
      /\ log' \in [Conns -> Seq(Reports)] /\ log'[c] = Append(l, what)
      /\ \A x \in Conns \ {c} : con'[x] = con[x] /\ log'[x] = log[x]
  BY <1>1, <1>2, <1>4 DEF LogTypes
<1>6. LogTypes'
  BY <1>5 DEF LogTypes
<1>7. Spawned'
  BY <1>1, <1>2, <1>5 DEF Spawned
<1>8. /\ Took(new, Append(l, what), {"refused"}, "connect_error") = Took(st, l, {"refused"}, "connect_error")
      /\ Took(new, Append(l, what), {"erred"}, "exchange_error") = Took(st, l, {"erred"}, "exchange_error")
      /\ Took(new, Append(l, what), Connected, "connect_time") = Took(st, l, Connected, "connect_time")
  BY <1>2, <1>3, AddedIsUnheard
<1>9. PICK i \in Nat, j \in Nat, k \in Nat :
        /\ i = Took(st, l, {"refused"}, "connect_error")
        /\ j = Took(st, l, {"erred"}, "exchange_error")
        /\ k = Took(st, l, Connected, "connect_time")
  BY DEF Took, One
<1>10. PICK a \in Nat, b \in Nat, e \in Nat : a = stats.chld /\ b = stats.conErr /\ e = stats.exchErr
  BY DEF LogTypes, LogCounts
<1>11. b = b - i + i /\ e = e - j + j /\ a - b = a - b - k + k
  OBVIOUS
<1>12. /\ stats'.conErr = stats.conErr - Took(con[c], log[c], {"refused"}, "connect_error")
                            + Took(con'[c], log'[c], {"refused"}, "connect_error")
       /\ stats'.exchErr = stats.exchErr - Took(con[c], log[c], {"erred"}, "exchange_error")
                             + Took(con'[c], log'[c], {"erred"}, "exchange_error")
       /\ stats'.chld - stats'.conErr
            = stats.chld - stats.conErr - Took(con[c], log[c], Connected, "connect_time")
                + Took(con'[c], log'[c], Connected, "connect_time")
  BY <1>1, <1>5, <1>8, <1>9, <1>10, <1>11
<1>13. ReportsAre(log'[c], con'[c])
  BY <1>4, <1>5
<1>14. Tally'
  BY <1>5, <1>6, <1>12, <1>13, TallyMoves
<1>15. QED
  BY <1>6, <1>7, <1>14

\* A connector connects, or is refused.
LEMMA ConnectorStep ==
  ASSUME ErlangInv, NEW c \in Conns, connector(c)
  PROVE  ErlangInv'
<1>1. /\ ErlangTypeOK /\ LogTypes /\ NetTypes /\ ServerTypes /\ ClientTypes
      /\ Spawned /\ Tally /\ \A x \in Conns : Orderly(x)
  BY ErlangTypes DEF ErlangInv
<1>2. /\ con[c] = "connecting" /\ ~over
      /\ UNCHANGED <<running, sent, mail, stats, over, acc, handler, owner, perm, up, down, fault>>
  BY DEF connector, server
<1> DEFINE Becomes(what, new) ==
             /\ \/ what = "connect_time" /\ new = "pausing"
                \/ what = "connect_error" /\ new = "refused"
             /\ con' = [con EXCEPT ![c] = new] /\ log' = [log EXCEPT ![c] = Append(@, what)]
             /\ new = "pausing" => link' = [link EXCEPT ![c] = "queued"]
             /\ new = "refused" => link' = link
<1>0. PICK what, new : Becomes(what, new)
  <2>1. \/ /\ con' = [con EXCEPT ![c] = "pausing"] /\ log' = [log EXCEPT ![c] = Append(@, "connect_time")]
           /\ link' = [link EXCEPT ![c] = "queued"]
        \/ /\ con' = [con EXCEPT ![c] = "refused"] /\ log' = [log EXCEPT ![c] = Append(@, "connect_error")]
           /\ link' = link
    BY DEF connector, Report, Set
  <2>2. Becomes("connect_time", "pausing") \/ Becomes("connect_error", "refused")
    BY <2>1
  <2> HIDE DEF Becomes
  <2>3. QED
    BY <2>2
<1>3. /\ con' = [con EXCEPT ![c] = new] /\ log' = [log EXCEPT ![c] = Append(@, what)]
      /\ \/ what = "connect_time" /\ new = "pausing"
         \/ what = "connect_error" /\ new = "refused"
      /\ new = "pausing" => link' = [link EXCEPT ![c] = "queued"]
      /\ new = "refused" => link' = link
  BY <1>0
<1> HIDE DEF Becomes
<1>4. \/ what = "connect_time" /\ new = "pausing"
      \/ what = "connect_error" /\ new = "refused"
  BY <1>3
<1>5. LogTypes' /\ Tally' /\ Spawned'
  BY <1>1, <1>2, <1>3, <1>4, ReportTally DEF Reporting
<1>6. /\ link' \in [Conns -> Links] /\ \A x \in Conns \ {c} : link'[x] = link[x]
      /\ (new = "pausing" => link'[c] = "queued") /\ (new = "refused" => link'[c] = link[c])
  <2>1. "queued" \in Links
    BY DEF Links
  <2>2. QED
    BY <1>1, <1>3, <1>4, <2>1 DEF NetTypes
<1>7. ErlangTypeOK'
  BY <1>1, <1>2, <1>5, <1>6 DEF ErlangTypeOK, LogTypes, ConStates, LogCounts, Links
<1>8. con'[c] = new /\ \A x \in Conns \ {c} : con'[x] = con[x]
  BY <1>1, <1>3 DEF LogTypes
<1>9. Orderly(c)'
  <2>1. Orderly(c)
    BY <1>1
  <2>2. mail[c] = <<>> /\ up[c] = 0 /\ down[c] = 0 /\ link[c] = "none" /\ up[c] + down[c] <= MsgLen
    BY <1>2, <2>1 DEF Orderly, OneRequest
  <2>3. OneRequest(con'[c], mail'[c], up'[c], down'[c], link'[c])
    BY <1>2, <1>4, <1>6, <1>8, <2>2 DEF OneRequest, Rest
  <2>4. NoTrouble(con'[c], mail'[c], link'[c], ClientGone(c)')
    BY <1>2, <1>4, <1>6, <1>8, <2>2 DEF NoTrouble
  <2>5. QED
    BY <2>3, <2>4 DEF Orderly
<1>10. \A x \in Conns : Orderly(x)'
  BY <1>1, <1>2, <1>6, <1>8, <1>9, OrderlyMoves
<1>11. QED
  BY <1>5, <1>7, <1>10 DEF ErlangInv

\* A connector sends its next request.
LEMMA RequestStep ==
  ASSUME ErlangInv, NEW c \in Conns, Send(c)
  PROVE  ErlangInv'
<1>1. /\ ErlangTypeOK /\ LogTypes /\ NetTypes /\ ServerTypes /\ ClientTypes
      /\ Spawned /\ Tally /\ \A x \in Conns : Orderly(x)
  BY ErlangTypes DEF ErlangInv
<1>2. /\ con[c] = "pausing" /\ con' = [con EXCEPT ![c] = "waiting"] /\ sent[c] < MaxSent
      /\ sent' = [sent EXCEPT ![c] = sent[c] + 1] /\ ~over
      /\ link[c] \in {"queued", "up"} => up' = [up EXCEPT ![c] = MsgLen]
      /\ link[c] \notin {"queued", "up"} => up' = up
      /\ UNCHANGED <<running, mail, log, stats, over, acc, handler, owner, perm, link, down, fault>>
  BY DEF Send, server, Set
<1>3. con' \in [Conns -> ConStates] /\ con'[c] = "waiting" /\ \A x \in Conns \ {c} : con'[x] = con[x]
  BY <1>1, <1>2 DEF LogTypes, ConStates
<1>4. sent' \in [Conns -> 0..MaxSent]
  <2>1. sent[c] + 1 \in 0..MaxSent
    BY <1>1, <1>2, ErlangAssumption DEF ClientTypes
  <2>2. QED
    BY <1>1, <1>2, <2>1 DEF ClientTypes
<1>5. /\ up' \in [Conns -> 0..MsgLen] /\ \A x \in Conns \ {c} : up'[x] = up[x]
      /\ link[c] \in {"queued", "up"} => up'[c] = MsgLen
      /\ link[c] \notin {"queued", "up"} => up'[c] = up[c]
  <2>1. MsgLen \in 0..MsgLen
    BY ErlangAssumption
  <2>2. QED
    BY <1>1, <1>2, <2>1 DEF NetTypes
<1>6. LogTypes' /\ ErlangTypeOK'
  BY <1>1, <1>2, <1>3, <1>4, <1>5 DEF ErlangTypeOK, LogTypes, ConStates, LogCounts
<1>7. Spawned'
  BY <1>1, <1>2, <1>3 DEF Spawned
<1>8. Tally'
  <2>1. log' = log /\ stats' = stats
    BY <1>2
  <2>2. ReportsAre(log'[c], con'[c])
    <3>1. ReportsAre(log[c], "pausing")
      BY <1>1, <1>2 DEF Tally
    <3>2. QED
      BY <1>3, <2>1, <3>1 DEF ReportsAre, Connected
  <2>3. PICK k \in Nat : /\ k = Took(con[c], log[c], Connected, "connect_time")
                         /\ k = Took(con'[c], log'[c], Connected, "connect_time")
    BY <1>2, <1>3, <2>1 DEF Took, One, Connected
  <2>4. /\ Took(con[c], log[c], {"refused"}, "connect_error") = 0
        /\ Took(con'[c], log'[c], {"refused"}, "connect_error") = 0
        /\ Took(con[c], log[c], {"erred"}, "exchange_error") = 0
        /\ Took(con'[c], log'[c], {"erred"}, "exchange_error") = 0
    BY <1>2, <1>3 DEF Took, One
  <2>5. PICK a \in Nat, b \in Nat, e \in Nat : a = stats.chld /\ b = stats.conErr /\ e = stats.exchErr
    BY <1>1 DEF LogTypes, LogCounts
  <2>6. b = b - 0 + 0 /\ e = e - 0 + 0 /\ a - b = a - b - k + k
    OBVIOUS
  <2>7. QED
    BY <1>1, <1>3, <1>6, <2>1, <2>2, <2>3, <2>4, <2>5, <2>6, TallyMoves
<1>9. Orderly(c)'
  <2>1. Orderly(c) /\ MsgLen \in Nat
    BY <1>1, ErlangAssumption
  <2>2. up[c] = 0 /\ down[c] = 0 /\ Rest(mail[c], link[c])
    BY <1>2, <2>1 DEF Orderly, OneRequest
  <2>3. mail[c] # <<>> => Head(mail[c]) # "whole"
    <3>1. Head(<<"closed">>) = "closed"
      OBVIOUS
    <3>2. QED
      BY <2>2, <3>1 DEF Rest
  <2>4. up'[c] + down'[c] <= MsgLen
    BY <1>2, <1>5, <2>1, <2>2
  <2>5. OneRequest(con'[c], mail'[c], up'[c], down'[c], link'[c])
    BY <1>2, <1>3, <2>3, <2>4 DEF OneRequest
  <2>6. ClientGone(c)' <=> ClientGone(c)
    BY <1>2, <1>3 DEF ClientGone
  <2>7. ASSUME ~fault'[c] PROVE NoTrouble(con'[c], mail'[c], link'[c], ClientGone(c)')
    BY <1>2, <1>3, <2>1, <2>6, <2>7 DEF Orderly, NoTrouble
  <2>8. QED
    BY <2>5, <2>7 DEF Orderly
<1>10. \A x \in Conns : Orderly(x)'
  BY <1>1, <1>2, <1>3, <1>5, <1>9, OrderlyMoves
<1>11. QED
  BY <1>6, <1>7, <1>8, <1>10 DEF ErlangInv

\* A connector takes a reply, or its error.
LEMMA ReplyStep ==
  ASSUME ErlangInv, NEW c \in Conns, Receive(c) \/ ReceiveTimeout(c)
  PROVE  ErlangInv'
<1>1. /\ ErlangTypeOK /\ LogTypes /\ NetTypes /\ ServerTypes /\ ClientTypes
      /\ Spawned /\ Tally /\ \A x \in Conns : Orderly(x)
  BY ErlangTypes DEF ErlangInv
<1>2. /\ con[c] = "waiting" /\ ~over
      /\ UNCHANGED <<running, sent, stats, over, acc, handler, owner, perm, link, up, down>>
  BY DEF Receive, ReceiveTimeout, server, network
<1>3. PICK what, new, m :
        /\ con' = [con EXCEPT ![c] = new] /\ log' = [log EXCEPT ![c] = Append(@, what)]
        /\ mail' = [mail EXCEPT ![c] = m]
        /\ \/ /\ what = "exchange_time" /\ new = "pausing" /\ m = Tail(mail[c]) /\ fault' = fault
              /\ mail[c] # <<>> /\ Head(mail[c]) = "whole"
           \/ /\ what = "exchange_error" /\ new = "erred" /\ m = <<>>
              /\ \/ mail[c] # <<>> /\ Head(mail[c]) # "whole" /\ fault' = fault
                 \/ fault' = [fault EXCEPT ![c] = TRUE]
  <2>1. CASE Receive(c)
    BY <2>1 DEF Receive, ExchangeError, Report, Set
  <2>2. CASE ReceiveTimeout(c)
    BY <2>2 DEF ReceiveTimeout, ExchangeError, Report, Set
  <2>3. QED
    BY <2>1, <2>2
<1>4. \/ what = "exchange_time" /\ new = "pausing"
      \/ what = "exchange_error" /\ new = "erred"
  BY <1>3
<1>5. LogTypes' /\ Tally' /\ Spawned'
  BY <1>1, <1>2, <1>3, <1>4, ReportTally DEF Reporting
<1>6. m \in Seq(Mails)
  <2>1. mail[c] \in Seq(Mails)
    BY <1>1 DEF NetTypes
  <2>2. mail[c] # <<>> => Tail(mail[c]) \in Seq(Mails)
    BY <2>1, HeadTailProperties
  <2>3. <<>> \in Seq(Mails)
    BY EmptySeq
  <2>4. QED
    BY <1>3, <2>2, <2>3
<1>7. mail' \in [Conns -> Seq(Mails)] /\ mail'[c] = m /\ \A x \in Conns \ {c} : mail'[x] = mail[x]
  BY <1>1, <1>3, <1>6 DEF NetTypes
<1>8. fault' \in [Conns -> BOOLEAN] /\ \A x \in Conns \ {c} : fault'[x] = fault[x]
  BY <1>1, <1>3 DEF NetTypes
<1>9. ErlangTypeOK'
  BY <1>1, <1>2, <1>5, <1>7, <1>8 DEF ErlangTypeOK, LogTypes, ConStates, LogCounts, Mails
<1>10. con'[c] = new /\ \A x \in Conns \ {c} : con'[x] = con[x]
  BY <1>1, <1>3 DEF LogTypes
<1>11. Orderly(c)'
  <2>1. OneRequest("waiting", mail[c], up[c], down[c], link[c]) /\ up[c] + down[c] <= MsgLen
        /\ (~fault[c] => NoTrouble("waiting", mail[c], link[c], ClientGone(c)))
    BY <1>1, <1>2 DEF Orderly, OneRequest
  <2>2. CASE new = "pausing"
    <3>1. m = Tail(mail[c]) /\ fault' = fault /\ mail[c] # <<>> /\ Head(mail[c]) = "whole"
      BY <1>3, <2>2
    <3>2. OneRequest(con'[c], mail'[c], up'[c], down'[c], link'[c])
      BY <1>2, <1>7, <1>10, <2>1, <2>2, <3>1 DEF OneRequest
    <3>3. ASSUME ~fault'[c] PROVE NoTrouble(con'[c], mail'[c], link'[c], ClientGone(c)')
      <4>1. mail[c] = <<"whole">> /\ (~over => link[c] # "down")
        BY <1>2, <2>1, <3>1, <3>3 DEF NoTrouble, ClientGone
      <4>2. Tail(<<"whole">>) = <<>>
        OBVIOUS
      <4>3. m = <<>>
        BY <3>1, <4>1, <4>2
      <4>4. QED
        BY <1>2, <1>7, <1>10, <2>2, <4>1, <4>3 DEF NoTrouble
    <3>4. QED
      BY <3>2, <3>3 DEF Orderly
  <2>3. CASE new = "erred"
    <3>1. OneRequest(con'[c], mail'[c], up'[c], down'[c], link'[c])
      BY <1>2, <1>10, <2>1, <2>3 DEF OneRequest
    <3>2. fault'[c]
      <4>1. CASE fault' = [fault EXCEPT ![c] = TRUE]
        BY <1>1, <4>1 DEF NetTypes
      <4>2. CASE mail[c] # <<>> /\ Head(mail[c]) # "whole" /\ fault' = fault
        <5>1. Head(<<"whole">>) = "whole"
          OBVIOUS
        <5>2. fault[c]
          BY <2>1, <4>2, <5>1 DEF NoTrouble
        <5>3. QED
          BY <4>2, <5>2
      <4>3. QED
        BY <1>3, <2>3, <4>1, <4>2
    <3>3. QED
      BY <3>1, <3>2 DEF Orderly
  <2>4. QED
    BY <1>4, <2>2, <2>3
<1>12. \A x \in Conns : Orderly(x)'
  BY <1>1, <1>2, <1>7, <1>8, <1>10, <1>11, OrderlyMoves
<1>13. QED
  BY <1>5, <1>9, <1>12 DEF ErlangInv

\* The logger takes a report, or ends the client.
LEMMA LoggerStep ==
  ASSUME ErlangInv, gather_log
  PROVE  ErlangInv'
<1>1. /\ ErlangTypeOK /\ LogTypes /\ NetTypes /\ ServerTypes /\ ClientTypes
      /\ Spawned /\ Tally /\ \A x \in Conns : Orderly(x)
  BY ErlangTypes DEF ErlangInv
<1>2. UNCHANGED <<running, con, sent, mail, acc, handler, owner, perm, link, up, down, fault>>
  BY DEF gather_log, server, network
<1>3. Spawned'
  BY <1>1, <1>2 DEF Spawned
<1>4. CASE over' = TRUE /\ UNCHANGED <<log, stats>>
  <2>1. over' \in BOOLEAN
    BY <1>4
  <2>2. ErlangTypeOK'
    BY <1>1, <1>2, <1>4, <2>1 DEF ErlangTypeOK
  <2>3. Tally'
    BY <1>1, <1>2, <1>4 DEF Tally, Heard
  <2>4. ASSUME NEW x \in Conns PROVE Orderly(x)'
    <3>1. Orderly(x) /\ ClientGone(x)'
      BY <1>1, <1>4 DEF ClientGone
    <3>2. QED
      BY <1>2, <3>1 DEF Orderly, NoTrouble
  <2>5. QED
    BY <1>3, <2>2, <2>3, <2>4 DEF ErlangInv
<1>5. ASSUME NEW c \in Conns, log[c] # <<>>, stats' = Counted(Head(log[c])),
             log' = [log EXCEPT ![c] = Tail(log[c])], over' = over
      PROVE  ErlangInv'
  <2>1. PICK l \in Seq(Reports), st \in ConStates : l = log[c] /\ st = con[c]
    BY <1>1 DEF LogTypes
  <2>2. ReportsAre(l, st) /\ l # <<>>
    BY <1>1, <1>5, <2>1 DEF Tally
  <2>3. Tail(l) \in Seq(Reports) /\ Head(l) \in Reports /\ ReportsAre(Tail(l), st)
    BY <2>2, ReportTaken
  <2>4. /\ log' \in [Conns -> Seq(Reports)] /\ log'[c] = Tail(l)
        /\ con'[c] = st /\ \A x \in Conns \ {c} : con'[x] = con[x] /\ log'[x] = log[x]
    BY <1>1, <1>2, <1>5, <2>1, <2>3 DEF LogTypes
  <2>5. PICK h : h = Head(l)
    OBVIOUS
  <2>6. PICK a \in Nat, b \in Nat, e \in Nat, g \in Nat :
          a = stats.chld /\ b = stats.conErr /\ e = stats.exchErr /\ g = stats.msgs
    BY <1>1 DEF LogTypes, LogCounts
  <2>7. PICK p \in Nat, q \in Nat, r \in Nat, s \in Nat :
          p = One(h = "connect_error") /\ q = One(h = "exchange_error") /\ r = One(h = "connect_time")
          /\ s = One(h = "exchange_time")
    BY DEF One
  <2>8. stats' = [chld |-> a + (p + r), conErr |-> b + p, exchErr |-> e + q, msgs |-> g + s]
    <3>1. stats' = Counted(h)
      BY <1>5, <2>1, <2>5
    <3>2. /\ (IF h \in {"connect_time", "connect_error"} THEN 1 ELSE 0) = p + r
          /\ (IF h \in {"connect_error"} THEN 1 ELSE 0) = p
          /\ (IF h \in {"exchange_error"} THEN 1 ELSE 0) = q
          /\ (IF h \in {"exchange_time"} THEN 1 ELSE 0) = s
      BY <2>7 DEF One
    <3>3. QED
      BY <2>6, <3>1, <3>2 DEF Counted
  <2>9. /\ stats'.chld = a + (p + r) /\ stats'.conErr = b + p /\ stats'.exchErr = e + q
    BY <2>8
  <2>10. LogTypes'
    <3>1. a + (p + r) \in Nat /\ b + p \in Nat /\ e + q \in Nat /\ g + s \in Nat
      OBVIOUS
    <3>2. stats' \in LogCounts
      BY <2>8, <3>1 DEF LogCounts
    <3>3. QED
      BY <1>1, <1>2, <2>4, <3>2 DEF LogTypes
  <2>11. PICK i \in Nat, j \in Nat, k \in Nat :
           /\ i = Took(st, l, {"refused"}, "connect_error")
           /\ j = Took(st, l, {"erred"}, "exchange_error")
           /\ k = Took(st, l, Connected, "connect_time")
    BY DEF Took, One
  <2>12. /\ Took(st, Tail(l), {"refused"}, "connect_error") = i + p
         /\ Took(st, Tail(l), {"erred"}, "exchange_error") = j + q
         /\ Took(st, Tail(l), Connected, "connect_time") = k + r
    BY <2>2, <2>5, <2>7, <2>11, TakenIsHeard
  <2>13. /\ b + p = b - i + (i + p) /\ e + q = e - j + (j + q)
         /\ (a + (p + r)) - (b + p) = a - b - k + (k + r)
    OBVIOUS
  <2>14. /\ stats'.conErr = stats.conErr - Took(con[c], log[c], {"refused"}, "connect_error")
                              + Took(con'[c], log'[c], {"refused"}, "connect_error")
         /\ stats'.exchErr = stats.exchErr - Took(con[c], log[c], {"erred"}, "exchange_error")
                               + Took(con'[c], log'[c], {"erred"}, "exchange_error")
         /\ stats'.chld - stats'.conErr
              = stats.chld - stats.conErr - Took(con[c], log[c], Connected, "connect_time")
                  + Took(con'[c], log'[c], Connected, "connect_time")
    BY <2>1, <2>4, <2>6, <2>9, <2>11, <2>12, <2>13
  <2>15. ReportsAre(log'[c], con'[c])
    BY <2>3, <2>4
  <2>16. Tally'
    BY <1>1, <2>4, <2>10, <2>14, <2>15, TallyMoves
  <2>17. ErlangTypeOK'
    BY <1>1, <1>2, <1>5, <2>10 DEF ErlangTypeOK, LogTypes, ConStates, LogCounts
  <2>18. \A x \in Conns : Orderly(x)'
    BY <1>1, <1>2, <1>5, OrderlyStays
  <2>19. QED
    BY <1>3, <2>16, <2>17, <2>18 DEF ErlangInv
<1>6. QED
  BY <1>4, <1>5 DEF gather_log, Set

\* What the server and the network do is nothing to the logger.
LEMMA LogStays ==
  ASSUME LogTypes, Tally, Spawned, UNCHANGED <<running, con, log, stats>>
  PROVE  LogTypes' /\ Tally' /\ Spawned'
BY DEF LogTypes, Tally, Heard, Spawned

\* The acceptor and the handlers that only change places.
LEMMA AcceptorStep ==
  ASSUME ErlangInv, controlling_process \/ SendPerm \/ \E c \in Conns : bind(c)
  PROVE  ErlangInv'
<1>1. /\ ErlangTypeOK /\ LogTypes /\ NetTypes /\ ServerTypes /\ ClientTypes
      /\ Spawned /\ Tally /\ \A x \in Conns : Orderly(x)
  BY ErlangTypes DEF ErlangInv
<1>2. UNCHANGED <<running, con, sent, mail, log, stats, over, link, up, down, fault>>
  BY DEF controlling_process, SendPerm, bind, client, network
<1>3. ServerTypes'
  <2>1. CASE controlling_process
    <3>1. acc' = [acc EXCEPT !.pc = "perm"] /\ acc' \in Acceptor /\ UNCHANGED <<handler, perm>>
      BY <1>1, <2>1 DEF controlling_process, ServerTypes, Acceptor
    <3>2. owner' \in [Conns -> {"acceptor", "handler"}]
      <4>1. owner' = owner \/ owner' = [owner EXCEPT ![acc.sock] = "handler"]
        BY <2>1 DEF controlling_process, Set
      <4>2. QED
        BY <1>1, <4>1 DEF ServerTypes
    <3>3. QED
      BY <1>1, <3>1, <3>2 DEF ServerTypes
  <2>2. CASE SendPerm
    <3>1. acc' \in Acceptor /\ UNCHANGED <<handler, owner>>
      BY <2>2 DEF SendPerm, Acceptor
    <3>2. perm' \in [Conns -> BOOLEAN]
      <4>1. perm' = [perm EXCEPT ![acc.sock] = TRUE]
        BY <2>2 DEF SendPerm, Set
      <4>2. QED
        BY <1>1, <4>1 DEF ServerTypes
    <3>3. QED
      BY <1>1, <3>1, <3>2 DEF ServerTypes
  <2>3. CASE \E c \in Conns : bind(c)
    <3>1. PICK c \in Conns : handler' = [handler EXCEPT ![c] = "handle"] /\ UNCHANGED <<acc, owner, perm>>
      BY <2>3 DEF bind, Set
    <3>2. handler' \in [Conns -> Handlers]
      BY <1>1, <3>1 DEF ServerTypes, Handlers
    <3>3. QED
      BY <1>1, <3>1, <3>2 DEF ServerTypes
  <2>4. QED
    BY <2>1, <2>2, <2>3
<1>4. ErlangTypeOK'
  BY <1>1, <1>2, <1>3 DEF ErlangTypeOK, ServerTypes, Handlers, Acceptor
<1>5. Tally' /\ Spawned'
  BY <1>1, <1>2, LogStays
<1>6. \A x \in Conns : Orderly(x)'
  BY <1>1, <1>2, OrderlyStays
<1>7. QED
  BY <1>4, <1>5, <1>6 DEF ErlangInv

\* A connection is accepted.
LEMMA AcceptedStep ==
  ASSUME ErlangInv, NEW c \in Conns, tcp_acceptor(c)
  PROVE  ErlangInv'
<1>1. /\ ErlangTypeOK /\ LogTypes /\ NetTypes /\ ServerTypes /\ ClientTypes
      /\ Spawned /\ Tally /\ \A x \in Conns : Orderly(x)
  BY ErlangTypes DEF ErlangInv
<1>2. /\ link[c] = "queued" /\ acc' = [pc |-> "control", sock |-> c]
      /\ link' = [link EXCEPT ![c] = "up"] /\ handler' = [handler EXCEPT ![c] = "bind"]
      /\ UNCHANGED <<running, con, sent, mail, log, stats, over, owner, perm, up, down, fault>>
  BY DEF tcp_acceptor, client, Set
<1>3. /\ link' \in [Conns -> Links] /\ link'[c] = "up"
      /\ \A x \in Conns \ {c} : link'[x] = link[x]
  BY <1>1, <1>2 DEF NetTypes, Links
<1>4. handler' \in [Conns -> Handlers] /\ acc' \in Acceptor
  BY <1>1, <1>2 DEF ServerTypes, Handlers, Acceptor
<1>5. ErlangTypeOK'
  BY <1>1, <1>2, <1>3, <1>4 DEF ErlangTypeOK, Links, Handlers, Acceptor
<1>6. Tally' /\ Spawned'
  BY <1>1, <1>2, LogStays
<1>7. Orderly(c)'
  <2>1. Orderly(c) /\ (ClientGone(c)' <=> ClientGone(c))
    BY <1>1, <1>2 DEF ClientGone
  <2>2. QED
    BY <1>2, <1>3, <2>1 DEF Orderly, OneRequest, NoTrouble, Rest
<1>8. \A x \in Conns : Orderly(x)'
  BY <1>1, <1>2, <1>3, <1>7, OrderlyMoves
<1>9. QED
  BY <1>5, <1>6, <1>8 DEF ErlangInv

\* The listening socket fails, and the server with it.
LEMMA AcceptFailsStep ==
  ASSUME ErlangInv, AcceptFails
  PROVE  ErlangInv'
<1>1. /\ ErlangTypeOK /\ LogTypes /\ NetTypes /\ ServerTypes /\ ClientTypes
      /\ Spawned /\ Tally /\ \A x \in Conns : Orderly(x)
  BY ErlangTypes DEF ErlangInv
<1>2. /\ acc' = [pc |-> "ended", sock |-> NoSock]
      /\ handler' = [c \in Conns |-> IF handler[c] = "none" THEN "none" ELSE "ended"]
      /\ link' = [c \in Conns |-> IF link[c] = "none" THEN "none" ELSE "down"]
      /\ up' = [c \in Conns |-> 0] /\ fault' = [c \in Conns |-> TRUE]
      /\ UNCHANGED <<running, con, sent, mail, log, stats, over, owner, perm, down>>
  BY DEF AcceptFails, client
<1>3. 0 \in 0..MsgLen /\ MsgLen \in Nat
  BY ErlangAssumption
<1>4. link' \in [Conns -> Links] /\ handler' \in [Conns -> Handlers] /\ acc' \in Acceptor
  BY <1>2 DEF Links, Handlers, Acceptor
<1>5. up' \in [Conns -> 0..MsgLen] /\ fault' \in [Conns -> BOOLEAN]
  BY <1>2, <1>3
<1>6. ErlangTypeOK'
  BY <1>1, <1>2, <1>4, <1>5 DEF ErlangTypeOK, Links, Handlers, Acceptor
<1>7. Tally' /\ Spawned'
  BY <1>1, <1>2, LogStays
<1>8. ASSUME NEW x \in Conns PROVE Orderly(x)'
  <2>1. /\ fault'[x] /\ up'[x] = 0 /\ UNCHANGED <<con[x], mail[x], down[x]>>
        /\ link[x] = "none" => link'[x] = "none"
    BY <1>2
  <2>2. OneRequest(con[x], mail[x], up[x], down[x], link[x]) /\ down[x] \in 0..MsgLen
    BY <1>1 DEF Orderly, NetTypes
  <2>3. up'[x] + down'[x] <= MsgLen
    BY <1>3, <2>1, <2>2
  <2>4. OneRequest(con'[x], mail'[x], up'[x], down'[x], link'[x])
    BY <2>1, <2>2, <2>3 DEF OneRequest, Rest
  <2>5. QED
    BY <2>1, <2>4 DEF Orderly
<1>9. QED
  BY <1>6, <1>7, <1>8 DEF ErlangInv

\* A handler ends: at the end of its connection, or, which is a fault, by its
\* timeout.
LEMMA HandlerEnds ==
  ASSUME ErlangInv, NEW c \in Conns, bind_Timeout(c) \/ handle_Other(c) \/ handle_Timeout(c)
  PROVE  ErlangInv'
<1>1. /\ ErlangTypeOK /\ LogTypes /\ NetTypes /\ ServerTypes /\ ClientTypes
      /\ Spawned /\ Tally /\ \A x \in Conns : Orderly(x)
  BY ErlangTypes DEF ErlangInv
<1>2. /\ handler' = [handler EXCEPT ![c] = "ended"]
      /\ link' = link \/ (link[c] = "up" /\ link' = [link EXCEPT ![c] = "down"])
      /\ UNCHANGED <<running, con, sent, mail, log, stats, over, acc, owner, perm, up, down>>
  <2>1. CASE bind_Timeout(c)
    BY <2>1 DEF bind_Timeout, Close, client, network, Set
  <2>2. CASE handle_Other(c)
    BY <2>2 DEF handle_Other, Close, client, network, Set
  <2>3. CASE handle_Timeout(c)
    BY <2>3 DEF handle_Timeout, Close, client, network, Set
  <2>4. QED
    BY <2>1, <2>2, <2>3
<1>3. \/ fault' = [fault EXCEPT ![c] = TRUE]
      \/ fault' = fault /\ (ClientGone(c) \/ link' = link)
  <2>1. CASE bind_Timeout(c) \/ handle_Timeout(c)
    BY <2>1 DEF bind_Timeout, handle_Timeout, Set
  <2>2. CASE handle_Other(c)
    BY <2>2 DEF handle_Other, Close
  <2>3. QED
    BY <2>1, <2>2
<1>4. /\ link' \in [Conns -> Links] /\ \A x \in Conns \ {c} : link'[x] = link[x]
      /\ link'[c] = link[c] \/ (link[c] = "up" /\ link'[c] = "down")
  BY <1>1, <1>2 DEF NetTypes, Links
<1>5. handler' \in [Conns -> Handlers]
  BY <1>1, <1>2 DEF ServerTypes, Handlers
<1>6. fault' \in [Conns -> BOOLEAN] /\ \A x \in Conns \ {c} : fault'[x] = fault[x]
  BY <1>1, <1>3 DEF NetTypes
<1>7. ErlangTypeOK'
  BY <1>1, <1>2, <1>4, <1>5, <1>6 DEF ErlangTypeOK, Links, Handlers
<1>8. Tally' /\ Spawned'
  BY <1>1, <1>2, LogStays
<1>9. Orderly(c)'
  <2>1. Orderly(c) /\ (ClientGone(c)' <=> ClientGone(c))
    BY <1>1, <1>2 DEF ClientGone
  <2>2. OneRequest(con'[c], mail'[c], up'[c], down'[c], link'[c])
    BY <1>2, <1>4, <2>1 DEF Orderly, OneRequest, Rest
  <2>3. ASSUME ~fault'[c] PROVE NoTrouble(con'[c], mail'[c], link'[c], ClientGone(c)')
    <3>1. fault' = fault /\ (ClientGone(c) \/ link' = link)
      BY <1>1, <1>3, <2>3 DEF NetTypes
    <3>2. NoTrouble(con[c], mail[c], link[c], ClientGone(c))
      BY <2>1, <2>3, <3>1 DEF Orderly
    <3>3. QED
      BY <1>2, <2>1, <3>1, <3>2 DEF NoTrouble
  <2>4. QED
    BY <2>2, <2>3 DEF Orderly
<1>10. \A x \in Conns : Orderly(x)'
  BY <1>1, <1>2, <1>4, <1>6, <1>9, OrderlyMoves
<1>11. QED
  BY <1>7, <1>8, <1>10 DEF ErlangInv

\* A piece of the request is sent back.
LEMMA AnswerStep ==
  ASSUME ErlangInv, NEW c \in Conns, handle_Data(c)
  PROVE  ErlangInv'
<1>1. /\ ErlangTypeOK /\ LogTypes /\ NetTypes /\ ServerTypes /\ ClientTypes
      /\ Spawned /\ Tally /\ \A x \in Conns : Orderly(x)
  BY ErlangTypes DEF ErlangInv
<1>2. PICK n \in 1..up[c] : up' = [up EXCEPT ![c] = up[c] - n] /\ down' = [down EXCEPT ![c] = down[c] + n]
  BY DEF handle_Data, Set
<1>3. UNCHANGED <<running, con, sent, mail, log, stats, over, acc, handler, owner, perm, link, fault>>
  BY DEF handle_Data, client, server
<1>4. PICK u \in Nat, d \in Nat : u = up[c] /\ d = down[c]
  BY <1>1, ErlangAssumption DEF NetTypes
<1>5. OneRequest(con[c], mail[c], u, d, link[c]) /\ u + d <= MsgLen /\ MsgLen \in Nat
  BY <1>1, <1>4, ErlangAssumption DEF Orderly, OneRequest
<1>6. n \in Nat /\ 1 <= n /\ n <= u
  BY <1>4
<1>7. u - n \in 0..MsgLen /\ d + n \in 0..MsgLen /\ (u - n) + (d + n) <= MsgLen /\ u # 0
  BY <1>5, <1>6
<1>8. /\ up' \in [Conns -> 0..MsgLen] /\ down' \in [Conns -> 0..MsgLen]
      /\ up'[c] = u - n /\ down'[c] = d + n
      /\ \A x \in Conns \ {c} : up'[x] = up[x] /\ down'[x] = down[x]
  BY <1>1, <1>2, <1>4, <1>7 DEF NetTypes
<1>9. ErlangTypeOK'
  BY <1>1, <1>3, <1>8 DEF ErlangTypeOK
<1>10. Tally' /\ Spawned'
  BY <1>1, <1>3, LogStays
<1>11. Orderly(c)'
  <2>1. OneRequest(con'[c], mail'[c], up'[c], down'[c], link'[c])
    BY <1>3, <1>5, <1>7, <1>8 DEF OneRequest
  <2>2. Orderly(c) /\ (ClientGone(c)' <=> ClientGone(c))
    BY <1>1, <1>3 DEF ClientGone
  <2>3. QED
    BY <1>3, <2>1, <2>2 DEF Orderly, NoTrouble
<1>12. \A x \in Conns : Orderly(x)'
  BY <1>1, <1>3, <1>8, <1>11, OrderlyMoves
<1>13. QED
  BY <1>9, <1>10, <1>12 DEF ErlangInv

\* The network brings a piece of the reply.
LEMMA DeliverStep ==
  ASSUME ErlangInv, NEW c \in Conns, Deliver(c)
  PROVE  ErlangInv'
<1>1. /\ ErlangTypeOK /\ LogTypes /\ NetTypes /\ ServerTypes /\ ClientTypes
      /\ Spawned /\ Tally /\ \A x \in Conns : Orderly(x)
  BY ErlangTypes DEF ErlangInv
<1>2. PICK n \in 1..down[c] :
        /\ down' = [down EXCEPT ![c] = down[c] - n]
        /\ mail' = [mail EXCEPT ![c] = Append(mail[c], IF n = MsgLen THEN "whole" ELSE "part")]
        /\ fault' = [fault EXCEPT ![c] = fault[c] \/ n < MsgLen]
  BY DEF Deliver, Set
<1>3. /\ ~over /\ con[c] \notin {"refused", "erred"}
      /\ UNCHANGED <<running, con, sent, log, stats, over, acc, handler, owner, perm, link, up>>
  BY DEF Deliver, server, ClientGone
<1>4. PICK m \in Seq(Mails), u \in Nat, d \in Nat, x \in Mails, st \in ConStates \ {"refused", "erred"} :
        /\ m = mail[c] /\ u = up[c] /\ d = down[c] /\ st = con[c]
        /\ x = IF n = MsgLen THEN "whole" ELSE "part"
  <2>1. (IF n = MsgLen THEN "whole" ELSE "part") \in Mails
    BY DEF Mails
  <2>2. up[c] \in Nat /\ down[c] \in Nat /\ mail[c] \in Seq(Mails)
    BY <1>1, ErlangAssumption DEF NetTypes
  <2>3. con[c] \in ConStates \ {"refused", "erred"}
    BY <1>1, <1>3 DEF LogTypes
  <2>4. QED
    BY <2>1, <2>2, <2>3
<1>5. OneRequest(st, m, u, d, link[c]) /\ n \in 1..d /\ (x = "whole" => n = MsgLen)
      /\ d \in 0..MsgLen /\ MsgLen \in Nat
  BY <1>1, <1>4, ErlangAssumption DEF Orderly, NetTypes
<1>6. PICK gone : gone = ClientGone(c)
  OBVIOUS
<1>7. /\ OneRequest(st, Append(m, x), u, d - n, link[c])
      /\ NoTrouble(st, m, link[c], gone) /\ x = "whole" => NoTrouble(st, Append(m, x), link[c], gone)
  BY <1>5, PieceComes
<1>8. Append(m, x) \in Seq(Mails)
  BY SmallMail
<1>9. d - n \in 0..MsgLen
  BY <1>5
<1>10. mail' \in [Conns -> Seq(Mails)] /\ mail'[c] = Append(m, x) /\ \A y \in Conns \ {c} : mail'[y] = mail[y]
  BY <1>1, <1>2, <1>4, <1>8 DEF NetTypes
<1>11. down' \in [Conns -> 0..MsgLen] /\ down'[c] = d - n /\ \A y \in Conns \ {c} : down'[y] = down[y]
  BY <1>1, <1>2, <1>4, <1>9 DEF NetTypes
<1>12. fault' \in [Conns -> BOOLEAN] /\ \A y \in Conns \ {c} : fault'[y] = fault[y]
  <2>1. (fault[c] \/ n < MsgLen) \in BOOLEAN
    OBVIOUS
  <2>2. QED
    BY <1>1, <1>2, <2>1 DEF NetTypes
<1>13. ~fault'[c] => ~fault[c] /\ x = "whole"
  <2>1. fault'[c] = (fault[c] \/ n < MsgLen)
    BY <1>1, <1>2 DEF NetTypes
  <2>2. ~(n < MsgLen) => n = MsgLen
    BY <1>5
  <2>3. QED
    BY <1>4, <2>1, <2>2
<1>14. ErlangTypeOK'
  BY <1>1, <1>3, <1>10, <1>11, <1>12 DEF ErlangTypeOK, Mails
<1>15. Tally' /\ Spawned'
  BY <1>1, <1>3, LogStays
<1>16. Orderly(c)'
  <2>1. ClientGone(c)' <=> gone
    BY <1>3, <1>6 DEF ClientGone
  <2>2. ~fault[c] => NoTrouble(st, m, link[c], gone)
    BY <1>1, <1>4, <1>6 DEF Orderly
  <2>3. ~fault'[c] => NoTrouble(con'[c], mail'[c], link'[c], gone)
    BY <1>3, <1>4, <1>7, <1>10, <1>13, <2>2
  <2>4. ~fault'[c] => NoTrouble(con'[c], mail'[c], link'[c], ClientGone(c)')
    BY <2>1, <2>3 DEF NoTrouble
  <2>5. OneRequest(con'[c], mail'[c], up'[c], down'[c], link'[c])
    BY <1>3, <1>4, <1>7, <1>10, <1>11
  <2>6. QED
    BY <2>4, <2>5 DEF Orderly
<1>17. \A y \in Conns : Orderly(y)'
  BY <1>1, <1>3, <1>10, <1>11, <1>12, <1>16, OrderlyMoves
<1>18. QED
  BY <1>14, <1>15, <1>17 DEF ErlangInv

\* The network brings the end of the connection, or fails.
LEMMA NetworkStep ==
  ASSUME ErlangInv, NEW c \in Conns, DeliverClosed(c) \/ Fails(c)
  PROVE  ErlangInv'
<1>1. /\ ErlangTypeOK /\ LogTypes /\ NetTypes /\ ServerTypes /\ ClientTypes
      /\ Spawned /\ Tally /\ \A x \in Conns : Orderly(x)
  BY ErlangTypes DEF ErlangInv
<1>2. UNCHANGED <<running, con, sent, log, stats, over, acc, handler, owner, perm>>
  BY DEF DeliverClosed, Fails, client, server
<1>3. Tally' /\ Spawned'
  BY <1>1, <1>2, LogStays
<1>4. ClientGone(c)' <=> ClientGone(c)
  BY <1>2 DEF ClientGone
<1>5. CASE DeliverClosed(c)
  <2>1. /\ ~ClientGone(c) /\ link[c] = "down" /\ down[c] = 0
        /\ link' = [link EXCEPT ![c] = "none"]
        /\ mail' = [mail EXCEPT ![c] = Append(mail[c], "closed")]
        /\ UNCHANGED <<up, down, fault>>
    BY <1>5 DEF DeliverClosed, Set
  <2>2. PICK m \in Seq(Mails), u \in Nat, st \in ConStates \ {"refused", "erred"} :
          m = mail[c] /\ u = up[c] /\ st = con[c]
    <3>1. con[c] \in ConStates \ {"refused", "erred"}
      BY <1>1, <2>1 DEF LogTypes, ClientGone
    <3>2. up[c] \in Nat /\ mail[c] \in Seq(Mails)
      BY <1>1, ErlangAssumption DEF NetTypes
    <3>3. QED
      BY <3>1, <3>2
  <2>3. OneRequest(st, m, u, 0, "down")
    BY <1>1, <2>1, <2>2 DEF Orderly
  <2>4. OneRequest(st, Append(m, "closed"), u, 0, "none")
    BY <2>3, EndComes
  <2>5. Append(m, "closed") \in Seq(Mails)
    <3>1. "closed" \in Mails
      BY DEF Mails
    <3>2. QED
      BY <3>1, SmallMail
  <2>6. /\ mail' \in [Conns -> Seq(Mails)] /\ mail'[c] = Append(m, "closed")
        /\ link' \in [Conns -> Links] /\ link'[c] = "none"
        /\ \A x \in Conns \ {c} : mail'[x] = mail[x] /\ link'[x] = link[x]
    BY <1>1, <2>1, <2>2, <2>5 DEF NetTypes, Links
  <2>7. ErlangTypeOK'
    BY <1>1, <1>2, <2>1, <2>6 DEF ErlangTypeOK, Mails, Links
  <2>8. fault'[c]
    BY <1>1, <2>1 DEF Orderly, NoTrouble
  <2>9. OneRequest(con'[c], mail'[c], up'[c], down'[c], link'[c])
    BY <1>2, <2>1, <2>2, <2>4, <2>6
  <2>10. Orderly(c)'
    BY <2>8, <2>9 DEF Orderly
  <2>11. \A x \in Conns : Orderly(x)'
    BY <1>1, <1>2, <2>1, <2>6, <2>10, OrderlyMoves
  <2>12. QED
    BY <1>3, <2>7, <2>11 DEF ErlangInv
<1>6. CASE Fails(c)
  <2>1. /\ link[c] \in {"queued", "up"} /\ link' = [link EXCEPT ![c] = "down"]
        /\ up' = [up EXCEPT ![c] = 0] /\ down' = [down EXCEPT ![c] = 0]
        /\ fault' = [fault EXCEPT ![c] = TRUE] /\ mail' = mail
    BY <1>6 DEF Fails, Set, client
  <2>2. 0 \in 0..MsgLen /\ 0 + 0 <= MsgLen
    BY ErlangAssumption
  <2>3. /\ link' \in [Conns -> Links] /\ link'[c] = "down"
        /\ \A x \in Conns \ {c} : link'[x] = link[x]
    BY <1>1, <2>1 DEF NetTypes, Links
  <2>4. /\ up' \in [Conns -> 0..MsgLen] /\ up'[c] = 0 /\ down' \in [Conns -> 0..MsgLen] /\ down'[c] = 0
        /\ \A x \in Conns \ {c} : up'[x] = up[x] /\ down'[x] = down[x]
    BY <1>1, <2>1, <2>2 DEF NetTypes
  <2>5. /\ fault' \in [Conns -> BOOLEAN] /\ fault'[c]
        /\ \A x \in Conns \ {c} : fault'[x] = fault[x]
    BY <1>1, <2>1 DEF NetTypes
  <2>6. ErlangTypeOK'
    BY <1>1, <1>2, <2>1, <2>3, <2>4, <2>5 DEF ErlangTypeOK, Links
  <2>7. OneRequest(con'[c], mail'[c], up'[c], down'[c], link'[c])
    BY <1>1, <1>2, <2>1, <2>2, <2>3, <2>4 DEF Orderly, OneRequest, Rest
  <2>8. Orderly(c)'
    BY <2>5, <2>7 DEF Orderly
  <2>9. \A x \in Conns : Orderly(x)'
    BY <1>1, <1>2, <2>1, <2>3, <2>4, <2>5, <2>8, OrderlyMoves
  <2>10. QED
    BY <1>3, <2>6, <2>9 DEF ErlangInv
<1>7. QED
  BY <1>5, <1>6

\* Every step of the client, the server and the network keeps the invariant.
LEMMA ErlangStep ==
  ErlangInv /\ [ErlangNext]_ErlangVars => ErlangInv'
<1> SUFFICES ASSUME ErlangInv, [ErlangNext]_ErlangVars
             PROVE  ErlangInv'
  OBVIOUS
<1>1. CASE starter \/ gather_log
  BY <1>1, StarterStep, LoggerStep
<1>2. CASE controlling_process \/ SendPerm \/ AcceptFails
  BY <1>2, AcceptorStep, AcceptFailsStep
<1>3. ASSUME NEW c \in Conns,
             \/ connector(c) \/ Send(c) \/ Receive(c) \/ ReceiveTimeout(c)
             \/ tcp_acceptor(c) \/ bind(c) \/ bind_Timeout(c)
             \/ handle_Data(c) \/ handle_Other(c) \/ handle_Timeout(c)
             \/ Deliver(c) \/ DeliverClosed(c) \/ Fails(c)
      PROVE  ErlangInv'
  <2>1. CASE connector(c) \/ Send(c) \/ Receive(c) \/ ReceiveTimeout(c)
    BY <2>1, ConnectorStep, RequestStep, ReplyStep
  <2>2. CASE tcp_acceptor(c) \/ bind(c)
    BY <2>2, AcceptedStep, AcceptorStep
  <2>3. CASE bind_Timeout(c) \/ handle_Other(c) \/ handle_Timeout(c)
    BY <2>3, HandlerEnds
  <2>4. CASE handle_Data(c)
    BY <2>4, AnswerStep
  <2>5. CASE Deliver(c)
    BY <2>5, DeliverStep
  <2>6. CASE DeliverClosed(c) \/ Fails(c)
    BY <2>6, NetworkStep
  <2>7. QED
    BY <1>3, <2>1, <2>2, <2>3, <2>4, <2>5, <2>6
<1>4. CASE UNCHANGED ErlangVars
  <2>1. /\ ErlangTypeOK /\ LogTypes /\ Spawned /\ Tally /\ \A x \in Conns : Orderly(x)
    BY ErlangTypes DEF ErlangInv
  <2>2. UNCHANGED <<running, con, sent, mail, log, stats, over, acc, handler, owner, perm,
                    link, up, down, fault>>
    BY <1>4 DEF ErlangVars, client, server, network
  <2>3. ErlangTypeOK'
    BY <2>1, <2>2 DEF ErlangTypeOK
  <2>4. Tally' /\ Spawned'
    BY <2>1, <2>2, LogStays
  <2>5. \A x \in Conns : Orderly(x)'
    BY <2>1, <2>2, OrderlyStays
  <2>6. QED
    BY <2>3, <2>4, <2>5 DEF ErlangInv
<1>5. QED
  BY <1>1, <1>2, <1>3, <1>4 DEF ErlangNext

-----------------------------------------------------------------------------
(* The messages of the logger.                                             *)

\* Where in a list of reports the replies are.
Times(l) == {i \in 1..Len(l) : l[i] = "exchange_time"}

\* How many there are after one more report and after the first is taken.
LEMMA TimesChange ==
  ASSUME NEW S, NEW l \in Seq(S), NEW x \in S
  PROVE  /\ Cardinality(Times(l)) \in Nat
         /\ Cardinality(Times(Append(l, x)))
              = Cardinality(Times(l)) + One(x = "exchange_time")
         /\ l # <<>> => Cardinality(Times(l))
                          = Cardinality(Times(Tail(l))) + One(Head(l) = "exchange_time")
<1>1. Len(l) \in Nat
  BY LenProperties
<1>2. ASSUME NEW k \in Seq(S)
      PROVE  IsFiniteSet(Times(k)) /\ Cardinality(Times(k)) \in Nat
  <2>1. Len(k) \in Int /\ 1 \in Int
    BY LenProperties
  <2>2. Times(k) \in SUBSET (1..Len(k))
    BY DEF Times
  <2>3. IsFiniteSet(1..Len(k))
    BY <2>1, FS_Interval
  <2>4. IsFiniteSet(Times(k))
    BY <2>2, <2>3, FS_Subset
  <2>5. QED
    BY <2>4, FS_CardinalityType
<1>3. Cardinality(Times(Append(l, x))) = Cardinality(Times(l)) + One(x = "exchange_time")
  <2> DEFINE a == Append(l, x)
  <2>1. /\ Len(a) = Len(l) + 1 /\ (\A i \in 1..Len(l) : a[i] = l[i]) /\ a[Len(l) + 1] = x
    BY AppendProperties
  <2> HIDE DEF a
  <2>2. \A i : i \in 1..(Len(l) + 1) <=> i \in 1..Len(l) \/ i = Len(l) + 1
    BY <1>1
  <2>3. Len(l) + 1 \notin Times(l)
    BY <1>1 DEF Times
  <2>4. CASE x = "exchange_time"
    <3>1. Times(a) = Times(l) \cup {Len(l) + 1}
      BY <2>1, <2>2, <2>4 DEF Times
    <3>2. Cardinality(Times(l) \cup {Len(l) + 1}) = Cardinality(Times(l)) + 1
      BY <1>2, <2>3, FS_AddElement
    <3>3. QED
      BY <2>4, <3>1, <3>2 DEF a, One
  <2>5. CASE x # "exchange_time"
    <3>1. Times(a) = Times(l)
      BY <2>1, <2>2, <2>5 DEF Times
    <3>2. Cardinality(Times(l)) + 0 = Cardinality(Times(l))
      BY <1>2
    <3>3. QED
      BY <2>5, <3>1, <3>2 DEF a, One
  <2>6. QED
    BY <2>4, <2>5
<1>4. ASSUME l # <<>>
      PROVE  Cardinality(Times(l)) = Cardinality(Times(Tail(l))) + One(Head(l) = "exchange_time")
  <2> DEFINE t == Tail(l)
             D == Times(l) \ {1}
             f == [i \in Times(t) |-> i + 1]
  <2>1. /\ t \in Seq(S) /\ Len(l) >= 1 /\ Len(t) = Len(l) - 1 /\ Head(l) = l[1]
        /\ \A i \in 1..(Len(l) - 1) : t[i] = l[i + 1]
    BY <1>4, HasChanges
  <2> HIDE DEF t
  <2>2. \A i \in Times(t) : i \in Nat /\ i + 1 \in D
    <3>1. SUFFICES ASSUME NEW i \in Times(t) PROVE i \in Nat /\ i + 1 \in D
      OBVIOUS
    <3>2. i \in 1..(Len(l) - 1) /\ t[i] = "exchange_time"
      BY <2>1 DEF Times
    <3>3. i \in Nat /\ i + 1 \in 1..Len(l) /\ i + 1 # 1
      BY <1>1, <3>2
    <3>4. QED
      BY <2>1, <3>2, <3>3 DEF Times
  <2>3. \A j \in D : \E i \in Times(t) : f[i] = j
    <3>1. SUFFICES ASSUME NEW j \in D PROVE \E i \in Times(t) : f[i] = j
      OBVIOUS
    <3>2. j \in 1..Len(l) /\ j # 1 /\ l[j] = "exchange_time"
      BY DEF Times
    <3>3. PICK i \in 1..(Len(l) - 1) : i + 1 = j
      <4>1. j - 1 \in 1..(Len(l) - 1) /\ (j - 1) + 1 = j
        BY <1>1, <3>2
      <4>2. QED
        BY <4>1
    <3>4. i \in Times(t)
      BY <2>1, <3>2, <3>3 DEF Times
    <3>5. QED
      BY <3>3, <3>4
  <2>4. f \in Bijection(Times(t), D)
    <3>1. f \in [Times(t) -> D]
      BY <2>2
    <3>2. \A i, j \in Times(t) : f[i] = f[j] => i = j
      BY <2>2
    <3> HIDE DEF f, D
    <3>3. QED
      BY <2>3, <3>1, <3>2, Fun_IsBij
  <2>5. Cardinality(D) = Cardinality(Times(t))
    <3>1. ExistsBijection(Times(t), D)
      BY <2>4, Fun_ExistsBij
    <3> HIDE DEF D
    <3>2. QED
      BY <1>2, <2>1, <3>1, FS_Bijection
  <2>6. 1 \in Times(l) <=> Head(l) = "exchange_time"
    BY <1>1, <2>1 DEF Times
  <2>7. Cardinality(D) = IF 1 \in Times(l) THEN Cardinality(Times(l)) - 1 ELSE Cardinality(Times(l))
    BY <1>2, FS_RemoveElement
  <2>8. PICK d \in Nat, n \in Nat : d = Cardinality(Times(t)) /\ n = Cardinality(Times(l))
    BY <1>2, <2>1
  <2>9. CASE Head(l) = "exchange_time"
    <3>1. d = n - 1
      BY <2>5, <2>6, <2>7, <2>8, <2>9
    <3>2. n = d + 1
      BY <3>1
    <3>3. QED
      BY <2>8, <2>9, <3>2 DEF t, One
  <2>10. CASE Head(l) # "exchange_time"
    <3>1. d = n
      BY <2>5, <2>6, <2>7, <2>8, <2>10
    <3>2. n = d + 0
      BY <3>1
    <3>3. QED
      BY <2>8, <2>10, <3>2 DEF t, One
  <2>11. QED
    BY <2>9, <2>10
<1>5. QED
  BY <1>2, <1>3, <1>4

\* The pairs <<c, k>> with k at most t[c]: their number is the sum of t.
Pairs(t) == {x \in Conns \X (1..MaxSent) : x[2] <= t[x[1]]}

\* The sum grows by one when one of its terms does.
LEMMA PairsGrow ==
  ASSUME NEW t \in [Conns -> Nat], NEW c \in Conns, t[c] + 1 <= MaxSent
  PROVE  Cardinality(Pairs([t EXCEPT ![c] = t[c] + 1])) = Cardinality(Pairs(t)) + 1
<1> DEFINE u == [t EXCEPT ![c] = t[c] + 1]
           p == <<c, t[c] + 1>>
<1>1. IsFiniteSet(Pairs(t))
  <2>1. MaxChildren \in Int /\ MaxSent \in Int /\ 1 \in Int
    BY ErlangAssumption
  <2>2. IsFiniteSet(Conns) /\ IsFiniteSet(1..MaxSent)
    BY <2>1, FS_Interval DEF Conns
  <2>3. IsFiniteSet(Conns \X (1..MaxSent))
    BY <2>2, FS_Product
  <2>4. Pairs(t) \in SUBSET (Conns \X (1..MaxSent))
    BY DEF Pairs
  <2>5. QED
    BY <2>3, <2>4, FS_Subset
<1>2. t[c] \in Nat /\ t[c] + 1 \in 1..MaxSent
  BY ErlangAssumption
<1>3. p \in Conns \X (1..MaxSent) /\ p[1] = c /\ p[2] = t[c] + 1
  BY <1>2
<1>4. u[c] = t[c] + 1 /\ \A x \in Conns : x # c => u[x] = t[x]
  OBVIOUS
<1> HIDE DEF u, p
<1>5. p \notin Pairs(t)
  <2>1. ~(t[c] + 1 <= t[c])
    BY <1>2
  <2>2. QED
    BY <1>3, <2>1 DEF Pairs
<1>6. ASSUME NEW x \in Conns \X (1..MaxSent)
      PROVE  x[2] <= u[x[1]] <=> x[2] <= t[x[1]] \/ x = p
  <2>1. x[1] \in Conns /\ x[2] \in 1..MaxSent /\ x = <<x[1], x[2]>>
    OBVIOUS
  <2>2. CASE x[1] # c
    BY <1>3, <1>4, <2>1, <2>2
  <2>3. CASE x[1] = c
    <3>1. PICK k \in Nat, n \in Nat : k = x[2] /\ n = t[c]
      BY <1>2, <2>1
    <3>2. k <= n + 1 <=> k <= n \/ k = n + 1
      OBVIOUS
    <3>3. x = p <=> k = n + 1
      BY <1>3, <2>1, <2>3, <3>1 DEF p
    <3>4. QED
      BY <1>4, <2>3, <3>1, <3>2, <3>3
  <2>4. QED
    BY <2>2, <2>3
<1>7. Pairs(u) = Pairs(t) \cup {p}
  BY <1>3, <1>6 DEF Pairs
<1>8. Cardinality(Pairs(t) \cup {p}) = Cardinality(Pairs(t)) + 1
  BY <1>1, <1>5, FS_AddElement
<1>9. QED
  BY <1>7, <1>8 DEF u

\* What a connector in state st that has sent n requests has told the logger, when
\* the reports in l are still on their way.
Told(st, n, l) == n - One(st \in {"waiting", "erred"}) - Cardinality(Times(l))
told           == [c \in Conns |-> Told(con[c], sent[c], log[c])]

\* The logger has counted the replies it has been told of, and no others.
MessagesAreTold == told \in [Conns -> Nat] /\ stats.msgs = Cardinality(Pairs(told))

\* The types the messages depend on.
LEMMA ToldTypes ==
  ASSUME ErlangTypeOK, NEW c \in Conns
  PROVE  sent[c] \in 0..MaxSent /\ sent[c] \in Nat /\ log[c] \in Seq(Reports)
         /\ MaxSent \in Nat
BY ErlangAssumption DEF ErlangTypeOK

\* What Told is after one more report, and after the first is taken.
LEMMA ToldChanges ==
  ASSUME NEW st, NEW n \in Nat, NEW l \in Seq(Reports), NEW x \in Reports
  PROVE  /\ Told(st, n, l) \in Int /\ Told(st, n, l) <= n
         /\ Told(st, n, Append(l, x)) = Told(st, n, l) - One(x = "exchange_time")
         /\ l # <<>> => Told(st, n, Tail(l)) = Told(st, n, l) + One(Head(l) = "exchange_time")
         /\ l # <<>> /\ Head(l) = "exchange_time" => Told(st, n, l) + 1 <= n
<1>1. /\ Cardinality(Times(l)) \in Nat
      /\ Cardinality(Times(Append(l, x))) = Cardinality(Times(l)) + One(x = "exchange_time")
      /\ l # <<>> => Cardinality(Times(l))
                       = Cardinality(Times(Tail(l))) + One(Head(l) = "exchange_time")
  BY TimesChange
<1>2. PICK a \in Nat, o \in Nat : a = Cardinality(Times(l)) /\ o = One(st \in {"waiting", "erred"})
  BY <1>1 DEF One
<1>3. Told(st, n, l) = n - o - a
  BY <1>2 DEF Told
<1>4. Told(st, n, Append(l, x)) = Told(st, n, l) - One(x = "exchange_time")
  <2>1. PICK e \in Nat : e = One(x = "exchange_time")
    BY DEF One
  <2>2. Told(st, n, Append(l, x)) = n - o - (a + e)
    BY <1>1, <1>2, <2>1 DEF Told
  <2>3. n - o - (a + e) = (n - o - a) - e
    OBVIOUS
  <2>4. QED
    BY <1>3, <2>1, <2>2, <2>3
<1>5. ASSUME l # <<>>
      PROVE  /\ Told(st, n, Tail(l)) = Told(st, n, l) + One(Head(l) = "exchange_time")
             /\ Head(l) = "exchange_time" => Told(st, n, l) + 1 <= n
  <2>1. Tail(l) \in Seq(Reports)
    BY <1>5, HeadTailProperties
  <2>2. PICK e \in Nat, b \in Nat : e = One(Head(l) = "exchange_time") /\ b = Cardinality(Times(Tail(l)))
    BY <2>1, TimesChange DEF One
  <2>3. a = b + e
    BY <1>1, <1>2, <1>5, <2>2
  <2>4. Told(st, n, Tail(l)) = n - o - b
    BY <1>2, <2>2 DEF Told
  <2>5. n - o - b = (n - o - a) + e
    BY <2>3
  <2>6. Head(l) = "exchange_time" => e = 1
    BY <2>2 DEF One
  <2>7. e = 1 => (n - o - a) + 1 <= n
    BY <2>3
  <2>8. QED
    BY <1>3, <2>2, <2>4, <2>5, <2>6, <2>7
<1>6. n - o - a \in Int /\ n - o - a <= n
  OBVIOUS
<1>7. QED
  BY <1>3, <1>4, <1>5, <1>6

\* A step that tells the logger nothing new, and of which it counts nothing.
LEMMA NothingTold ==
  ASSUME MessagesAreTold, stats'.msgs = stats.msgs,
         \A c \in Conns : Told(con'[c], sent'[c], log'[c]) = Told(con[c], sent[c], log[c])
  PROVE  MessagesAreTold'
<1>1. told' = told
  BY DEF told
<1>2. QED
  BY <1>1 DEF MessagesAreTold

\* Only one connector moves, and it has told the logger as much as before.
LEMMA OneTold ==
  ASSUME ErlangTypeOK, MessagesAreTold, stats' = stats, NEW c \in Conns, NEW st, NEW n, NEW l,
         con' = Set(con, c, st), sent' = Set(sent, c, n), log' = Set(log, c, l),
         Told(st, n, l) = Told(con[c], sent[c], log[c])
  PROVE  MessagesAreTold'
<1>1. /\ con'[c] = st /\ sent'[c] = n /\ log'[c] = l
      /\ \A x \in Conns : x # c => con'[x] = con[x] /\ sent'[x] = sent[x] /\ log'[x] = log[x]
  BY DEF ErlangTypeOK, Set
<1>2. \A x \in Conns : Told(con'[x], sent'[x], log'[x]) = Told(con[x], sent[x], log[x])
  BY <1>1
<1>3. QED
  BY <1>2, NothingTold

\* The connectors: a request sent is told when its reply is reported, not before.
LEMMA ConnectorTells ==
  ASSUME ErlangTypeOK, MessagesAreTold, NEW c \in Conns,
         connector(c) \/ Send(c) \/ Receive(c) \/ ReceiveTimeout(c)
  PROVE  MessagesAreTold'
<1>1. sent[c] \in Nat /\ log[c] \in Seq(Reports)
  BY ToldTypes
<1>2. stats' = stats
  BY DEF connector, Send, Receive, ReceiveTimeout
<1>3. /\ Set(sent, c, sent[c]) = sent /\ Set(log, c, log[c]) = log
  BY DEF Set, ErlangTypeOK
<1>4. ASSUME NEW st, NEW what \in Reports, con' = Set(con, c, st), sent' = sent, Report(c, what),
             One(con[c] \in {"waiting", "erred"})
               = One(st \in {"waiting", "erred"}) + One(what = "exchange_time")
      PROVE  MessagesAreTold'
  <2>1. log' = Set(log, c, Append(log[c], what))
    BY <1>4 DEF Report, Set
  <2>2. Told(st, sent[c], Append(log[c], what)) = Told(st, sent[c], log[c]) - One(what = "exchange_time")
    BY <1>1, ToldChanges
  <2>3. PICK a \in Nat, o \in Nat, p \in Nat, e \in Nat :
          /\ a = Cardinality(Times(log[c])) /\ e = One(what = "exchange_time")
          /\ o = One(con[c] \in {"waiting", "erred"}) /\ p = One(st \in {"waiting", "erred"})
    BY <1>1, TimesChange DEF One
  <2>4. PICK n \in Nat : n = sent[c]
    BY <1>1
  <2>5. o = p + e
    BY <1>4, <2>3
  <2>6. (n - p - a) - e = n - o - a
    BY <2>5
  <2>7. Told(st, sent[c], Append(log[c], what)) = Told(con[c], sent[c], log[c])
    BY <2>2, <2>3, <2>4, <2>6 DEF Told
  <2>8. QED
    BY <1>2, <1>3, <1>4, <2>1, <2>7, OneTold
<1>5. CASE connector(c)
  <2>1. con[c] = "connecting" /\ sent' = sent
    BY <1>5 DEF connector
  <2>2. PICK st \in {"pausing", "refused"}, what \in {"connect_time", "connect_error"} :
          con' = Set(con, c, st) /\ Report(c, what)
    BY <1>5 DEF connector
  <2>3. what \in Reports
    BY DEF Reports
  <2>4. One(con[c] \in {"waiting", "erred"}) = One(st \in {"waiting", "erred"}) + One(what = "exchange_time")
    BY <2>1, <2>2 DEF One
  <2>5. QED
    BY <1>4, <2>1, <2>2, <2>3, <2>4
<1>6. CASE Send(c)
  <2>1. /\ con[c] = "pausing" /\ con' = Set(con, c, "waiting") /\ sent' = Set(sent, c, sent[c] + 1)
        /\ log' = Set(log, c, log[c])
    BY <1>3, <1>6 DEF Send
  <2>2. One(con[c] \in {"waiting", "erred"}) = 0 /\ One("waiting" \in {"waiting", "erred"}) = 1
    BY <2>1 DEF One
  <2>3. PICK a \in Nat, n \in Nat : a = Cardinality(Times(log[c])) /\ n = sent[c]
    <3>1. "connect_time" \in Reports
      BY DEF Reports
    <3>2. Cardinality(Times(log[c])) \in Nat
      BY <1>1, <3>1, TimesChange
    <3>3. QED
      BY <1>1, <3>2
  <2>4. (n + 1) - 1 - a = n - 0 - a
    OBVIOUS
  <2>5. Told("waiting", sent[c] + 1, log[c]) = Told(con[c], sent[c], log[c])
    BY <2>2, <2>3, <2>4 DEF Told
  <2>6. QED
    BY <1>2, <2>1, <2>5, OneTold
<1>7. CASE Receive(c) \/ ReceiveTimeout(c)
  <2>1. con[c] = "waiting" /\ sent' = sent
    BY <1>7 DEF Receive, ReceiveTimeout
  <2>2. PICK st \in {"pausing", "erred"}, what \in {"exchange_time", "exchange_error"} :
          /\ con' = Set(con, c, st) /\ Report(c, what)
          /\ (st = "pausing") <=> (what = "exchange_time")
    BY <1>7 DEF Receive, ReceiveTimeout, ExchangeError
  <2>3. what \in Reports
    BY DEF Reports
  <2>4. One(con[c] \in {"waiting", "erred"}) = One(st \in {"waiting", "erred"}) + One(what = "exchange_time")
    BY <2>1, <2>2 DEF One
  <2>5. QED
    BY <1>4, <2>1, <2>2, <2>3, <2>4
<1>8. QED
  BY <1>5, <1>6, <1>7

\* The logger: it counts a reply when, and only when, it takes the report of one.
LEMMA LoggerTold ==
  ASSUME ErlangTypeOK, MessagesAreTold, gather_log
  PROVE  MessagesAreTold'
<1>1. con' = con /\ sent' = sent
  BY DEF gather_log
<1>2. CASE UNCHANGED <<log, stats>>
  BY <1>1, <1>2, NothingTold
<1>3. ASSUME NEW c \in Conns, log[c] # <<>>, stats' = Counted(Head(log[c])),
             log' = Set(log, c, Tail(log[c]))
      PROVE  MessagesAreTold'
  <2>1. sent[c] \in Nat /\ sent[c] <= MaxSent /\ log[c] \in Seq(Reports) /\ MaxSent \in Nat
    BY ToldTypes
  <2>2. Head(log[c]) \in Reports
    BY <1>3, <2>1, HeadTailProperties
  <2>3. stats.msgs \in Nat
    BY DEF ErlangTypeOK
  <2>4. stats'.msgs = stats.msgs + One(Head(log[c]) = "exchange_time")
    BY <1>3 DEF Counted, One
  <2>5. /\ log'[c] = Tail(log[c]) /\ \A x \in Conns : x # c => log'[x] = log[x]
    BY <1>3 DEF ErlangTypeOK, Set
  <2>6. told[c] = Told(con[c], sent[c], log[c]) /\ told \in [Conns -> Nat]
    BY DEF told, MessagesAreTold
  <2>7. Told(con[c], sent[c], Tail(log[c]))
          = Told(con[c], sent[c], log[c]) + One(Head(log[c]) = "exchange_time")
    BY <1>3, <2>1, <2>2, ToldChanges
  <2>8. CASE Head(log[c]) = "exchange_time"
    <3>1. One(Head(log[c]) = "exchange_time") = 1
      BY <2>8 DEF One
    <3>2. told[c] + 1 <= sent[c]
      <4>1. PICK n \in Nat, l \in Seq(Reports) : n = sent[c] /\ l = log[c]
        BY <2>1
      <4>2. l # <<>> /\ Head(l) = "exchange_time" /\ Head(l) \in Reports
        BY <1>3, <2>2, <2>8, <4>1
      <4>3. Told(con[c], n, l) + 1 <= n
        BY <4>2, ToldChanges
      <4>4. QED
        BY <2>6, <4>1, <4>3
    <3>3. told[c] \in Nat /\ told[c] + 1 <= MaxSent
      BY <2>1, <2>6, <3>2
    <3>4. told' = [told EXCEPT ![c] = told[c] + 1]
      <4>1. told' = [x \in Conns |-> Told(con[x], sent[x], log'[x])]
        BY <1>1 DEF told
      <4>2. Told(con[c], sent[c], log'[c]) = told[c] + 1
        BY <2>5, <2>6, <2>7, <3>1
      <4>3. \A x \in Conns : x # c => Told(con[x], sent[x], log'[x]) = told[x]
        BY <2>5 DEF told
      <4>4. QED
        BY <2>6, <4>1, <4>2, <4>3
    <3>5. told' \in [Conns -> Nat]
      BY <2>6, <3>3, <3>4
    <3>6. Cardinality(Pairs(told')) = Cardinality(Pairs(told)) + 1
      <4>1. PICK t \in [Conns -> Nat] : t = told
        BY <2>6
      <4>2. told' = [t EXCEPT ![c] = t[c] + 1] /\ t[c] + 1 <= MaxSent
        BY <3>3, <3>4, <4>1
      <4>3. Cardinality(Pairs([t EXCEPT ![c] = t[c] + 1])) = Cardinality(Pairs(t)) + 1
        BY <4>2, PairsGrow
      <4>4. QED
        BY <4>1, <4>2, <4>3
    <3>7. stats'.msgs = Cardinality(Pairs(told'))
      BY <2>4, <3>1, <3>6 DEF MessagesAreTold
    <3>8. QED
      BY <3>5, <3>7 DEF MessagesAreTold, Pairs
  <2>9. CASE Head(log[c]) # "exchange_time"
    <3>1. One(Head(log[c]) = "exchange_time") = 0
      BY <2>9 DEF One
    <3>2. stats'.msgs = stats.msgs
      BY <2>3, <2>4, <3>1
    <3>3. Told(con[c], sent[c], Tail(log[c])) = Told(con[c], sent[c], log[c])
      <4>1. told[c] \in Nat
        BY <2>6
      <4>2. QED
        BY <2>6, <2>7, <3>1, <4>1
    <3>4. \A x \in Conns : Told(con'[x], sent'[x], log'[x]) = Told(con[x], sent[x], log[x])
      BY <1>1, <2>5, <3>3
    <3>5. QED
      BY <3>2, <3>4, NothingTold
  <2>10. QED
    BY <2>8, <2>9
<1>4. QED
  BY <1>2, <1>3 DEF gather_log

\* Every step keeps the messages told.
LEMMA MessagesStep == ErlangInv /\ MessagesAreTold /\ [ErlangNext]_ErlangVars => MessagesAreTold'
<1> SUFFICES ASSUME ErlangInv, MessagesAreTold, [ErlangNext]_ErlangVars PROVE MessagesAreTold'
  OBVIOUS
<1>1. ErlangTypeOK
  BY DEF ErlangInv
<1>2. CASE UNCHANGED <<con, sent, log, stats>>
  BY <1>2, NothingTold
<1>3. CASE starter
  <2>1. /\ con' = Set(con, running + 1, "connecting") /\ UNCHANGED <<sent, log, stats>>
    BY <1>3 DEF starter
  <2>2. running + 1 \in Conns /\ running + 1 > running
    BY <1>1, <1>3, ErlangAssumption DEF starter, Conns, ErlangTypeOK
  <2>3. con[running + 1] = "none"
    BY <2>2 DEF ErlangInv, Spawned
  <2>4. /\ con'[running + 1] = "connecting"
        /\ \A x \in Conns : x # running + 1 => con'[x] = con[x]
    BY <1>1, <2>1, <2>2 DEF Set, ErlangTypeOK
  <2>5. \A n, l : Told("connecting", n, l) = Told("none", n, l)
    BY DEF Told, One
  <2>6. \A x \in Conns : Told(con'[x], sent'[x], log'[x]) = Told(con[x], sent[x], log[x])
    BY <2>1, <2>3, <2>4, <2>5
  <2>7. QED
    BY <2>1, <2>6, NothingTold
<1>4. CASE gather_log
  BY <1>1, <1>4, LoggerTold
<1>5. ASSUME NEW c \in Conns, connector(c) \/ Send(c) \/ Receive(c) \/ ReceiveTimeout(c)
      PROVE  MessagesAreTold'
  BY <1>1, <1>5, ConnectorTells
<1>6. CASE controlling_process \/ SendPerm \/ AcceptFails
  BY <1>2, <1>6 DEF controlling_process, SendPerm, AcceptFails, client
<1>7. ASSUME NEW c \in Conns,
             \/ tcp_acceptor(c) \/ bind(c) \/ bind_Timeout(c)
             \/ handle_Data(c) \/ handle_Other(c) \/ handle_Timeout(c)
             \/ Deliver(c) \/ DeliverClosed(c) \/ Fails(c)
      PROVE  MessagesAreTold'
  <2>1. UNCHANGED <<con, sent, log, stats>>
    BY <1>7 DEF tcp_acceptor, bind, bind_Timeout, handle_Data, handle_Other, handle_Timeout,
                Close, Deliver, DeliverClosed, Fails, client
  <2>2. QED
    BY <1>2, <2>1
<1>8. CASE UNCHANGED ErlangVars
  BY <1>2, <1>8 DEF ErlangVars, client
<1>9. QED
  BY <1>3, <1>4, <1>5, <1>6, <1>7, <1>8 DEF ErlangNext

\* At the start nothing is sent, told or counted.
LEMMA MessagesStart == ErlangInit => MessagesAreTold
<1> SUFFICES ASSUME ErlangInit PROVE MessagesAreTold
  OBVIOUS
<1>1. \A c \in Conns : Told(con[c], sent[c], log[c]) = 0
  <2>1. SUFFICES ASSUME NEW c \in Conns PROVE Told(con[c], sent[c], log[c]) = 0
    OBVIOUS
  <2>2. con[c] = "none" /\ sent[c] = 0 /\ log[c] = <<>>
    BY DEF ErlangInit
  <2>3. Times(<<>>) = {}
    BY DEF Times
  <2>4. One("none" \in {"waiting", "erred"}) = 0 /\ Cardinality(Times(<<>>)) = 0
    BY <2>3, FS_EmptySet DEF One
  <2>5. QED
    BY <2>2, <2>4 DEF Told
<1>2. told \in [Conns -> Nat] /\ \A c \in Conns : told[c] = 0
  BY <1>1 DEF told
<1>3. Pairs(told) = {}
  <2>1. \A x \in Conns \X (1..MaxSent) : ~(x[2] <= told[x[1]])
    BY <1>2, ErlangAssumption
  <2>2. QED
    BY <2>1 DEF Pairs
<1>4. stats.msgs = 0
  BY DEF ErlangInit
<1>5. QED
  BY <1>2, <1>3, <1>4, FS_EmptySet DEF MessagesAreTold

\* The pairs of LoggedReplies are those told.
LEMMA LoggedIsTold ==
  ASSUME ErlangTypeOK, MessagesAreTold
  PROVE  stats.msgs = LoggedReplies
<1>1. \A c \in Conns : Replied(c) - Unlogged(c) = told[c]
  BY DEF Replied, Unlogged, told, Told, Times, One
<1>2. {x \in Conns \X (1..MaxSent) : x[2] <= Replied(x[1]) - Unlogged(x[1])} = Pairs(told)
  BY <1>1 DEF Pairs
<1>3. QED
  BY <1>2 DEF LoggedReplies, MessagesAreTold

\* The invariants give the sums of the logger.
LEMMA TallyIsExact ==
  ASSUME ErlangInv, MessagesAreTold
  PROVE  LogIsExact
<1>1. ErlangTypeOK /\ LogTypes /\ Tally
  BY ErlangTypes DEF ErlangInv
<1>2. IsFiniteSet(Conns)
  <2>1. MaxChildren \in Int
    BY ErlangAssumption
  <2>2. QED
    BY <2>1, FS_Interval DEF Conns
<1>3. ASSUME NEW sts, NEW what, \A c \in Conns : Has(log[c], what) => con[c] \in sts
      PROVE  Cardinality(Heard(con, log, sts, what)) + Pending(what) = Are(sts)
  <2> DEFINE P == {c \in Conns : Has(log[c], what)}
             R == {c \in Conns : con[c] \in sts}
  <2>1. P = {c \in Conns : Has(log[c], what)} /\ P \subseteq Conns
    OBVIOUS
  <2>2. R = {c \in Conns : con[c] \in sts} /\ R \subseteq Conns
    OBVIOUS
  <2> HIDE DEF P, R
  <2>3. IsFiniteSet(R) /\ IsFiniteSet(P) /\ R \cap P = P /\ Heard(con, log, sts, what) = R \ P
    <3>1. IsFiniteSet(R) /\ IsFiniteSet(P)
      BY <1>2, <2>1, <2>2, FS_Subset
    <3>2. R \cap P = P
      BY <1>3, <2>1, <2>2
    <3>3. Heard(con, log, sts, what) = R \ P
      BY <2>1, <2>2 DEF Heard
    <3>4. QED
      BY <3>1, <3>2, <3>3
  <2>4. Cardinality(R \ P) = Cardinality(R) - Cardinality(P)
    BY <2>3, FS_Difference
  <2>5. Cardinality(R) \in Nat /\ Cardinality(P) \in Nat
    BY <2>3, FS_CardinalityType
  <2>6. Pending(what) = Cardinality(P) /\ Are(sts) = Cardinality(R)
    BY <2>1, <2>2 DEF Pending, Are, Has
  <2>7. PICK p \in Nat, r \in Nat : p = Cardinality(P) /\ r = Cardinality(R)
    BY <2>5
  <2>8. (r - p) + p = r
    OBVIOUS
  <2>9. QED
    BY <2>3, <2>4, <2>6, <2>7, <2>8
<1>4. \A c \in Conns : /\ Has(log[c], "connect_error") => con[c] \in {"refused"}
                       /\ Has(log[c], "exchange_error") => con[c] \in {"erred"}
                       /\ Has(log[c], "connect_time") => con[c] \in Connected
                       /\ con[c] = "erred" /\ Has(log[c], "connect_time") => Has(log[c], "exchange_error")
  BY <1>1 DEF Tally, ReportsAre, Has
<1>5. stats.conErr + Pending("connect_error") = Are({"refused"})
  BY <1>1, <1>3, <1>4 DEF Tally
<1>6. stats.exchErr + Pending("exchange_error") = Are({"erred"})
  BY <1>1, <1>3, <1>4 DEF Tally
<1>7. stats.exchErr <= stats.chld - stats.conErr
  <2>1. PICK A \in SUBSET Conns : A = Heard(con, log, {"erred"}, "exchange_error")
    BY DEF Heard
  <2>2. PICK B \in SUBSET Conns : B = Heard(con, log, Connected, "connect_time")
    BY DEF Heard
  <2>3. A \subseteq B
    BY <1>4, <2>1, <2>2 DEF Heard, Connected
  <2>4. IsFiniteSet(B)
    BY <1>2, FS_Subset
  <2>5. Cardinality(A) \in Nat /\ Cardinality(B) \in Nat /\ Cardinality(A) <= Cardinality(B)
    <3>1. IsFiniteSet(A) /\ Cardinality(A) <= Cardinality(B)
      BY <2>3, <2>4, FS_Subset
    <3>2. QED
      BY <2>4, <3>1, FS_CardinalityType
  <2>6. PICK a \in Nat, b \in Nat, e \in Nat : a = stats.chld /\ b = stats.conErr /\ e = stats.exchErr
    BY <1>1 DEF LogTypes, LogCounts
  <2>7. e = Cardinality(A) /\ a = b + Cardinality(B)
    BY <1>1, <2>1, <2>2, <2>6 DEF Tally
  <2>8. e <= a - b
    BY <2>5, <2>7
  <2>9. QED
    BY <2>6, <2>8
<1>8. stats.chld - stats.conErr + Pending("connect_time") = Are({"pausing", "waiting", "erred"})
  <2>1. Cardinality(Heard(con, log, Connected, "connect_time")) + Pending("connect_time") = Are(Connected)
    BY <1>3, <1>4
  <2>2. PICK a \in Nat, b \in Nat : a = stats.chld /\ b = stats.conErr
    BY <1>1 DEF LogTypes, LogCounts
  <2>3. IsFiniteSet(Heard(con, log, Connected, "connect_time"))
    <3>1. Heard(con, log, Connected, "connect_time") \in SUBSET Conns
      BY DEF Heard
    <3>2. QED
      BY <1>2, <3>1, FS_Subset
  <2>4. PICK h \in Nat : h = Cardinality(Heard(con, log, Connected, "connect_time"))
    BY <2>3, FS_CardinalityType
  <2>5. a = b + h
    BY <1>1, <2>2, <2>4 DEF Tally
  <2>6. a - b = h
    BY <2>5
  <2>7. QED
    BY <2>1, <2>2, <2>4, <2>6 DEF Connected
<1>9. stats.msgs = LoggedReplies
  BY <1>1, LoggedIsTold
<1>10. QED
  BY <1>1, <1>5, <1>6, <1>7, <1>8, <1>9 DEF LogIsExact

\* The logger of client.erl, for every number of connectors, length and number of
\* requests: its counts of connections, of failed ones, of errors and of messages
\* are those of the connectors, whatever order the reports come in, and the errors
\* never exceed Chld - ConErr.
THEOREM LoggerIsExact == ErlangSpec => []LogIsExact
<1>1. ErlangInv /\ MessagesAreTold => LogIsExact
  BY TallyIsExact
<1>2. ErlangInit => ErlangInv
  BY ErlangStarts
<1>3. ErlangInv /\ [ErlangNext]_ErlangVars => ErlangInv'
  BY ErlangStep
<1>4. ErlangSpec => []ErlangInv
  BY <1>2, <1>3, PTL DEF ErlangSpec
<1>5. QED
  BY <1>1, <1>4, MessagesStart, MessagesStep, PTL DEF ErlangSpec

\* Acceptor, handler and connector of erlang-virtan never make an exchange error
\* by themselves: it takes the network, a timeout or a split reply.
THEOREM ExchangeErrorsHaveCause == ErlangSpec => []ErrorsHaveCause
<1>1. ErlangInv => ErrorsHaveCause
  <2> SUFFICES ASSUME ErlangInv, NEW c \in Conns, con[c] = "erred" PROVE fault[c]
    BY DEF ErrorsHaveCause
  <2>1. Orderly(c)
    BY DEF ErlangInv
  <2>2. QED
    BY <2>1 DEF Orderly, NoTrouble
<1>2. ErlangInit => ErlangInv
  BY ErlangStarts
<1>3. ErlangInv /\ [ErlangNext]_ErlangVars => ErlangInv'
  BY ErlangStep
<1>4. QED
  BY <1>1, <1>2, <1>3, PTL DEF ErlangSpec

-----------------------------------------------------------------------------
(* No reply is forgotten.  RepliesCome needs fairness; what is proved is   *)
(* that while a connector waits some process has something to do for it,   *)
(* unless its socket has been left with the acceptor.                      *)

\* How connection c stands with the server: before it is queued it has no handler;
\* while it is queued the acceptor lives; once it is accepted it has a handler, which
\* has its perm or is about to get it; the end of a connection is in the mailbox
\* when it is taken off the network; a request on a connection that is up is
\* somewhere; and a handler that ends without its socket has been too slow.
Answering(c) ==
  /\ con[c] \in {"none", "connecting", "refused"} => link[c] = "none" /\ handler[c] = "none"
  /\ link[c] = "queued" => handler[c] = "none" /\ acc.pc # "ended"
  /\ link[c] = "up" => handler[c] # "none"
  /\ handler[c] = "bind" => perm[c] \/ (acc.sock = c /\ acc.pc \in {"control", "perm"})
  /\ con[c] \in {"pausing", "waiting"} /\ link[c] = "none" => Has(mail[c], "closed")
  /\ con[c] = "waiting" /\ link[c] \in {"queued", "up"} =>
       mail[c] # <<>> \/ up[c] # 0 \/ down[c] # 0
  /\ handler[c] = "ended" /\ link[c] = "up" => owner[c] = "acceptor" /\ fault[c]

\* Some process, or the network, has something to do for connector c.
ReplyIsDue(c) ==
  \/ mail[c] # <<>>
  \/ down[c] > 0 \/ link[c] = "down"
  \/ handler[c] = "handle" /\ up[c] > 0
  \/ handler[c] = "bind" /\ perm[c]
  \/ acc.pc = "accept" /\ link[c] = "queued"
  \/ acc.pc \in {"control", "perm"} /\ (link[c] = "queued" \/ acc.sock = c)

\* The handler gave up before it was handed its socket.
LeftBehind(c) ==
  handler[c] = "ended" /\ link[c] = "up" /\ owner[c] = "acceptor" /\ fault[c]

SameConnection(x) ==
  /\ con'[x] = con[x] /\ mail'[x] = mail[x] /\ up'[x] = up[x] /\ down'[x] = down[x]
  /\ link'[x] = link[x] /\ handler'[x] = handler[x] /\ perm'[x] = perm[x]
  /\ owner'[x] = owner[x] /\ fault'[x] = fault[x]

\* A connection that a step does not touch stands as before.
LEMMA AnsweringStays ==
  ASSUME NEW x \in Conns, Answering(x), SameConnection(x), acc' = acc
  PROVE  Answering(x)'
BY DEF Answering, SameConnection

\* A mailbox with the end of the connection in it is not empty, keeps it while
\* messages are added, and is left with it when a reply is taken out.
LEMMA EndStays ==
  ASSUME NEW m \in Seq(Mails), NEW y \in Mails
  PROVE  /\ Has(m, "closed") => m # <<>>
         /\ Has(m, "closed") => Has(Append(m, y), "closed")
         /\ Has(Append(m, "closed"), "closed")
         /\ m # <<>> /\ Head(m) # "closed" /\ Has(m, "closed") => Has(Tail(m), "closed")
<1>1. Len(m) \in Nat /\ Len(<<>>) = 0
  BY LenProperties
<1>2. Has(m, "closed") => m # <<>>
  BY <1>1 DEF Has
<1>3. ASSUME NEW z \in Mails
      PROVE  /\ Len(Append(m, z)) = Len(m) + 1 /\ Append(m, z)[Len(m) + 1] = z
             /\ \A i \in 1..Len(m) : Append(m, z)[i] = m[i]
  BY AppendProperties
<1>4. Has(Append(m, "closed"), "closed")
  <2>1. "closed" \in Mails /\ Len(m) + 1 \in 1..(Len(m) + 1)
    BY <1>1 DEF Mails
  <2>2. QED
    BY <1>3, <2>1 DEF Has
<1>5. Has(m, "closed") => Has(Append(m, y), "closed")
  <2>1. \A i \in 1..Len(m) : i \in 1..(Len(m) + 1)
    BY <1>1
  <2>2. QED
    BY <1>3, <2>1 DEF Has
<1>6. ASSUME m # <<>>, Head(m) # "closed", Has(m, "closed")
      PROVE  Has(Tail(m), "closed")
  <2>1. /\ Head(m) = m[1] /\ Len(Tail(m)) = Len(m) - 1
        /\ \A i \in 1..Len(Tail(m)) : Tail(m)[i] = m[i + 1]
    BY <1>6, HeadTailProperties
  <2>2. PICK i \in 1..Len(m) : m[i] = "closed"
    BY <1>6 DEF Has
  <2>3. PICK j \in Nat : i = j + 1 /\ j \in 1..(Len(m) - 1)
    <3>1. i # 1
      BY <1>6, <2>1, <2>2
    <3>2. i - 1 \in Nat /\ i = (i - 1) + 1 /\ i - 1 \in 1..(Len(m) - 1)
      BY <1>1, <3>1
    <3>3. QED
      BY <3>2
  <2>4. QED
    BY <2>1, <2>2, <2>3 DEF Has
<1>7. QED
  BY <1>2, <1>4, <1>5, <1>6

\* What the connectors do: connect, send, take a reply, give up.
LEMMA ConnectorAnswering ==
  ASSUME ErlangInv, \A x \in Conns : Answering(x), NEW c \in Conns,
         connector(c) \/ Send(c) \/ Receive(c) \/ ReceiveTimeout(c)
  PROVE  \A x \in Conns : Answering(x)'
<1>1. LogTypes /\ NetTypes /\ ServerTypes /\ Answering(c) /\ Orderly(c)
  BY ErlangTypes DEF ErlangInv
<1>2. UNCHANGED <<acc, handler, owner, perm>>
  BY DEF connector, Send, Receive, ReceiveTimeout, server
<1>3. /\ \A x \in Conns \ {c} : SameConnection(x)
      /\ Answering(c)'
  <2>1. CASE connector(c)
    <3>1. /\ con[c] = "connecting" /\ UNCHANGED <<mail, up, down, fault>>
          /\ \/ /\ acc.pc # "ended" /\ link' = [link EXCEPT ![c] = "queued"]
                /\ con' = [con EXCEPT ![c] = "pausing"]
             \/ link' = link /\ con' = [con EXCEPT ![c] = "refused"]
      BY <2>1 DEF connector, ServerUp, Set
    <3>2. \A x \in Conns \ {c} : SameConnection(x)
      BY <1>1, <1>2, <3>1 DEF SameConnection, LogTypes, NetTypes
    <3>3. handler'[c] = "none" /\ link[c] = "none" /\ acc' = acc
      BY <1>1, <1>2, <3>1 DEF Answering
    <3>4. \/ acc'.pc # "ended" /\ link'[c] = "queued" /\ con'[c] = "pausing"
          \/ link'[c] = "none" /\ con'[c] = "refused"
      BY <1>1, <3>1, <3>3 DEF LogTypes, NetTypes
    <3>5. Answering(c)'
      BY <3>3, <3>4 DEF Answering
    <3>6. QED
      BY <3>2, <3>5
  <2>2. CASE Send(c)
    <3>1. /\ con[c] = "pausing" /\ con' = [con EXCEPT ![c] = "waiting"]
          /\ up' = IF link[c] \in {"queued", "up"} THEN [up EXCEPT ![c] = MsgLen] ELSE up
          /\ UNCHANGED <<mail, link, down, fault>>
      BY <2>2 DEF Send, Set
    <3>2. /\ con'[c] = "waiting" /\ (link[c] \in {"queued", "up"} => up'[c] = MsgLen)
          /\ \A x \in Conns \ {c} : con'[x] = con[x] /\ up'[x] = up[x]
      BY <1>1, <3>1 DEF LogTypes, NetTypes
    <3>3. \A x \in Conns \ {c} : SameConnection(x)
      BY <1>2, <3>1, <3>2 DEF SameConnection
    <3>4. MsgLen # 0
      BY ErlangAssumption
    <3>5. Answering(c)'
      BY <1>1, <1>2, <3>1, <3>2, <3>4 DEF Answering
    <3>6. QED
      BY <3>3, <3>5
  <2>3. CASE Receive(c) /\ con'[c] = "pausing"
    <3>1. /\ con[c] = "waiting" /\ mail[c] # <<>> /\ Head(mail[c]) = "whole"
          /\ con' = [con EXCEPT ![c] = "pausing"]
          /\ mail' = [mail EXCEPT ![c] = Tail(mail[c])]
          /\ UNCHANGED <<link, up, down, fault>>
      BY <1>1, <2>3 DEF Receive, ExchangeError, Set, network, LogTypes
    <3>2. /\ con'[c] = "pausing" /\ mail'[c] = Tail(mail[c])
          /\ \A x \in Conns \ {c} : con'[x] = con[x] /\ mail'[x] = mail[x]
      BY <1>1, <3>1 DEF LogTypes, NetTypes
    <3>3. \A x \in Conns \ {c} : SameConnection(x)
      BY <1>2, <3>1, <3>2 DEF SameConnection
    <3>4. PICK m \in Seq(Mails) : m = mail[c] /\ m # <<>> /\ Head(m) # "closed"
      BY <1>1, <3>1 DEF NetTypes
    <3>5. Has(m, "closed") => Has(Tail(m), "closed")
      <4>1. "closed" \in Mails
        BY DEF Mails
      <4>2. QED
        BY <3>4, <4>1, EndStays
    <3>6. Answering(c)'
      BY <1>1, <1>2, <3>1, <3>2, <3>4, <3>5 DEF Answering
    <3>7. QED
      BY <3>3, <3>6
  <2>4. CASE (Receive(c) \/ ReceiveTimeout(c)) /\ con'[c] # "pausing"
    <3>1. /\ con[c] = "waiting" /\ con' = [con EXCEPT ![c] = "erred"]
          /\ mail' = [mail EXCEPT ![c] = <<>>]
          /\ UNCHANGED <<link, up, down>>
          /\ fault' = fault \/ fault' = [fault EXCEPT ![c] = TRUE]
      BY <1>1, <2>4 DEF Receive, ReceiveTimeout, ExchangeError, Set, network, LogTypes
    <3>2. /\ con'[c] = "erred"
          /\ \A x \in Conns \ {c} : con'[x] = con[x] /\ mail'[x] = mail[x] /\ fault'[x] = fault[x]
      BY <1>1, <3>1 DEF LogTypes, NetTypes
    <3>3. fault[c] => fault'[c]
      BY <1>1, <3>1 DEF NetTypes
    <3>4. \A x \in Conns \ {c} : SameConnection(x)
      BY <1>2, <3>1, <3>2 DEF SameConnection
    <3>5. /\ link'[c] = link[c] /\ handler'[c] = handler[c] /\ perm'[c] = perm[c]
          /\ owner'[c] = owner[c] /\ acc' = acc
      BY <1>2, <3>1
    <3>6. Answering(c)'
      BY <1>1, <3>2, <3>3, <3>5 DEF Answering
    <3>7. QED
      BY <3>4, <3>6
  <2>5. \/ connector(c) \/ Send(c) \/ (Receive(c) /\ con'[c] = "pausing")
        \/ ((Receive(c) \/ ReceiveTimeout(c)) /\ con'[c] # "pausing")
    BY <1>1 DEF ReceiveTimeout, ExchangeError, Set, LogTypes
  <2>6. QED
    BY <2>1, <2>2, <2>3, <2>4, <2>5
<1>4. QED
  BY <1>2, <1>3, AnsweringStays

\* What the acceptor does: accept, hand over, send perm, fail.
LEMMA AcceptorAnswering ==
  ASSUME ErlangInv, \A x \in Conns : Answering(x),
         controlling_process \/ SendPerm \/ AcceptFails \/ \E c \in Conns : tcp_acceptor(c)
  PROVE  \A x \in Conns : Answering(x)'
<1>1. LogTypes /\ NetTypes /\ ServerTypes
  BY ErlangTypes DEF ErlangInv
<1>2. SUFFICES ASSUME NEW x \in Conns
               PROVE  Answering(x)'
  OBVIOUS
<1>3. Answering(x) /\ x # NoSock
  BY DEF Conns, NoSock
<1>4. CASE controlling_process
  <2>1. /\ acc.pc = "control" /\ acc' = [acc EXCEPT !.pc = "perm"]
        /\ UNCHANGED <<con, mail, up, down, link, handler, perm, fault>>
    BY <1>4 DEF controlling_process, client, network
  <2>2. acc'.pc = "perm" /\ acc'.sock = acc.sock
    BY <1>1, <2>1 DEF ServerTypes, Acceptor
  <2>3. owner'[x] = owner[x] \/ handler[x] = "bind"
    <3>1. \/ owner' = owner
          \/ handler[acc.sock] = "bind" /\ owner' = [owner EXCEPT ![acc.sock] = "handler"]
      BY <1>4 DEF controlling_process, Set
    <3>2. QED
      BY <1>1, <3>1 DEF ServerTypes
  <2>4. QED
    BY <1>3, <2>1, <2>2, <2>3 DEF Answering
<1>5. CASE SendPerm
  <2>1. /\ acc.pc = "perm" /\ acc' = [pc |-> "accept", sock |-> NoSock]
        /\ perm' = [perm EXCEPT ![acc.sock] = TRUE]
        /\ UNCHANGED <<con, mail, up, down, link, handler, owner, fault>>
    BY <1>5 DEF SendPerm, client, network, Set
  <2>2. acc'.pc = "accept" /\ (perm[x] => perm'[x]) /\ (acc.sock = x => perm'[x])
    BY <1>1, <2>1 DEF ServerTypes
  <2>3. QED
    BY <1>3, <2>1, <2>2 DEF Answering
<1>6. CASE AcceptFails
  <2>1. /\ acc' = [pc |-> "ended", sock |-> NoSock]
        /\ handler'[x] = IF handler[x] = "none" THEN "none" ELSE "ended"
        /\ link'[x] = IF link[x] = "none" THEN "none" ELSE "down"
        /\ UNCHANGED <<con, mail>>
    BY <1>6 DEF AcceptFails, client
  <2>2. QED
    BY <1>3, <2>1 DEF Answering
<1>7. ASSUME NEW c \in Conns, tcp_acceptor(c)
      PROVE  Answering(x)'
  <2>1. /\ acc.pc = "accept" /\ link[c] = "queued" /\ acc' = [pc |-> "control", sock |-> c]
        /\ link' = [link EXCEPT ![c] = "up"] /\ handler' = [handler EXCEPT ![c] = "bind"]
        /\ UNCHANGED <<con, mail, up, down, owner, perm, fault>>
    BY <1>7 DEF tcp_acceptor, client, Set
  <2>2. acc'.pc = "control" /\ acc'.sock = c
    BY <2>1
  <2>3. CASE x = c
    <3>1. link'[x] = "up" /\ handler'[x] = "bind"
      BY <1>1, <2>1, <2>3 DEF NetTypes, ServerTypes
    <3>2. con[x] \notin {"none", "connecting", "refused"}
      BY <1>3, <2>1, <2>3 DEF Answering
    <3>3. con[x] = "waiting" => mail[x] # <<>> \/ up[x] # 0 \/ down[x] # 0
      BY <1>3, <2>1, <2>3 DEF Answering
    <3>4. QED
      BY <2>1, <2>2, <2>3, <3>1, <3>2, <3>3 DEF Answering
  <2>4. CASE x # c
    <3>1. link'[x] = link[x] /\ handler'[x] = handler[x]
      BY <1>1, <2>1, <2>4 DEF NetTypes, ServerTypes
    <3>2. QED
      BY <1>3, <2>1, <2>2, <3>1 DEF Answering
  <2>5. QED
    BY <2>3, <2>4
<1>8. QED
  BY <1>4, <1>5, <1>6, <1>7

\* What the handlers do: begin, answer, end.
LEMMA HandlerAnswering ==
  ASSUME ErlangInv, \A x \in Conns : Answering(x), NEW c \in Conns,
         \/ bind(c) \/ bind_Timeout(c)
         \/ handle_Data(c) \/ handle_Other(c) \/ handle_Timeout(c)
  PROVE  \A x \in Conns : Answering(x)'
<1>1. LogTypes /\ NetTypes /\ ServerTypes /\ Answering(c) /\ Orderly(c)
  BY ErlangTypes DEF ErlangInv
<1>2. UNCHANGED <<acc, con, mail, owner, perm>>
  BY DEF bind, bind_Timeout, handle_Data, handle_Other, handle_Timeout, Close, client, server
<1>3. /\ \A x \in Conns \ {c} : SameConnection(x)
      /\ Answering(c)'
  <2>1. CASE bind(c)
    <3>1. /\ handler[c] = "bind" /\ handler' = [handler EXCEPT ![c] = "handle"]
          /\ UNCHANGED <<link, up, down, fault>>
      BY <2>1 DEF bind, network, Set
    <3>2. handler'[c] = "handle" /\ \A x \in Conns \ {c} : handler'[x] = handler[x]
      BY <1>1, <3>1 DEF ServerTypes
    <3>3. \A x \in Conns \ {c} : SameConnection(x)
      BY <1>2, <3>1, <3>2 DEF SameConnection
    <3>4. Answering(c)'
      BY <1>1, <1>2, <3>1, <3>2 DEF Answering
    <3>5. QED
      BY <3>3, <3>4
  <2>2. CASE handle_Data(c)
    <3>1. PICK n \in 1..up[c] : up' = [up EXCEPT ![c] = up[c] - n] /\ down' = [down EXCEPT ![c] = down[c] + n]
      BY <2>2 DEF handle_Data, Set
    <3>2. UNCHANGED <<handler, link, fault>>
      BY <2>2 DEF handle_Data, server
    <3>3. down'[c] # 0 /\ \A x \in Conns \ {c} : up'[x] = up[x] /\ down'[x] = down[x]
      <4>1. PICK u \in Nat, d \in Nat : u = up[c] /\ d = down[c]
        BY <1>1, ErlangAssumption DEF NetTypes
      <4>2. n \in Nat /\ 1 <= n
        BY <4>1
      <4>3. d + n # 0
        BY <4>2
      <4>4. QED
        BY <1>1, <3>1, <4>1, <4>3 DEF NetTypes
    <3>4. \A x \in Conns \ {c} : SameConnection(x)
      BY <1>2, <3>2, <3>3 DEF SameConnection
    <3>5. Answering(c)'
      BY <1>1, <1>2, <3>2, <3>3 DEF Answering
    <3>6. QED
      BY <3>4, <3>5
  <2>3. CASE bind_Timeout(c) \/ handle_Other(c) \/ handle_Timeout(c)
    <3>1. /\ handler[c] \in {"bind", "handle"} /\ handler' = [handler EXCEPT ![c] = "ended"]
          /\ UNCHANGED <<up, down>>
      BY <2>3 DEF bind_Timeout, handle_Other, handle_Timeout, Close, network, Set
    <3>2. /\ link' = link \/ link' = [link EXCEPT ![c] = "down"]
          /\ fault' = fault \/ fault' = [fault EXCEPT ![c] = TRUE]
      BY <2>3 DEF bind_Timeout, handle_Other, handle_Timeout, Close, network, Set
    <3>3. /\ handler'[c] = "ended"
          /\ \A x \in Conns \ {c} :
               handler'[x] = handler[x] /\ link'[x] = link[x] /\ fault'[x] = fault[x]
      BY <1>1, <3>1, <3>2 DEF ServerTypes, NetTypes
    <3>4. \A x \in Conns \ {c} : SameConnection(x)
      BY <1>2, <3>1, <3>3 DEF SameConnection
    <3>5. link'[c] = link[c] \/ link'[c] = "down"
      BY <1>1, <3>2 DEF NetTypes
    <3>6. link'[c] = "up" => owner[c] = "acceptor" /\ fault'[c]
      <4>1. CASE bind_Timeout(c) /\ owner[c] # "handler"
        <5>1. fault' = [fault EXCEPT ![c] = TRUE]
          BY <4>1 DEF bind_Timeout, Set
        <5>2. QED
          BY <1>1, <4>1, <5>1 DEF NetTypes, ServerTypes
      <4>2. CASE Close(c)
        <5>1. link' = IF link[c] = "up" THEN [link EXCEPT ![c] = "down"] ELSE link
          BY <4>2 DEF Close, Set
        <5>2. QED
          BY <1>1, <5>1 DEF NetTypes
      <4>3. QED
        BY <2>3, <4>1, <4>2 DEF bind_Timeout, handle_Other, handle_Timeout
    <3>7. Answering(c)'
      BY <1>1, <1>2, <3>1, <3>3, <3>5, <3>6 DEF Answering
    <3>8. QED
      BY <3>4, <3>7
  <2>4. QED
    BY <2>1, <2>2, <2>3
<1>4. QED
  BY <1>2, <1>3, AnsweringStays

\* What the network does: deliver, close, fail.
LEMMA NetworkAnswering ==
  ASSUME ErlangInv, \A x \in Conns : Answering(x), NEW c \in Conns,
         Deliver(c) \/ DeliverClosed(c) \/ Fails(c)
  PROVE  \A x \in Conns : Answering(x)'
<1>1. LogTypes /\ NetTypes /\ ServerTypes /\ Answering(c) /\ Orderly(c)
  BY ErlangTypes DEF ErlangInv
<1>2. UNCHANGED <<acc, handler, owner, perm, con>>
  BY DEF Deliver, DeliverClosed, Fails, server, client
<1>3. PICK m \in Seq(Mails) : m = mail[c]
  BY <1>1 DEF NetTypes
<1>4. /\ \A x \in Conns \ {c} : SameConnection(x)
      /\ Answering(c)'
  <2>1. CASE Deliver(c)
    <3>1. PICK n \in 1..down[c] :
            /\ down' = [down EXCEPT ![c] = down[c] - n]
            /\ mail' = [mail EXCEPT ![c] = Append(mail[c], IF n = MsgLen THEN "whole" ELSE "part")]
            /\ fault' = [fault EXCEPT ![c] = fault[c] \/ n < MsgLen]
      BY <2>1 DEF Deliver, Set
    <3>2. UNCHANGED <<link, up>>
      BY <2>1 DEF Deliver
    <3>3. PICK y \in Mails : mail' = [mail EXCEPT ![c] = Append(m, y)]
      <4>1. (IF n = MsgLen THEN "whole" ELSE "part") \in Mails
        BY DEF Mails
      <4>2. QED
        BY <1>3, <3>1, <4>1
    <3>4. /\ mail'[c] = Append(m, y) /\ (fault[c] => fault'[c])
          /\ \A x \in Conns \ {c} : down'[x] = down[x] /\ mail'[x] = mail[x] /\ fault'[x] = fault[x]
      BY <1>1, <3>1, <3>3 DEF NetTypes
    <3>5. Append(m, y) # <<>> /\ (Has(m, "closed") => Has(Append(m, y), "closed"))
      BY SmallMail, EndStays
    <3>6. \A x \in Conns \ {c} : SameConnection(x)
      BY <1>2, <3>2, <3>4 DEF SameConnection
    <3>7. Answering(c)'
      BY <1>1, <1>2, <1>3, <3>2, <3>4, <3>5 DEF Answering
    <3>8. QED
      BY <3>6, <3>7
  <2>2. CASE DeliverClosed(c)
    <3>1. /\ link[c] = "down" /\ link' = [link EXCEPT ![c] = "none"]
          /\ mail' = [mail EXCEPT ![c] = Append(m, "closed")]
          /\ UNCHANGED <<up, down, fault>>
      BY <1>3, <2>2 DEF DeliverClosed, Set
    <3>2. /\ link'[c] = "none" /\ mail'[c] = Append(m, "closed")
          /\ \A x \in Conns \ {c} : link'[x] = link[x] /\ mail'[x] = mail[x]
      BY <1>1, <3>1 DEF NetTypes
    <3>3. Has(Append(m, "closed"), "closed")
      <4>1. "closed" \in Mails
        BY DEF Mails
      <4>2. QED
        BY <4>1, EndStays
    <3>4. \A x \in Conns \ {c} : SameConnection(x)
      BY <1>2, <3>1, <3>2 DEF SameConnection
    <3>5. Answering(c)'
      BY <1>1, <1>2, <3>1, <3>2, <3>3 DEF Answering
    <3>6. QED
      BY <3>4, <3>5
  <2>3. CASE Fails(c)
    <3>1. /\ link[c] \in {"queued", "up"} /\ link' = [link EXCEPT ![c] = "down"]
          /\ up' = [up EXCEPT ![c] = 0] /\ down' = [down EXCEPT ![c] = 0]
          /\ fault' = [fault EXCEPT ![c] = TRUE] /\ mail' = mail
      BY <2>3 DEF Fails, Set, client
    <3>2. /\ link'[c] = "down"
          /\ \A x \in Conns \ {c} : /\ link'[x] = link[x] /\ up'[x] = up[x]
                                     /\ down'[x] = down[x] /\ fault'[x] = fault[x]
      BY <1>1, <3>1 DEF NetTypes
    <3>3. \A x \in Conns \ {c} : SameConnection(x)
      BY <1>2, <3>1, <3>2 DEF SameConnection
    <3>4. Answering(c)'
      BY <1>1, <1>2, <3>1, <3>2 DEF Answering
    <3>5. QED
      BY <3>3, <3>4
  <2>4. QED
    BY <2>1, <2>2, <2>3
<1>5. QED
  BY <1>2, <1>4, AnsweringStays

\* Every step keeps the connections in hand.
LEMMA AnsweringStep ==
  ASSUME ErlangInv, \A x \in Conns : Answering(x), [ErlangNext]_ErlangVars
  PROVE  \A x \in Conns : Answering(x)'
<1>1. LogTypes /\ NetTypes /\ ServerTypes /\ Spawned
  BY ErlangTypes DEF ErlangInv
<1>2. CASE starter
  <2>1. /\ con' = [con EXCEPT ![running + 1] = "connecting"]
        /\ UNCHANGED <<mail, acc, handler, owner, perm, link, up, down, fault>>
    BY <1>2 DEF starter, server, network, Set
  <2>2. ASSUME NEW x \in Conns
        PROVE  Answering(x)'
    <3>1. CASE x = running + 1
      <4>1. con[x] = "none" /\ con'[x] = "connecting"
        <5>1. running \in Nat
          BY <1>2, ErlangTypes, ErlangAssumption DEF ErlangInv, ClientTypes
        <5>2. x > running
          BY <3>1, <5>1
        <5>3. QED
          BY <1>1, <2>1, <3>1, <5>2 DEF Spawned, LogTypes
      <4>2. QED
        BY <2>1, <4>1 DEF Answering
    <3>2. CASE x # running + 1
      <4>1. con'[x] = con[x]
        BY <1>1, <2>1, <3>2 DEF LogTypes
      <4>2. SameConnection(x)
        BY <2>1, <4>1 DEF SameConnection
      <4>3. QED
        BY <2>1, <4>2, AnsweringStays
    <3>3. QED
      BY <3>1, <3>2
  <2>3. QED
    BY <2>2
<1>3. CASE gather_log \/ UNCHANGED ErlangVars
  <2>1. UNCHANGED <<con, mail, acc, handler, owner, perm, link, up, down, fault>>
    BY <1>3 DEF gather_log, ErlangVars, client, server, network
  <2>2. QED
    BY <2>1, AnsweringStays DEF SameConnection
<1>4. ASSUME NEW c \in Conns,
             \/ connector(c) \/ Send(c) \/ Receive(c) \/ ReceiveTimeout(c)
             \/ bind(c) \/ bind_Timeout(c)
             \/ handle_Data(c) \/ handle_Other(c) \/ handle_Timeout(c)
             \/ Deliver(c) \/ DeliverClosed(c) \/ Fails(c)
      PROVE  \A x \in Conns : Answering(x)'
  BY <1>4, ConnectorAnswering, HandlerAnswering, NetworkAnswering
<1>5. CASE controlling_process \/ SendPerm \/ AcceptFails \/ \E c \in Conns : tcp_acceptor(c)
  BY <1>5, AcceptorAnswering
<1>6. QED
  BY <1>2, <1>3, <1>4, <1>5 DEF ErlangNext

\* A connector that waits is not forgotten: as long as the client's VM runs, a
\* message is in its mailbox or on the network, its handler has something to read
\* or a perm to take, or the acceptor is on its way to it; the one exception is a
\* socket left with the acceptor by a handler that timed out before the hand-over.
\* This is what RepliesCome rests on beside fairness.
THEOREM WaitingIsAttended ==
  ErlangSpec => [](\A c \in Conns : con[c] = "waiting" /\ ~over => ReplyIsDue(c) \/ LeftBehind(c))
<1> DEFINE AllAnswering == \A c \in Conns : Answering(c)
           AllDue == \A c \in Conns : con[c] = "waiting" /\ ~over => ReplyIsDue(c) \/ LeftBehind(c)
<1>1. ErlangInit => AllAnswering
  <2>1. SUFFICES ASSUME ErlangInit, NEW c \in Conns
                 PROVE  Answering(c)
    OBVIOUS
  <2>2. con[c] = "none" /\ handler[c] = "none" /\ link[c] = "none"
    BY <2>1 DEF ErlangInit
  <2>3. QED
    BY <2>2 DEF Answering
<1>2. ErlangInv /\ AllAnswering /\ [ErlangNext]_ErlangVars => AllAnswering'
  BY AnsweringStep
<1>3. ErlangInv /\ AllAnswering => AllDue
  <2>1. SUFFICES ASSUME ErlangInv, AllAnswering, NEW c \in Conns, con[c] = "waiting", ~over
                 PROVE  ReplyIsDue(c) \/ LeftBehind(c)
    OBVIOUS
  <2>2. Answering(c) /\ LogTypes /\ NetTypes /\ ServerTypes
    BY <2>1, ErlangTypes DEF ErlangInv
  <2>3. up[c] \in Nat /\ down[c] \in Nat
    BY <2>2, ErlangAssumption DEF NetTypes
  <2>4. (up[c] # 0 => up[c] > 0) /\ (down[c] # 0 => down[c] > 0)
    BY <2>3
  <2>5. link[c] \in {"none", "queued", "up", "down"} /\ handler[c] \in {"none", "bind", "handle", "ended"}
        /\ acc.pc \in {"accept", "control", "perm", "ended"}
    BY <2>2 DEF NetTypes, ServerTypes, Links, Handlers, Acceptor
  <2>6. CASE link[c] = "none"
    <3>1. mail[c] \in Seq(Mails) /\ "closed" \in Mails
      BY <2>2 DEF NetTypes, Mails
    <3>2. mail[c] # <<>>
      BY <2>1, <2>2, <2>6, <3>1, EndStays DEF Answering
    <3>3. QED
      BY <3>2 DEF ReplyIsDue
  <2>7. CASE link[c] = "down"
    BY <2>7 DEF ReplyIsDue
  <2>8. CASE link[c] = "queued"
    BY <2>2, <2>5, <2>8 DEF Answering, ReplyIsDue
  <2>9. CASE link[c] = "up"
    <3>1. mail[c] # <<>> \/ up[c] > 0 \/ down[c] > 0
      BY <2>1, <2>2, <2>4, <2>9 DEF Answering
    <3>2. CASE handler[c] = "handle"
      BY <3>1, <3>2 DEF ReplyIsDue
    <3>3. CASE handler[c] = "bind"
      BY <2>2, <3>3 DEF Answering, ReplyIsDue
    <3>4. CASE handler[c] = "ended"
      BY <2>2, <2>9, <3>4 DEF Answering, LeftBehind
    <3>5. QED
      BY <2>2, <2>5, <2>9, <3>2, <3>3, <3>4 DEF Answering
  <2>10. QED
    BY <2>5, <2>6, <2>7, <2>8, <2>9
<1>4. ErlangInit => ErlangInv
  BY ErlangStarts
<1>5. ErlangInv /\ [ErlangNext]_ErlangVars => ErlangInv'
  BY ErlangStep
<1> HIDE DEF AllAnswering, AllDue
<1>6. ErlangSpec => []AllDue
  BY <1>1, <1>2, <1>3, <1>4, <1>5, PTL DEF ErlangSpec
<1>7. QED
  BY <1>6 DEF AllDue

=============================================================================
