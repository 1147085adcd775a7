---------------------------- MODULE VirtanStats ----------------------------
(***************************************************************************)
(* How the load client of client-c++-virtan opens its connections and      *)
(* counts them.  Every connection_handler belongs to one io_service, and   *)
(* each io_service is run by one thread.  A handler's timer bears the next *)
(* handler: its constructor runs in the thread of its parent, while its    *)
(* own handlers run in the thread of the next service and may overtake the *)
(* end of the constructor.  The counters are shared; each is changed by an *)
(* atomic instruction, but nothing ties two of them together, and main     *)
(* reads them while they change.  After its last print main returns, and   *)
(* with it every thread ends, whatever is still under way.                 *)
(*                                                                         *)
(* What a connection does once it is connected is modelled in              *)
(* VirtanExchange.  No timer is ever cancelled here, so the assert(!e) of  *)
(* new_connection_handler has nothing to fire on.                          *)
(***************************************************************************)
EXTENDS Integers, FiniteSets

CONSTANTS
  ClientsMax,    \* clients_max
  NumThreads,    \* threads_: how many services and threads there are
  Wrap,          \* the size_t counters are taken modulo Wrap
  Rounds         \* how often main's loop prints before the final print, 12

ASSUME StatsAssumption ==
  /\ ClientsMax \in Nat \ {0}
  /\ NumThreads \in Nat \ {0}
  /\ Wrap \in Nat /\ Wrap > ClientsMax + 1
  /\ Rounds \in Nat

Main     == NumThreads             \* the main thread; 0..NumThreads-1 run services
Runners  == 0..NumThreads
Ids      == 0..ClientsMax          \* service_id of the handlers that are born
Service(id) == id % NumThreads     \* services[service_id % threads_]
Idle     == [op |-> "idle", id |-> 0]

VARIABLES
  services_i,         \* the next service_id
  children, connection_active, connection_errors,
  job,                \* what each thread is executing: the operation and its handler
  conn,               \* of each handler: "none", "connecting", "ended", "ok", "errored"
  bear,               \* of each handler: the bear_tmr, "off", "waiting" or "fired"
  seen,               \* main: the values print_stat has read for the average, and
                      \* which one first
  stage,              \* main: at the "average", at the final "line" or "returned"
  prints,             \* main: how often its loop has printed
  final               \* main: the values read for the final line, and which one first

counters == <<children, connection_active, connection_errors>>
main     == <<stage, prints, final>>
vars     == <<services_i, counters, job, conn, bear, seen, main>>

Unread   == -1
NothingRead == [children |-> Unread, errors |-> Unread, first |-> "none"]
NoTotal  == [errors |-> Unread, active |-> Unread, first |-> "none"]
Plus(n)  == (n + 1) % Wrap         \* __sync_fetch_and_add(&n, 1)
Minus(n) == (n + Wrap - 1) % Wrap  \* __sync_fetch_and_sub(&n, 1)

-----------------------------------------------------------------------------
Init ==
  /\ services_i = 0
  /\ children = 0 /\ connection_active = 0 /\ connection_errors = 0
  /\ job = [r \in Runners |-> IF r = Main THEN [op |-> "new", id |-> 0] ELSE Idle]
  /\ conn = [i \in Ids |-> "none"]
  /\ bear = [i \in Ids |-> "off"]
  /\ seen = NothingRead
  /\ stage = "average" /\ prints = 0 /\ final = NoTotal

Goto(r, op) == job' = [job EXCEPT ![r].op = op]
Return(r)   == job' = [job EXCEPT ![r] = Idle]

(* The constructor, in thread r.                                           *)

\* The fetch-and-add hands out the service_id; a handler beyond clients_max
\* does nothing more, and with it the chain of births ends.
TakeId(r) ==
  /\ job[r].op = "new"
  /\ services_i' = services_i + 1
  /\ job' = [job EXCEPT ![r] =
       IF services_i >= ClientsMax THEN Idle ELSE [op |-> "wait", id |-> services_i]]
  /\ UNCHANGED <<counters, conn, bear, seen, main>>

\* Mutant of StartBearTimer: the handler bears no successor.
StartBearTimer_Skipped(r) ==
  /\ job[r].op = "wait"
  /\ Goto(r, "count")
  /\ UNCHANGED <<services_i, counters, conn, bear, seen, main>>

StartBearTimer(r) ==
  /\ job[r].op = "wait"
  /\ bear' = [bear EXCEPT ![job[r].id] = "waiting"]
  /\ Goto(r, "count")
  /\ UNCHANGED <<services_i, counters, conn, seen, main>>

CountActive(r) ==
  /\ job[r].op = "count"
  /\ connection_active' = Plus(connection_active)
  /\ Goto(r, "connect")
  /\ UNCHANGED <<services_i, children, connection_errors, conn, bear, seen, main>>

StartConnect(r) ==
  /\ job[r].op = "connect"
  /\ conn' = [conn EXCEPT ![job[r].id] = "connecting"]
  /\ Return(r)
  /\ UNCHANGED <<services_i, counters, bear, seen, main>>

-----------------------------------------------------------------------------
(* The handlers, run by the thread of the handler's service when it is     *)
(* idle.                                                                   *)

new_connection_handler(id) ==
  /\ bear[id] = "waiting" /\ job[Service(id)] = Idle
  /\ bear' = [bear EXCEPT ![id] = "fired"]
  /\ job' = [job EXCEPT ![Service(id)] = [op |-> "new", id |-> 0]]
  /\ UNCHANGED <<services_i, counters, conn, seen, main>>

\* Mutant of connect: it does not count the child.
connect_NoChild(id) ==
  /\ conn[id] = "connecting" /\ job[Service(id)] = Idle
  /\ conn' = [conn EXCEPT ![id] = "ended"]
  /\ job' = [job EXCEPT ![Service(id)] = [op |-> "active", id |-> id]]
  /\ UNCHANGED <<services_i, counters, bear, seen, main>>

\* connect(e) begins: it counts the child.
connect(id) ==
  /\ conn[id] = "connecting" /\ job[Service(id)] = Idle
  /\ conn' = [conn EXCEPT ![id] = "ended"]
  /\ children' = Plus(children)
  /\ job' = [job EXCEPT ![Service(id)] = [op |-> "active", id |-> id]]
  /\ UNCHANGED <<services_i, connection_active, connection_errors, bear, seen, main>>

\* Mutant of connect_Leaves: a failed connection is counted as an error before
\* it has left the active ones, and returns.
connect_Leaves_NotOnError(r) ==
  /\ job[r].op = "active"
  /\ \/ Goto(r, "error") /\ UNCHANGED <<connection_active, conn>>
     \/ /\ connection_active' = Minus(connection_active)
        /\ Return(r) /\ conn' = [conn EXCEPT ![job[r].id] = "ok"]
  /\ UNCHANGED <<services_i, children, connection_errors, bear, seen, main>>

\* Then it leaves the active ones; the connection failed or took longer than
\* client_timeout_mcs, or is good.
connect_Leaves(r) ==
  /\ job[r].op = "active"
  /\ connection_active' = Minus(connection_active)
  /\ \/ Goto(r, "error") /\ UNCHANGED conn
     \/ Return(r) /\ conn' = [conn EXCEPT ![job[r].id] = "ok"]
  /\ UNCHANGED <<services_i, children, connection_errors, bear, seen, main>>

connect_Errors(r) ==
  /\ job[r].op = "error"
  /\ connection_errors' = Plus(connection_errors)
  /\ conn' = [conn EXCEPT ![job[r].id] = "errored"]
  /\ Return(r)
  /\ UNCHANGED <<services_i, children, connection_active, bear, seen, main>>

-----------------------------------------------------------------------------
(* main: print_stat reads the counters one by one.  The operands of        *)
(* children - connection_errors, and in the final line those of            *)
(* connection_errors + connection_active, are read in the order the        *)
(* compiler likes.                                                         *)

First(read, counter) == IF read.first = "none" THEN counter ELSE read.first

ReadChildren ==
  /\ job[Main] = Idle /\ stage = "average" /\ seen.children = Unread
  /\ seen' = [seen EXCEPT !.children = children, !.first = First(seen, "children")]
  /\ UNCHANGED <<services_i, counters, job, conn, bear, main>>

ReadErrors ==
  /\ job[Main] = Idle /\ stage = "average" /\ seen.errors = Unread
  /\ seen' = [seen EXCEPT !.errors = connection_errors, !.first = First(seen, "errors")]
  /\ UNCHANGED <<services_i, counters, job, conn, bear, main>>

HaveRead == seen.children # Unread /\ seen.errors # Unread
Good     == (seen.children + Wrap - seen.errors) % Wrap
Divisor  == IF Good >= 1 THEN Good ELSE 1     \* max(children - errors, 1)

\* The average is computed.  In the loop the line is printed and the next round
\* begins; the final print goes on to the sum in its line.
PrintStat ==
  /\ HaveRead
  /\ seen' = NothingRead
  /\ IF prints < Rounds
       THEN prints' = prints + 1 /\ UNCHANGED stage
       ELSE stage' = "line" /\ UNCHANGED prints
  /\ UNCHANGED <<services_i, counters, job, conn, bear, final>>

ReadFinalErrors ==
  /\ stage = "line" /\ final.errors = Unread
  /\ final' = [final EXCEPT !.errors = connection_errors, !.first = First(final, "errors")]
  /\ UNCHANGED <<services_i, counters, job, conn, bear, seen, stage, prints>>

ReadFinalActive ==
  /\ stage = "line" /\ final.active = Unread
  /\ final' = [final EXCEPT !.active = connection_active, !.first = First(final, "active")]
  /\ UNCHANGED <<services_i, counters, job, conn, bear, seen, stage, prints>>

HaveTotal == final.errors # Unread /\ final.active # Unread
Total     == (final.errors + final.active) % Wrap

\* The final line is printed and main returns.
FinalPrint ==
  /\ stage = "line" /\ HaveTotal
  /\ stage' = "returned"
  /\ UNCHANGED <<services_i, counters, job, conn, bear, seen, prints, final>>

\* No thread takes another step once main has returned.
ServiceStep(r) ==
  /\ stage # "returned"
  /\ \/ TakeId(r) \/ StartBearTimer(r) \/ CountActive(r) \/ StartConnect(r)
     \/ connect_Leaves(r) \/ connect_Errors(r)
     \/ \E id \in Ids : Service(id) = r /\ (new_connection_handler(id) \/ connect(id))

Next ==
  \/ \E r \in Runners : ServiceStep(r)
  \/ ReadChildren \/ ReadErrors \/ PrintStat
  \/ ReadFinalErrors \/ ReadFinalActive \/ FinalPrint

Spec == Init /\ [][Next]_vars

\* Every service thread runs its handlers as long as the program runs; the timers
\* expire and every connect ends, in failure if the kernel gives up.  Nothing is
\* assumed of when main prints or returns.
FairSpec ==
  /\ Spec
  /\ \A r \in Runners : WF_vars(ServiceStep(r))

-----------------------------------------------------------------------------
TypeOK ==
  /\ services_i \in 0..(ClientsMax + 1)
  /\ {children, connection_active, connection_errors} \subseteq 0..(Wrap - 1)
  /\ job \in [Runners -> [op : {"idle", "new", "wait", "count", "connect", "active", "error"},
                          id : Ids]]
  /\ conn \in [Ids -> {"none", "connecting", "ended", "ok", "errored"}]
  /\ bear \in [Ids -> {"off", "waiting", "fired"}]
  /\ seen \in [children : -1..(Wrap - 1), errors : -1..(Wrap - 1),
               first : {"none", "children", "errors"}]
  /\ stage \in {"average", "line", "returned"} /\ prints \in 0..Rounds
  /\ final \in [errors : -1..(Wrap - 1), active : -1..(Wrap - 1),
                first : {"none", "errors", "active"}]

Running(op) == {r \in Runners : job[r].op = op}
With(s)     == {i \in Ids : conn[i] = s}

\* The variables keep their types, and the counters agree with the connections
\* whichever thread is ahead.  A connection is active from the constructor's add
\* to the connect handler's subtract, which may overtake the rest of the
\* constructor but never the add, so connection_active does not wrap below zero;
\* every connection that ends is one child and at most one error.
CountersAreExact ==
  /\ TypeOK
  /\ connection_active = Cardinality(Running("connect")) + Cardinality(With("connecting"))
                           + Cardinality(Running("active"))
  /\ children = Cardinality(With("ended")) + Cardinality(With("ok")) + Cardinality(With("errored"))
  /\ connection_errors = Cardinality(With("errored"))

Settled == \A i \in 0..(ClientsMax - 1) : conn[i] \in {"ok", "errored"}

\* All clients_max connections are opened, and every one of them ends up
\* connected or counted as an error, unless main, which waits a minute and for
\* no connection, returns before that.
AllConnectionsSettle == <>[](Settled \/ stage = "returned")

\* What print_stat computes from two counters it reads one after the other is
\* sound, provided the compiler has it read connection_errors first.  The total
\* connection time is divided by a number of connections: a connection is counted
\* as a child before it is counted as an error.  And the final line, which counts
\* the connections still active as errors, counts none of them twice: a connection
\* leaves the active ones before it is counted as an error.
ErrorsFirstIsSound ==
  /\ HaveRead /\ seen.first = "errors" => Divisor <= ClientsMax
  /\ HaveTotal /\ final.first = "errors" => Total <= ClientsMax

=============================================================================
