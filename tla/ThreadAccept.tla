--------------------------- MODULE ThreadAccept ---------------------------
(***************************************************************************)
(* The process around the connections of the c-bachan servers.             *)
(* thread-honest.c and thread.c have one listening socket and one libev    *)
(* loop per core, every loop with an accept watcher on the same            *)
(* descriptor.  One connection wakes every loop that is polling;           *)
(* accept_mtx lets them into accept one at a time and all but one find the *)
(* queue empty.  server-honest.c and server.c have main's loop alone and   *)
(* no mutex.                                                               *)
(*                                                                         *)
(* A connection after echo_client_add is what HonestConn and PlainConn     *)
(* model; here it only ends.  EV_ERROR, the first test of                  *)
(* echo_server_wcb_accept, needs a descriptor closed under the watcher and *)
(* nothing closes the listening socket.                                    *)
(***************************************************************************)
EXTENDS Integers, Sequences, FiniteSets

CONSTANTS
  Threads,     \* the threads besides main, in the order main creates them
  Conns,       \* the connections the peers open
  Backlog,     \* LISTEN_BACKLOG
  MaxFds       \* descriptors the process may hold for connections

Main    == "main"
Loops   == {Main} \union {Threads[i] : i \in 1..Len(Threads)}
NoConn  == "no conn"
Free    == "free"

ASSUME ThreadAssumption ==
  /\ Len(Threads) \in Nat
  /\ \A i, j \in 1..Len(Threads) : Threads[i] = Threads[j] => i = j
  /\ Main \notin {Threads[i] : i \in 1..Len(Threads)}
  /\ NoConn \notin Conns /\ Free \notin Loops
  /\ Backlog \in Nat \ {0} /\ MaxFds \in Nat

VARIABLES
  program,     \* "threads" or "one loop": which kind of server runs
  mainpc,      \* "listen", "create", "run" or "exited": where main is
  created,     \* how many threads pthread_create has started
  pc,          \* of each loop: "none", "poll", "woken", "locked", "unlock", "got"
  accept_mtx,  \* the loop that holds the mutex, or Free
  sd,          \* of each loop: the local sd, a connection or NoConn for -1
  queue,       \* the connections waiting in the listening socket
  arrived,     \* the connections the peers have opened so far
  clients,     \* of each loop: the connections with an echo_client_t in it
  leaked       \* accepted connections nobody refers to any more

vars == <<program, mainpc, created, pc, accept_mtx, sd, queue, arrived, clients, leaked>>

Alive   == mainpc # "exited"
InHand  == {sd[t] : t \in Loops} \ {NoConn}
Served  == UNION {clients[t] : t \in Loops}
OpenFds == InHand \union Served \union leaked
Queued(c) == \E i \in 1..Len(queue) : queue[i] = c

\* The socket does not block: with nothing in the queue (EAGAIN) or no
\* descriptor left (EMFILE) accept returns -1.
CanAccept == queue # <<>> /\ Cardinality(OpenFds) < MaxFds

-----------------------------------------------------------------------------
Init ==
  /\ program \in {"threads", "one loop"}
  /\ mainpc = "listen" /\ created = 0
  /\ pc = [t \in Loops |-> "none"]
  /\ accept_mtx = Free
  /\ sd = [t \in Loops |-> NoConn]
  /\ queue = <<>> /\ arrived = {}
  /\ clients = [t \in Loops |-> {}]
  /\ leaked = {}

\* The process ends: its threads, its connections and its socket go with it.
Exit ==
  /\ mainpc' = "exited"
  /\ pc' = [t \in Loops |-> "none"]
  /\ accept_mtx' = Free
  /\ sd' = [t \in Loops |-> NoConn]
  /\ queue' = <<>>
  /\ clients' = [t \in Loops |-> {}]
  /\ leaked' = {}
  /\ UNCHANGED <<program, created, arrived>>

echo_socket_listen ==
  /\ program = "threads" /\ mainpc = "listen"
  /\ \/ /\ mainpc' = "create"
        /\ UNCHANGED <<program, created, pc, accept_mtx, sd, queue, arrived, clients, leaked>>
     \/ Exit

\* main creates the threads and then becomes a loop itself; a pthread_create
\* that fails makes it return, however many loops are already serving.
pthread_create ==
  /\ mainpc = "create" /\ created < Len(Threads)
  /\ \/ /\ created' = created + 1
        /\ pc' = [pc EXCEPT ![Threads[created + 1]] = "poll"]
        /\ UNCHANGED <<program, mainpc, accept_mtx, sd, queue, arrived, clients, leaked>>
     \/ Exit

main_thread_func ==
  /\ mainpc = "create" /\ created = Len(Threads)
  /\ mainpc' = "run"
  /\ pc' = [pc EXCEPT ![Main] = "poll"]
  /\ UNCHANGED <<program, created, accept_mtx, sd, queue, arrived, clients, leaked>>

\* The one-loop servers listen, start the accept watcher and run the loop.
echo_server_listen ==
  /\ program = "one loop" /\ mainpc = "listen"
  /\ \/ /\ mainpc' = "run"
        /\ pc' = [pc EXCEPT ![Main] = "poll"]
        /\ UNCHANGED <<program, created, accept_mtx, sd, queue, arrived, clients, leaked>>
     \/ Exit

-----------------------------------------------------------------------------
(* echo_server_wcb_accept of the threads, one action per step the other    *)
(* threads can see.                                                        *)

Wake(t) ==
  /\ pc[t] = "poll" /\ queue # <<>>
  /\ pc' = [pc EXCEPT ![t] = "woken"]
  /\ UNCHANGED <<program, mainpc, created, accept_mtx, sd, queue, arrived, clients, leaked>>

pthread_mutex_lock(t) ==
  /\ program = "threads" /\ pc[t] = "woken" /\ accept_mtx = Free
  /\ accept_mtx' = t
  /\ pc' = [pc EXCEPT ![t] = "locked"]
  /\ UNCHANGED <<program, mainpc, created, sd, queue, arrived, clients, leaked>>

\* Mutants of accept: sd is shared by the loops; a failed accept returns from
\* the callback before the unlock.
accept_SharedSd(t) ==
  /\ pc[t] = "locked"
  /\ pc' = [pc EXCEPT ![t] = "unlock"]
  /\ IF ~CanAccept
       THEN UNCHANGED <<sd, queue>>
       ELSE /\ sd' = [u \in Loops |-> IF pc[u] = "got" \/ u = t THEN Head(queue) ELSE sd[u]]
            /\ queue' = Tail(queue)
  /\ UNCHANGED <<program, mainpc, created, accept_mtx, arrived, clients, leaked>>

accept_NoUnlock(t) ==
  /\ pc[t] = "locked"
  /\ IF ~CanAccept
       THEN /\ pc' = [pc EXCEPT ![t] = "poll"]
            /\ UNCHANGED <<sd, queue>>
       ELSE /\ pc' = [pc EXCEPT ![t] = "unlock"]
            /\ sd' = [sd EXCEPT ![t] = Head(queue)]
            /\ queue' = Tail(queue)
  /\ UNCHANGED <<program, mainpc, created, accept_mtx, arrived, clients, leaked>>

accept(t) ==
  /\ pc[t] = "locked"
  /\ pc' = [pc EXCEPT ![t] = "unlock"]
  /\ IF ~CanAccept
       THEN UNCHANGED <<sd, queue>>
       ELSE /\ sd' = [sd EXCEPT ![t] = Head(queue)]
            /\ queue' = Tail(queue)
  /\ UNCHANGED <<program, mainpc, created, accept_mtx, arrived, clients, leaked>>

\* The unlock and the test of accept's result.
pthread_mutex_unlock(t) ==
  /\ pc[t] = "unlock"
  /\ accept_mtx' = Free
  /\ pc' = [pc EXCEPT ![t] = IF sd[t] = NoConn THEN "poll" ELSE "got"]
  /\ UNCHANGED <<program, mainpc, created, sd, queue, arrived, clients, leaked>>

\* aux_set_nonblk and the malloc of echo_client_add may fail; the callback
\* then returns and the descriptor is never closed.
AddOrLeak(t, c) ==
  \/ /\ clients' = [clients EXCEPT ![t] = @ \union {c}]
     /\ UNCHANGED leaked
  \/ /\ leaked' = leaked \union {c}
     /\ UNCHANGED clients

Accepted(t) ==
  /\ pc[t] = "got"
  /\ pc' = [pc EXCEPT ![t] = "poll"]
  /\ sd' = [sd EXCEPT ![t] = NoConn]
  /\ AddOrLeak(t, sd[t])
  /\ UNCHANGED <<program, mainpc, created, accept_mtx, queue, arrived>>

\* The whole callback of the one-loop servers.
echo_server_wcb_accept ==
  /\ program = "one loop" /\ pc[Main] = "woken"
  /\ pc' = [pc EXCEPT ![Main] = "poll"]
  /\ IF ~CanAccept
       THEN UNCHANGED <<queue, clients, leaked>>
       ELSE /\ queue' = Tail(queue)
            /\ AddOrLeak(Main, Head(queue))
  /\ UNCHANGED <<program, mainpc, created, accept_mtx, sd, arrived>>

\* A callback of one of the loop's own connections deletes it; it may run in
\* the same iteration as the accept callback, before it.
ClientEnds(t) ==
  /\ pc[t] \in {"poll", "woken"}
  /\ \E c \in clients[t] : clients' = [clients EXCEPT ![t] = @ \ {c}]
  /\ UNCHANGED <<program, mainpc, created, pc, accept_mtx, sd, queue, arrived, leaked>>

-----------------------------------------------------------------------------
(* The peers.  The kernel drops what does not fit the queue, and takes     *)
(* back a connection the peer gives up before it is accepted.              *)

PeerConnects(c) ==
  /\ Alive /\ mainpc # "listen"
  /\ c \notin arrived
  /\ arrived' = arrived \union {c}
  /\ queue' = IF Len(queue) < Backlog THEN Append(queue, c) ELSE queue
  /\ UNCHANGED <<program, mainpc, created, pc, accept_mtx, sd, clients, leaked>>

PeerGivesUp(c) ==
  /\ \E i \in 1..Len(queue) :
       /\ queue[i] = c
       /\ queue' = SubSeq(queue, 1, i - 1) \o SubSeq(queue, i + 1, Len(queue))
  /\ UNCHANGED <<program, mainpc, created, pc, accept_mtx, sd, arrived, clients, leaked>>

LoopStep(t) ==
  \/ Wake(t) \/ pthread_mutex_lock(t) \/ accept(t)
  \/ pthread_mutex_unlock(t) \/ Accepted(t)

Next ==
  \/ echo_socket_listen \/ pthread_create \/ main_thread_func
  \/ echo_server_listen \/ echo_server_wcb_accept
  \/ \E t \in Loops : LoopStep(t) \/ ClientEnds(t)
  \/ \E c \in Conns : PeerConnects(c) \/ PeerGivesUp(c)

Spec == Init /\ [][Next]_vars

\* Every thread is scheduled; the mutex need not be fair.
FairSpec ==
  /\ Spec
  /\ WF_vars(echo_server_wcb_accept)
  /\ WF_vars(pthread_create) /\ WF_vars(main_thread_func)
  /\ \A t \in Loops : WF_vars(LoopStep(t))

-----------------------------------------------------------------------------
TypeOK ==
  /\ program \in {"threads", "one loop"}
  /\ mainpc \in {"listen", "create", "run", "exited"}
  /\ created \in 0..Len(Threads)
  /\ pc \in [Loops -> {"none", "poll", "woken", "locked", "unlock", "got"}]
  /\ accept_mtx \in Loops \union {Free}
  /\ sd \in [Loops -> Conns \union {NoConn}]
  /\ queue \in Seq(Conns) /\ arrived \subseteq Conns
  /\ clients \in [Loops -> SUBSET Conns] /\ leaked \subseteq Conns

\* The variables keep their types, and an accepted connection belongs to one
\* loop: two loops woken for the same connection never both end up with it,
\* neither in hand nor as a client, and it is not in the queue any more.
OneOwner ==
  /\ TypeOK
  /\ \A t, u \in Loops : t # u =>
       /\ sd[t] = NoConn \/ sd[t] # sd[u]
       /\ clients[t] \intersect clients[u] = {}
       /\ sd[t] \notin clients[u]
  /\ \A t \in Loops : sd[t] \notin clients[t]
  /\ leaked \intersect (Served \union InHand) = {}
  /\ \A c \in OpenFds : ~Queued(c)

\* A connection in the queue is not forgotten: it is accepted or given up, or
\* the descriptors run out, or the process ends.  No interleaving of the woken
\* loops loses the wakeup.
QueueIsServed ==
  \A c \in Conns :
    Queued(c) ~> (~Queued(c) \/ Cardinality(OpenFds) = MaxFds)

=============================================================================
