---------------------------- MODULE BachanClient ----------------------------
(***************************************************************************)
(* The load client c-bachan/client.c: the ramp that adds clients and one   *)
(* of the clients it adds, with its four watchers, the requests it owes    *)
(* and the latency samples it hands to the statistics.                     *)
(*                                                                         *)
(* A callback is one action.  libev fixes the order of the callbacks of an *)
(* iteration; here every order is allowed.  ev_now does not move within an *)
(* iteration.  Of a byte on its way only the time of its send matters.     *)
(***************************************************************************)
EXTENDS Integers, Sequences

CONSTANTS
  ReqLen,      \* sizeof(REQUEST) - 1, 3
  RecvSize,    \* the 4096 bytes of buf
  Interval,    \* RESEND_INTERVAL, in clock ticks
  MaxClients,  \* MAX_CLIENTS
  SndCap,      \* external: bytes the path to the server holds
  MaxTime      \* bound: the clock stops here

ASSUME ClientAssumption ==
  /\ ReqLen \in Nat \ {0} /\ RecvSize \in Nat \ {0} /\ Interval \in Nat \ {0}
  /\ MaxClients \in Nat /\ SndCap \in Nat \ {0} /\ MaxTime \in Nat \ {0}

VARIABLES
  running,            \* the loop has not been broken
  number_of_clients,  \* adds tried
  wev_silent,         \* the ramp's timer is started
  state,              \* the client: "none", "live", "freed" or "failed"
  active, pending,    \* its started watchers; those owed a callback
  tev_read,           \* the event owed to wev_connect includes EV_READ
  spurious,           \* nothing was there to read for the latest EV_READ
  due,                \* when wev_timeout expires
  to_send,            \* requests owed
  ts,                 \* time of the latest send
  now,                \* ev_now
  sample,             \* the latest sample: its value and what it measured
  net,                \* external: "none", "syn", "est", "fin" or "err"
  stream,             \* send times of the bytes sent and not yet received
  ready               \* how many of them have come back to the socket

ramp   == <<number_of_clients, wev_silent>>
client == <<state, active, pending, tev_read, spurious, due, to_send, ts>>
path   == <<net, stream, ready>>
vars   == <<running, ramp, client, now, sample, path>>

Least(a, b) == IF a <= b THEN a ELSE b
Watchers    == {"recv", "send", "connect", "timeout"}
Free        == SndCap - (Len(stream) - ready)
Readable    == ready > 0 \/ net \in {"fin", "err"}
Writable    == net = "err" \/ (net \in {"est", "fin"} /\ Free > 0)

Init ==
  /\ running = TRUE
  /\ number_of_clients = 0 /\ wev_silent = TRUE
  /\ state = "none" /\ active = {} /\ pending = {}
  /\ tev_read = FALSE /\ spurious = FALSE
  /\ due = 0 /\ to_send = 0 /\ ts = 0
  /\ now = 1
  /\ sample = [took |-> 0, real |-> 0, reply |-> TRUE, last |-> TRUE, spurious |-> FALSE]
  /\ net = "none" /\ stream = <<>> /\ ready = 0

-----------------------------------------------------------------------------
(* The ramp.                                                               *)

\* calloc, socket, fcntl or connect may fail; connect may also succeed at once.
client_add ==
  \/ /\ state' = "live"
     /\ active' = {"timeout", "connect"}
     /\ due' = now + Interval
     /\ net' \in {"syn", "est"}
  \/ /\ state' = "failed"
     /\ UNCHANGED <<active, due, net>>

RampIsOver == number_of_clients >= MaxClients

\* The client followed here is any one of those added.
wcb_silent ==
  /\ running /\ wev_silent
  /\ number_of_clients' = number_of_clients + 1
  /\ \/ /\ RampIsOver
        /\ wev_silent' = FALSE
        /\ UNCHANGED <<state, active, due, net>>
     \/ /\ ~RampIsOver
        /\ \/ state = "none" /\ client_add
           \/ UNCHANGED <<state, active, due, net>>
        /\ UNCHANGED wev_silent
  /\ UNCHANGED <<running, pending, tev_read, spurious, to_send, ts, now, sample, stream, ready>>

\* The callbacks already owed are still made.
wcb_exit ==
  /\ running /\ running' = FALSE
  /\ UNCHANGED <<ramp, client, now, sample, path>>

-----------------------------------------------------------------------------
(* The callbacks of the client.                                            *)

\* Mutant of client_del: wev_connect is left started.
client_del_KeepsConnect ==
  /\ state' = "freed"
  /\ active' = active \intersect {"connect"}
  /\ pending' = pending \intersect {"connect"}

client_del ==
  /\ state' = "freed"
  /\ active' = {} /\ pending' = {}

Called(w) == w \in pending /\ pending' = pending \ {w}

\* Also before the connection is there.
wcb_timeout ==
  /\ Called("timeout")
  /\ to_send' = to_send + 1
  /\ active' = active \union {"send"}
  /\ UNCHANGED <<running, ramp, state, tev_read, spurious, due, ts, now, sample, path>>

\* Mutant of Connected: wev_connect is not stopped.
Connected_Watched ==
  /\ Called("connect") /\ ~tev_read
  /\ to_send' = 1
  /\ active' = active \union {"send", "recv"}
  /\ UNCHANGED state

\* The requests the timer asked for in the meantime are forgotten.
Connected ==
  /\ Called("connect") /\ ~tev_read
  /\ to_send' = 1
  /\ active' = (active \ {"connect"}) \union {"send", "recv"}
  /\ UNCHANGED state

wcb_connect ==
  /\ \/ Connected
     \/ /\ "connect" \in pending /\ tev_read
        /\ client_del
        /\ UNCHANGED to_send
  /\ UNCHANGED <<running, ramp, tev_read, spurious, due, ts, now, sample, path>>

\* n sends of a request each, as many bytes of them as the path has room for:
\* a short send counts as a send, a send with no room at all fails.
SendsFit(n)  == n = 0 \/ (net # "err" /\ (n - 1) * ReqLen < Free)
SentBytes(n) == IF net = "err" THEN 0 ELSE Least(n * ReqLen, Free)

\* Mutant of Stamp: the time is taken only of the first request.
Stamp_First == ts' = IF ts = 0 THEN now ELSE ts

Stamp == ts' = now

client_send(n) ==
  /\ stream' = stream \o [i \in 1..SentBytes(n) |-> now]
  /\ IF n > 0 THEN Stamp ELSE UNCHANGED ts

\* Mutant of wcb_send: the watcher is stopped after one request.
wcb_send_One ==
  /\ "send" \in pending /\ to_send > 0 /\ SendsFit(1)
  /\ client_send(1)
  /\ Called("send")
  /\ to_send' = to_send - 1
  /\ active' = active \ {"send"}
  /\ UNCHANGED <<running, ramp, state, tev_read, spurious, due, now, sample, net, ready>>

wcb_send ==
  /\ "send" \in pending
  /\ client_send(to_send)
  /\ \/ /\ SendsFit(to_send)
        /\ Called("send")
        /\ to_send' = 0
        /\ active' = active \ {"send"}
        /\ UNCHANGED state
     \/ /\ ~SendsFit(to_send)
        /\ client_del
        /\ UNCHANGED to_send
  /\ UNCHANGED <<running, ramp, tev_read, spurious, due, now, sample, net, ready>>

\* The sample is taken before the result of recv is looked at.  With it, whether
\* it is of a reply, whether no other byte is under way, and the event it is for.
Sample(real, reply, last) ==
  sample' = [took |-> now - ts, real |-> real, reply |-> reply, last |-> last,
             spurious |-> spurious]

RecvReply ==
  LET nb == Least(ready, RecvSize)
  IN  /\ nb > 0
      /\ Sample(now - stream[nb], TRUE, nb = Len(stream))
      /\ stream' = SubSeq(stream, nb + 1, Len(stream))
      /\ ready' = ready - nb
      /\ Called("recv")
      /\ UNCHANGED <<state, active>>

\* EAGAIN and the end of the stream both return; the latter again and again.
RecvNothing ==
  /\ ready = 0 /\ net \in {"est", "fin"}
  /\ Sample(0, FALSE, FALSE)
  /\ Called("recv")
  /\ UNCHANGED <<state, active, stream, ready>>

RecvFails ==
  /\ net = "err"
  /\ Sample(0, FALSE, FALSE)
  /\ client_del
  /\ UNCHANGED <<stream, ready>>

wcb_recv ==
  /\ "recv" \in pending
  /\ RecvReply \/ RecvNothing \/ RecvFails
  /\ UNCHANGED <<running, ramp, tev_read, spurious, due, to_send, ts, now, net>>

-----------------------------------------------------------------------------
(* The loop, the clock and the server.                                     *)

Ready ==
  {w \in active : \/ w = "recv" /\ Readable
                  \/ w = "send" /\ Writable
                  \/ w = "connect" /\ (Readable \/ Writable)
                  \/ w = "timeout" /\ now >= due}

\* One iteration of the loop that owes the callbacks of these watchers.
Iteration(watchers) ==
  /\ running /\ state = "live" /\ pending = {}
  /\ watchers # {}
  /\ pending' = watchers
  /\ due' = IF "timeout" \notin Ready THEN due
            ELSE IF due + Interval < now THEN now ELSE due + Interval
  /\ UNCHANGED <<running, ramp, state, active, to_send, ts, now, sample, path>>

Poll ==
  /\ Iteration(Ready)
  /\ tev_read' = Readable /\ spurious' = FALSE

\* Readiness is only a hint (wcb_recv handles EAGAIN): the descriptor is reported
\* readable, to wev_connect as well, when there is nothing to read.
SpuriousPoll ==
  /\ ~Readable /\ active \intersect {"recv", "connect"} # {}
  /\ Iteration(Ready \union (active \intersect {"recv", "connect"}))
  /\ tev_read' = TRUE /\ spurious' = TRUE

Tick ==
  /\ running /\ pending = {}
  /\ now < MaxTime
  /\ now' = now + 1
  /\ UNCHANGED <<running, ramp, client, sample, path>>

ServerConnects ==
  /\ net = "syn"
  /\ net' \in {"est", "err"}
  /\ UNCHANGED <<stream, ready>>

ServerEchoes ==
  /\ net = "est" /\ ready < Len(stream)
  /\ ready' = ready + 1
  /\ UNCHANGED <<net, stream>>

ServerCloses ==
  /\ net = "est" /\ net' = "fin"
  /\ UNCHANGED <<stream, ready>>

ConnectionFails ==
  /\ net \in {"est", "fin"} /\ net' = "err"
  /\ UNCHANGED <<stream, ready>>

Server ==
  /\ state = "live"
  /\ ServerConnects \/ ServerEchoes \/ ServerCloses \/ ConnectionFails
  /\ UNCHANGED <<running, ramp, client, now, sample>>

Next ==
  \/ wcb_silent \/ wcb_exit
  \/ wcb_timeout \/ wcb_connect \/ wcb_send \/ wcb_recv
  \/ Poll \/ SpuriousPoll \/ Tick
  \/ Server

Spec == Init /\ [][Next]_vars

\* The loop keeps turning and calls what it owes; a connect succeeds or fails
\* in the end, and the server echoes what it has taken unless it closes.
FairSpec ==
  /\ Spec
  /\ WF_vars(Poll)
  /\ WF_vars(wcb_timeout) /\ WF_vars(wcb_connect)
  /\ WF_vars(wcb_send) /\ WF_vars(wcb_recv)
  /\ WF_vars(Server /\ net = "syn")
  /\ WF_vars(Server /\ ready' > ready)

-----------------------------------------------------------------------------
TypeOK ==
  /\ running \in BOOLEAN /\ wev_silent \in BOOLEAN
  /\ tev_read \in BOOLEAN /\ spurious \in BOOLEAN
  /\ number_of_clients \in 0..(MaxClients + 1)
  /\ state \in {"none", "live", "freed", "failed"}
  /\ active \subseteq Watchers /\ pending \subseteq active
  /\ due \in Nat /\ to_send \in Nat /\ now \in 1..MaxTime /\ ts \in 0..now
  /\ sample \in [took : Nat, real : Nat, reply : BOOLEAN, last : BOOLEAN, spurious : BOOLEAN]
  /\ net \in {"none", "syn", "est", "fin", "err"}
  /\ stream \in Seq(0..now) /\ ready \in 0..Len(stream)
  /\ Free \in 0..SndCap

\* The variables keep their types, and no callback is owed to a freed client,
\* though wcb_connect, wcb_send and wcb_recv each delete it in iterations that
\* owe it the others.
NoUseAfterFree == TypeOK /\ (state # "live" => active = {} /\ pending = {})

\* A client is deleted only when the server closed or failed the connection,
\* when a request finds no room in the send buffer (EAGAIN counts as an error), or
\* when wcb_connect takes a spurious EV_READ for a connect that failed.  No EV_READ
\* of a reply is ever taken for one.
DropsOnlyForCause ==
  [][state = "live" /\ state' = "freed" =>
       \/ net \in {"fin", "err"}
       \/ ~SendsFit(to_send)
       \/ spurious /\ "connect" \in pending]_vars

\* ts is that of the latest request and not of the one answered, so a sample of a
\* reply may be too short; it is never too long, and it is exact unless a later
\* request was under way.  A sample of anything else, taken because the clock is
\* read before EAGAIN and the end of the stream are looked at, needs a spurious
\* event or a connection that was closed or failed.
SamplesAreSound ==
  IF sample.reply
  THEN /\ sample.took <= sample.real
       /\ sample.last => sample.took = sample.real
  ELSE sample.spurious \/ net \in {"fin", "err"}

\* Requests owed are sent, unless the client is deleted, the server has closed
\* its side (which wcb_recv ignores) or the run is over.
RequestsAreSent ==
  to_send > 0 ~> (to_send = 0 \/ state = "freed" \/ net = "fin" \/ ~running)

=============================================================================
