----------------------------- MODULE PerlServer -----------------------------
(***************************************************************************)
(* perl-ershov/10kx_decoded.pl: main forks workers that share one          *)
(* listening socket.  A worker wakes up every few milliseconds, accepts at *)
(* most one connection while it has slots left, and then visits all its    *)
(* connections in the order of the array @s, from which it removes those   *)
(* that have ended while it walks over it.                                 *)
(*                                                                         *)
(* A foreach over an array goes by index and looks at the array's length   *)
(* each time, so n, which the code keeps beside it, is always that index.  *)
(* A peer leaves at most BUFSIZE bytes unanswered, and a send buffer takes *)
(* them: a read then takes all there is, and which connections have        *)
(* something to read is all the model keeps of their bytes.                *)
(***************************************************************************)
EXTENDS Integers, SequencesExt

CONSTANTS
  NThreads,    \* NTHREADS
  MaxConnect,  \* MAXCONNECT, the connections a worker accepts in its life
  NConns       \* bound: connections the peers open

ASSUME PerlAssumption ==
  {NThreads, MaxConnect, NConns} \subseteq Nat \ {0}

Workers == 1..NThreads
Parent  == 0
Sockets == 1..NConns   \* in the order in which they connect

VARIABLES
  forked,     \* workers started so far
  srv,        \* the processes that hold the listening socket
  life,       \* of each worker: "none", "live" or "dead"
  nConnects,  \* slots it has left
  s,          \* @s, 1-based
  n,          \* $n, the position in s; beyond its end the worker sleeps
  pending,    \* connections waiting in the listening socket
  state,      \* connections: "none", "queued", "open", "closed" or "refused"
  unread,     \* the connections with bytes to read,
  fin, rst    \* those whose peer has closed, those that have failed

worker   == <<life, nConnects, s, n>>
peer     == <<unread, fin, rst>>
PerlVars == <<forked, srv, worker, pending, state, peer>>

PerlInit ==
  /\ forked = 0 /\ srv = {Parent}
  /\ life = [w \in Workers |-> "none"] /\ nConnects = [w \in Workers |-> MaxConnect]
  /\ s = [w \in Workers |-> <<>>] /\ n = [w \in Workers |-> 1]
  /\ pending = <<>> /\ state = [c \in Sockets |-> "none"]
  /\ unread = {} /\ fin = {} /\ rst = {}

-----------------------------------------------------------------------------
\* The connections of gone end, taken, the first in the queue or none, has left
\* it, and holders have the listening socket.  It goes, with all that wait in it,
\* with the last.
Ends(gone, taken, holders) ==
  LET waiting == IF taken = {} THEN pending ELSE Tail(pending)
      refused == IF holders = {} THEN ToSet(waiting) ELSE {}
      over    == gone \union refused
  IN  /\ srv' = holders
      /\ pending' = IF holders = {} THEN <<>> ELSE waiting
      /\ state' = [c \in Sockets |-> IF c \in gone THEN "closed"
                                    ELSE IF c \in refused THEN "refused"
                                    ELSE IF c \in taken THEN "open" ELSE state[c]]
      /\ unread' = unread \ over /\ fin' = fin \ over /\ rst' = rst \ over

\* fork may fail: !$p holds for undef too, and main itself becomes the worker
\* and forks no more.
Fork ==
  /\ Parent \in srv /\ forked < NThreads
  /\ forked' = forked + 1
  /\ life' = [life EXCEPT ![forked + 1] = "live"]
  /\ srv' \in {srv \union {forked + 1}, (srv \ {Parent}) \union {forked + 1}}
  /\ UNCHANGED <<nConnects, s, n, pending, state, peer>>

MainCloses ==
  /\ Parent \in srv /\ forked = NThreads
  /\ Ends({}, {}, srv \ {Parent})
  /\ UNCHANGED <<forked, worker>>

\* A worker ends, with its connections: setsockopt or fcntl fails after an
\* accept, syswrite raises SIGPIPE, or INT comes.  Nobody forks it again.
Dies(w, taken) ==
  /\ life' = [life EXCEPT ![w] = "dead"]
  /\ s' = [s EXCEPT ![w] = <<>>]
  /\ Ends(ToSet(s[w]) \union taken, taken, srv \ {w})
  /\ UNCHANGED <<forked, nConnects, n>>

SIGINT(w) == life[w] = "live" /\ Dies(w, {})

-----------------------------------------------------------------------------
Sleeps(w) == life[w] = "live" /\ n[w] > Len(s[w])

StartPass(w) == n' = [n EXCEPT ![w] = 1]

MayAccept(w) == Sleeps(w) /\ nConnects[w] > 0 /\ w \in srv /\ pending # <<>>

\* Mutant of KeepsListening: the socket is closed with one slot left.
KeepsListening_ClosesEarly(left) == left > 1

\* if (!--$nConnects) { close $srv; ...
KeepsListening(left) == left > 0

Accept(w) ==
  /\ MayAccept(w)
  /\ nConnects' = [nConnects EXCEPT ![w] = @ - 1]
  /\ s' = [s EXCEPT ![w] = Append(@, Head(pending))]
  /\ Ends({}, {Head(pending)}, IF KeepsListening(nConnects[w] - 1) THEN srv ELSE srv \ {w})
  /\ StartPass(w)
  /\ UNCHANGED <<forked, life>>

\* The new connection's options cannot be set.
Accept_Dies(w) ==
  /\ MayAccept(w)
  /\ Dies(w, {Head(pending)})

NoAccept(w) ==
  /\ Sleeps(w) /\ ~MayAccept(w)
  /\ StartPass(w)
  /\ UNCHANGED <<forked, srv, life, nConnects, s, pending, state, peer>>

\* Mutant of Spliced: n has been incremented already.
Spliced_Next(w) == IF n[w] < Len(s[w]) THEN RemoveAt(s[w], n[w] + 1) ELSE s[w]

\* splice @s, $n, 1
Spliced(w) == RemoveAt(s[w], n[w])

Advance(w) == n' = [n EXCEPT ![w] = @ + 1]

\* sysread gives bytes, which are written back; nothing, for EAGAIN or an
\* error; or the end.  A handle that is no longer in @s is closed by Perl.
sysread(w) ==
  /\ life[w] = "live" /\ n[w] <= Len(s[w])
  /\ LET c == s[w][n[w]]
     IN  \/ /\ c \in unread \ rst
            /\ unread' = unread \ {c}
            /\ Advance(w)
            /\ UNCHANGED <<forked, srv, life, nConnects, s, pending, state, fin, rst>>
         \/ c \in unread \intersect rst /\ Dies(w, {})             \* SIGPIPE
         \/ /\ c \in rst \/ c \notin unread \union fin
            /\ Advance(w)
            /\ UNCHANGED <<forked, srv, life, nConnects, s, pending, state, peer>>
         \/ /\ c \in rst \/ c \in fin \ unread
            /\ s' = [s EXCEPT ![w] = Spliced(w)]
            /\ Ends({c} \union (ToSet(s[w]) \ ToSet(Spliced(w))), {}, srv)
            /\ Advance(w)
            /\ UNCHANGED <<forked, life, nConnects>>

-----------------------------------------------------------------------------
(* The peers.                                                              *)

Connects(c) ==
  /\ state[c] = "none" /\ srv # {}
  /\ \A d \in Sockets : d < c => state[d] # "none"
  /\ state' = [state EXCEPT ![c] = "queued"]
  /\ pending' = Append(pending, c)
  /\ UNCHANGED <<forked, srv, worker, peer>>

PeerMoves(c) ==
  /\ state[c] \in {"queued", "open"} /\ c \notin rst
  /\ \/ c \notin fin /\ unread' = unread \union {c} /\ UNCHANGED <<fin, rst>>
     \/ fin' = fin \union {c} /\ UNCHANGED <<unread, rst>>
     \/ rst' = rst \union {c} /\ UNCHANGED <<unread, fin>>
  /\ UNCHANGED <<forked, srv, worker, pending, state>>

Step(w) == Accept(w) \/ NoAccept(w) \/ sysread(w)

PerlNext ==
  \/ Fork \/ MainCloses
  \/ \E w \in Workers : Step(w) \/ Accept_Dies(w) \/ SIGINT(w)
  \/ \E c \in Sockets : Connects(c) \/ PeerMoves(c)

PerlSpec == PerlInit /\ [][PerlNext]_PerlVars

\* Main and the workers run; nothing is assumed of the peers.
PerlFairSpec ==
  /\ PerlSpec
  /\ WF_PerlVars(Fork) /\ WF_PerlVars(MainCloses)
  /\ \A w \in Workers : WF_PerlVars(Step(w))

-----------------------------------------------------------------------------
PerlTypeOK ==
  /\ forked \in 0..NThreads /\ srv \subseteq Workers \union {Parent}
  /\ life \in [Workers -> {"none", "live", "dead"}]
  /\ nConnects \in [Workers -> 0..MaxConnect]
  /\ s \in [Workers -> Seq(Sockets)] /\ n \in [Workers -> Nat \ {0}]
  /\ pending \in Seq(Sockets)
  /\ state \in [Sockets -> {"none", "queued", "open", "closed", "refused"}]
  /\ unread \subseteq Sockets /\ fin \subseteq Sockets /\ rst \subseteq Sockets

\* The variables keep their types, and an open connection is in the array of
\* exactly one worker, once, and nothing else is in it: the splice in the middle
\* of the walk removes the connection that ended and no other.
ArraysAreRight ==
  /\ PerlTypeOK
  /\ \A c \in Sockets :
       Cardinality({p \in Workers \X (1..MaxConnect) :
                      p[2] <= Len(s[p[1]]) /\ s[p[1]][p[2]] = c})
         = IF state[c] = "open" THEN 1 ELSE 0

\* A waiting connection is accepted, never refused, as long as a living worker
\* has a slot, also when others have spent theirs, have died or were never
\* forked; and what arrives on an open one is read in the end, though a walk
\* skips the connection behind one it removes.
EveryoneIsServed ==
  \A c \in Sockets :
    /\ state[c] = "queued" ~>
         \/ state[c] \in {"open", "closed"}
         \/ \A w \in Workers : life[w] # "live" \/ nConnects[w] = 0
    /\ (state[c] = "open" /\ c \in unread) ~>
         (state[c] = "closed" \/ c \notin unread \/ c \in rst)

=============================================================================
