----------------------------- MODULE ErlangEcho -----------------------------
(***************************************************************************)
(* The server and the load client of erlang-virtan against each other.     *)
(* Each connection has a connector process in the client and a handler     *)
(* process in the server; one acceptor makes the handlers, one logger      *)
(* gathers what the connectors report.  A receive takes the first message  *)
(* that matches, and its "after" may fire whenever none does: how long     *)
(* 30 s are is left open.                                                  *)
(*                                                                         *)
(* External: TCP keeps the bytes of a request and of its reply in order    *)
(* but delivers them in pieces of its own choice; a connection may fail at *)
(* any moment.  A connector has one request under way, so the contents of  *)
(* a piece are told by its length.  Signals between two processes keep     *)
(* their order; those of two connectors to the logger have none.           *)
(***************************************************************************)
EXTENDS Integers, Sequences, FiniteSets

CONSTANTS
  MaxChildren,  \* MAX_CHILDREN
  MsgLen,       \* length of the random string
  MaxSent       \* bound: requests of a connector

ASSUME ErlangAssumption ==
  MaxChildren \in Nat /\ MsgLen \in Nat \ {0} /\ MaxSent \in Nat

Conns  == 1..MaxChildren
NoSock == 0

VARIABLES
  running,  \* starter's count of the connectors it has spawned
  con,      \* connectors: "none", "connecting", "pausing", "waiting", "refused", "erred"
  sent,     \* requests each has sent
  mail,     \* their mailboxes: "whole" or "part" of a reply, "closed"
  log,      \* what each has sent to the logger, not yet received
  stats,    \* the logger's counts
  over,     \* the logger has received timeout, and the client's VM has ended
  acc,      \* the acceptor: where it is, and the socket in its hands
  handler,  \* handlers: "none", "bind", "handle" or "ended"
  owner,    \* controlling process of the accepted socket: "acceptor" or "handler"
  perm,     \* perm is in the handler's mailbox
  link,     \* connections: "none", "queued", "up" (accepted) or "down"
  up, down, \* bytes on the way to the server and back
  fault     \* history: the connection failed, a timeout fired or a reply was split

client  == <<running, con, sent, mail, log, stats, over>>
server  == <<acc, handler, owner, perm>>
network == <<link, up, down>>
ErlangVars == <<client, server, network, fault>>

ServerUp      == acc.pc # "ended"
ClientGone(c) == over \/ con[c] \in {"refused", "erred"}
Set(f, c, v)  == [f EXCEPT ![c] = v]

ErlangInit ==
  /\ running = 0 /\ over = FALSE
  /\ con = [c \in Conns |-> "none"] /\ sent = [c \in Conns |-> 0]
  /\ mail = [c \in Conns |-> <<>>] /\ log = [c \in Conns |-> <<>>]
  /\ stats = [chld |-> 0, conErr |-> 0, exchErr |-> 0, msgs |-> 0]
  /\ acc = [pc |-> "accept", sock |-> NoSock]
  /\ handler = [c \in Conns |-> "none"] /\ owner = [c \in Conns |-> "acceptor"]
  /\ perm = [c \in Conns |-> FALSE]
  /\ link = [c \in Conns |-> "none"]
  /\ up = [c \in Conns |-> 0] /\ down = [c \in Conns |-> 0]
  /\ fault = [c \in Conns |-> FALSE]

-----------------------------------------------------------------------------
(* The client.                                                             *)

starter ==
  /\ ~over /\ running < MaxChildren
  /\ running' = running + 1
  /\ con' = Set(con, running + 1, "connecting")
  /\ UNCHANGED <<sent, mail, log, stats, over, server, network, fault>>

Report(c, what) == log' = [log EXCEPT ![c] = Append(@, what)]

connector(c) ==
  /\ ~over /\ con[c] = "connecting"
  /\ \/ /\ ServerUp
        /\ link' = Set(link, c, "queued")
        /\ Report(c, "connect_time")
        /\ con' = Set(con, c, "pausing")
     \/ /\ Report(c, "connect_error")
        /\ con' = Set(con, c, "refused")
        /\ UNCHANGED link
  /\ UNCHANGED <<running, sent, mail, stats, over, server, up, down, fault>>

\* sporadic_exchange up to its second receive.  Messages from the socket stay
\* in the mailbox meanwhile, and an error of send is not looked at.
Send(c) ==
  /\ ~over /\ con[c] = "pausing" /\ sent[c] < MaxSent
  /\ con' = Set(con, c, "waiting")
  /\ sent' = Set(sent, c, sent[c] + 1)
  /\ up' = IF link[c] \in {"queued", "up"} THEN Set(up, c, MsgLen) ELSE up
  /\ UNCHANGED <<running, mail, log, stats, over, server, link, down, fault>>

\* The connector closes its socket and ends.
ExchangeError(c) ==
  /\ Report(c, "exchange_error")
  /\ con' = Set(con, c, "erred")
  /\ mail' = Set(mail, c, <<>>)

Receive(c) ==
  /\ ~over /\ con[c] = "waiting" /\ mail[c] # <<>>
  /\ \/ /\ Head(mail[c]) = "whole"
        /\ Report(c, "exchange_time")
        /\ con' = Set(con, c, "pausing")
        /\ mail' = Set(mail, c, Tail(mail[c]))
     \/ Head(mail[c]) # "whole" /\ ExchangeError(c)
  /\ UNCHANGED <<running, sent, stats, over, server, network, fault>>

ReceiveTimeout(c) ==
  /\ ~over /\ con[c] = "waiting" /\ mail[c] = <<>>
  /\ ExchangeError(c)
  /\ fault' = Set(fault, c, TRUE)
  /\ UNCHANGED <<running, sent, stats, over, server, network>>

\* Mutant of Counted: a connection that fails later is a child once more.
Counted_ChildAgain(what) ==
  LET One(kinds) == IF what \in kinds THEN 1 ELSE 0
  IN  [chld    |-> stats.chld + One({"connect_time", "connect_error", "exchange_error"}),
       conErr  |-> stats.conErr + One({"connect_error"}),
       exchErr |-> stats.exchErr + One({"exchange_error"}),
       msgs    |-> stats.msgs + One({"exchange_time"})]

Counted(what) ==
  LET One(kinds) == IF what \in kinds THEN 1 ELSE 0
  IN  [chld    |-> stats.chld + One({"connect_time", "connect_error"}),
       conErr  |-> stats.conErr + One({"connect_error"}),
       exchErr |-> stats.exchErr + One({"exchange_error"}),
       msgs    |-> stats.msgs + One({"exchange_time"})]

\* log_stamp only prints; timeout prints for the last time and ends the VM.
gather_log ==
  /\ ~over
  /\ \/ /\ over' = TRUE
        /\ UNCHANGED <<log, stats>>
     \/ /\ \E c \in Conns :
             /\ log[c] # <<>>
             /\ stats' = Counted(Head(log[c]))
             /\ log' = Set(log, c, Tail(log[c]))
        /\ UNCHANGED over
  /\ UNCHANGED <<running, con, sent, mail, server, network, fault>>

-----------------------------------------------------------------------------
(* The server.                                                             *)

\* accept and spawn; an accept that returns econnaborted changes nothing.
tcp_acceptor(c) ==
  /\ acc.pc = "accept" /\ link[c] = "queued"
  /\ acc' = [pc |-> "control", sock |-> c]
  /\ link' = Set(link, c, "up")
  /\ handler' = Set(handler, c, "bind")
  /\ UNCHANGED <<client, owner, perm, up, down, fault>>

\* Its result is not looked at: a handler that has ended gets nothing.
controlling_process ==
  /\ acc.pc = "control"
  /\ acc' = [acc EXCEPT !.pc = "perm"]
  /\ owner' = IF handler[acc.sock] = "bind" THEN Set(owner, acc.sock, "handler") ELSE owner
  /\ UNCHANGED <<client, handler, perm, network, fault>>

\* Mutant of SendPerm: the message is forgotten.
SendPerm_Forgotten ==
  /\ acc.pc = "perm"
  /\ acc' = [pc |-> "accept", sock |-> NoSock]
  /\ UNCHANGED <<client, handler, owner, perm, network, fault>>

SendPerm ==
  /\ acc.pc = "perm"
  /\ acc' = [pc |-> "accept", sock |-> NoSock]
  /\ perm' = Set(perm, acc.sock, TRUE)
  /\ UNCHANGED <<client, handler, owner, network, fault>>

\* Any other error of accept closes the listening socket; main returns and the
\* VM ends, with every handler.
AcceptFails ==
  /\ acc.pc = "accept"
  /\ acc' = [pc |-> "ended", sock |-> NoSock]
  /\ handler' = [c \in Conns |-> IF handler[c] = "none" THEN "none" ELSE "ended"]
  /\ link' = [c \in Conns |-> IF link[c] = "none" THEN "none" ELSE "down"]
  /\ up' = [c \in Conns |-> 0]
  /\ fault' = [c \in Conns |-> TRUE]
  /\ UNCHANGED <<client, owner, perm, down>>

bind(c) ==
  /\ handler[c] = "bind" /\ perm[c]
  /\ handler' = Set(handler, c, "handle")
  /\ UNCHANGED <<client, acc, owner, perm, network, fault>>

Close(c) ==
  /\ handler' = Set(handler, c, "ended")
  /\ link' = IF link[c] = "up" THEN Set(link, c, "down") ELSE link
  /\ UNCHANGED <<client, acc, owner, perm, up, down>>

\* A handler that ends takes the socket with it if it owns it already;
\* otherwise the socket stays with the acceptor, which never looks at it.
bind_Timeout(c) ==
  /\ handler[c] = "bind" /\ ~perm[c]
  /\ fault' = Set(fault, c, TRUE)
  /\ IF owner[c] = "handler"
       THEN Close(c)
       ELSE /\ handler' = Set(handler, c, "ended")
            /\ UNCHANGED <<client, acc, owner, perm, network>>

\* Mutant of handle_Data: the handler closes after its first answer.
handle_Data_Once(c) ==
  /\ handler[c] = "handle" /\ up[c] > 0
  /\ up' = Set(up, c, 0) /\ down' = Set(down, c, down[c] + up[c])
  /\ handler' = Set(handler, c, "ended") /\ link' = Set(link, c, "down")
  /\ UNCHANGED <<client, acc, owner, perm, fault>>

\* A piece of the request comes and is sent back; an error of send is not
\* looked at.
handle_Data(c) ==
  /\ handler[c] = "handle" /\ up[c] > 0
  /\ \E n \in 1..up[c] : up' = Set(up, c, up[c] - n) /\ down' = Set(down, c, down[c] + n)
  /\ UNCHANGED <<client, server, link, fault>>

\* Anything else the socket sends is the end of the connection.
handle_Other(c) ==
  /\ handler[c] = "handle" /\ up[c] = 0
  /\ ClientGone(c) \/ link[c] # "up"
  /\ Close(c)
  /\ UNCHANGED fault

handle_Timeout(c) ==
  /\ handler[c] = "handle" /\ up[c] = 0
  /\ ~ClientGone(c) /\ link[c] = "up"
  /\ Close(c)
  /\ fault' = Set(fault, c, TRUE)

-----------------------------------------------------------------------------
(* The network.                                                            *)

Deliver(c) ==
  /\ ~ClientGone(c) /\ down[c] > 0
  /\ \E n \in 1..down[c] :
       /\ down' = Set(down, c, down[c] - n)
       /\ mail' = Set(mail, c, Append(mail[c], IF n = MsgLen THEN "whole" ELSE "part"))
       /\ fault' = Set(fault, c, fault[c] \/ n < MsgLen)
  /\ UNCHANGED <<running, con, sent, log, stats, over, server, link, up>>

DeliverClosed(c) ==
  /\ ~ClientGone(c) /\ link[c] = "down" /\ down[c] = 0
  /\ link' = Set(link, c, "none")
  /\ mail' = Set(mail, c, Append(mail[c], "closed"))
  /\ UNCHANGED <<running, con, sent, log, stats, over, server, up, down, fault>>

Fails(c) ==
  /\ link[c] \in {"queued", "up"}
  /\ link' = Set(link, c, "down")
  /\ up' = Set(up, c, 0) /\ down' = Set(down, c, 0)
  /\ fault' = Set(fault, c, TRUE)
  /\ UNCHANGED <<client, server>>

ErlangNext ==
  \/ starter \/ gather_log
  \/ controlling_process \/ SendPerm \/ AcceptFails
  \/ \E c \in Conns :
       \/ connector(c) \/ Send(c) \/ Receive(c) \/ ReceiveTimeout(c)
       \/ tcp_acceptor(c) \/ bind(c) \/ bind_Timeout(c)
       \/ handle_Data(c) \/ handle_Other(c) \/ handle_Timeout(c)
       \/ Deliver(c) \/ DeliverClosed(c) \/ Fails(c)

ErlangSpec == ErlangInit /\ [][ErlangNext]_ErlangVars

\* The schedulers run every process that has a message, and TCP delivers.  No
\* timeout need fire: what has to happen happens without the clock.
ErlangFairSpec ==
  /\ ErlangSpec
  /\ WF_ErlangVars(controlling_process) /\ WF_ErlangVars(SendPerm)
  /\ \A c \in Conns :
       /\ WF_ErlangVars(Receive(c))
       /\ WF_ErlangVars(tcp_acceptor(c)) /\ WF_ErlangVars(bind(c))
       /\ WF_ErlangVars(handle_Data(c)) /\ WF_ErlangVars(handle_Other(c))
       /\ WF_ErlangVars(Deliver(c)) /\ WF_ErlangVars(DeliverClosed(c))

-----------------------------------------------------------------------------
Reports == {"connect_time", "connect_error", "exchange_time", "exchange_error"}

ErlangTypeOK ==
  /\ running \in 0..MaxChildren /\ over \in BOOLEAN
  /\ con \in [Conns -> {"none", "connecting", "pausing", "waiting", "refused", "erred"}]
  /\ sent \in [Conns -> 0..MaxSent]
  /\ mail \in [Conns -> Seq({"whole", "part", "closed"})] /\ log \in [Conns -> Seq(Reports)]
  /\ stats \in [chld : Nat, conErr : Nat, exchErr : Nat, msgs : Nat]
  /\ acc \in [pc : {"accept", "control", "perm", "ended"}, sock : {NoSock} \union Conns]
  /\ handler \in [Conns -> {"none", "bind", "handle", "ended"}]
  /\ owner \in [Conns -> {"acceptor", "handler"}] /\ perm \in [Conns -> BOOLEAN]
  /\ link \in [Conns -> {"none", "queued", "up", "down"}]
  /\ up \in [Conns -> 0..MsgLen] /\ down \in [Conns -> 0..MsgLen]
  /\ fault \in [Conns -> BOOLEAN]

Pending(what) == Cardinality({c \in Conns : \E i \in 1..Len(log[c]) : log[c][i] = what})
Are(states)   == Cardinality({c \in Conns : con[c] \in states})

\* The requests of c that got their reply, the replies still on their way to the
\* logger, and so those it has been told of; over all connectors, their number.
Replied(c)    == sent[c] - (IF con[c] \in {"waiting", "erred"} THEN 1 ELSE 0)
Unlogged(c)   == Cardinality({i \in 1..Len(log[c]) : log[c][i] = "exchange_time"})
LoggedReplies == Cardinality({x \in Conns \X (1..MaxSent) :
                                x[2] <= Replied(x[1]) - Unlogged(x[1])})

\* The variables keep their types, and all four counts of the logger are those of
\* the connectors, whatever order the reports come in and whenever connectors
\* fail: every connector that has connected or failed to is one child, once its
\* report is in, every one that has erred one error and every reply one message.
\* The errors never exceed Chld - ConErr, the connections the averages are taken
\* over.
LogIsExact ==
  /\ ErlangTypeOK
  /\ stats.conErr + Pending("connect_error") = Are({"refused"})
  /\ stats.chld - stats.conErr + Pending("connect_time") = Are({"pausing", "waiting", "erred"})
  /\ stats.exchErr + Pending("exchange_error") = Are({"erred"})
  /\ stats.msgs = LoggedReplies
  /\ stats.exchErr <= stats.chld - stats.conErr

\* An exchange error of the client is the fault of the network, of a timeout or
\* of TCP's splitting of a reply, never of the way the acceptor, the handler
\* and the connector work together.
ErrorsHaveCause == \A c \in Conns : con[c] = "erred" => fault[c]

\* A connector that waits gets its answer or its error without the help of any
\* timeout, unless the socket has been left with the acceptor.
RepliesCome ==
  \A c \in Conns :
    con[c] = "waiting" ~>
      (con[c] # "waiting" \/ over \/ (handler[c] = "ended" /\ link[c] = "up"))

=============================================================================
