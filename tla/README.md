# Million RPS Battle: a TLA+ verification project

The repository is a contest: echo servers in several languages, and load
clients that open up to 10 000 connections, send short messages on each and
measure connection time, latency and errors. The programs share a protocol and
no code. This project models the servers and clients whose logic is their own,
checks the models with TLC and proves the safety properties of all of them with
TLAPS.

## Inventory

| part | state | operations | what is hard | what makes it correct |
|---|---|---|---|---|
| `c-bachan/server-honest.c`, `thread-honest.c`: a connection | `echo_client_t`: three watchers, the array `to_send`, `to_send_beg`, `to_send_size` | `echo_client_add/del`, `wcb_recv`, `wcb_send`, `wcb_timeout` | partial sends, compaction by `memcpy`, a full array, a callback that frees the client while others are owed, peer and timeout at any moment | the reply is the stream; no overrun; owed bytes are watched; no use after free; drops have a cause |
| `c-bachan/server.c`, `thread.c`: a connection | two watchers, a stack buffer per callback | `echo_client_add/del`, `wcb_recv`, `wcb_timeout` | short sends, timeout racing a request | within the window nothing is lost; nothing reordered |
| `thread*.c`, `server*.c`: the process | listening socket, one loop per core (or one in all), `accept_mtx` | `echo_socket_listen`, `pthread_create`, `echo_server_listen`, `echo_server_wcb_accept` | all loops woken for one connection, failing accepts, failing thread creation, leaks | one owner per connection, mutex released on all paths, the queue is served |
| `c-bachan/client.c` | ramp counter, per client four watchers, `to_send`, `ts`, statistics | `wcb_silent`, `client_add/del`, `wcb_connect/send/recv/timeout`, `wcb_exit` | timer before connect, events judged after the poll, deletion inside an iteration, samples | no use after free, requests are sent, samples mean something |
| `client-c++-virtan/client.cc` | shared counters; per handler socket, two timers, `tqueue`, buffers | constructor, `connect`, `send_staff`, `stub`, `read_staff`, `compare_staff`, `print_stat` | threads interleave between any two atomic instructions; overlapping writes; short writes | counters agree with the connections; a reply is timed by its own timer; no false error |
| `c++-virtan/server.cc` | per connection one array and one outstanding operation | `accept`, `start`, `read`, `write` | `delete this`, reuse of the array | one reference per object; the reply is the stream |
| `c++-apolkanov/echo_tcp.cpp` | one epoll instance per worker, edge-triggered | `addConnection`, `process`, `processConnection` | lost edges, stale events, unsigned result of `read` | bytes stay behind only after a full read |
| `erlang-virtan` | processes and mailboxes | acceptor, `bind`, `handle`; `starter`, `connector`, `sporadic_exchange` | hand-over of the socket, timeouts, split replies | counts are exact, errors have a cause, replies come |
| `java-philipp` | selector threads, queue of registrations | `register`, `Worker.run`, `process`, `stop` | `selectNow` consumes a wakeup; `stop` joins a blocked thread; `readerWriters[0]` is null | no request is forgotten while the worker is awake; the reply is the stream |
| `perl-ershov` | array of sockets, connection slots per process | accept, read, write, close by polling | `splice` during iteration, slots never given back, dying workers | no connection lost to a splice; all served while slots last |
| `js-nikita`, `python-vkazanov` | none of their own beside the library | fork again; echo at close | sender and server wait for each other | not modelled |
| `java-philipp/bin/*.sh` | pid file | start, stop, check | stale pid file | not modelled |

Interaction is by TCP only, between a client and a server of the reader's
choice; inside a program by callbacks of one event loop (`c-bachan`), by
completion handlers in several `io_service`s (`*-virtan`), or by threads that
share a descriptor (`thread*.c`, `echo_tcp.cpp`), by processes and messages
(`erlang-virtan`), by a selector and a queue (`java-philipp`), or not at all beyond
an inherited listening socket (`perl-ershov`). Nothing is persisted.

## Modules

    EchoChannel        what a server promises for one connection (abstract)
    EchoSocket         external: one accepted socket and the peer behind it
      HonestConn       server-honest.c and thread-honest.c, one connection
        HonestConnProofs   TLAPS proofs, here about HonestConn
      PlainConn        server.c and thread.c, one connection
        PlainConnProofs    about PlainConn
      EpollConn        echo_tcp.cpp, one connection
        EpollConnProofs    about EpollConn
      AsioConn         server.cc, acceptor and one connection
      JavaConn         IOScheduler and ReadWriteProcessor, one connection
        AsioJavaProofs     about AsioConn and JavaConn
    ThreadAccept       the four c-bachan servers, the process
      MCThreadAccept   its instance for TLC
    PerlServer         10kx_decoded.pl, main, workers and connections
      AcceptProofs         about ThreadAccept and PerlServer
    BachanClient       client.c, the ramp and one client
      BachanClientProofs   about BachanClient
    VirtanExchange     client.cc, one connected handler
      VirtanExchangeProofs about VirtanExchange
    VirtanStats        client.cc, births, counters and print_stat
    ErlangEcho         server.erl and client.erl together
      LoadStatsProofs      about VirtanStats and ErlangEcho

`HonestConn`, `PlainConn`, `EpollConn`, `AsioConn` and `JavaConn` extend `EchoSocket` and
implement `EchoChannel` (`ImplementsEchoChannel`, `JavaImplementsChannel`, by
`INSTANCE EchoChannel WITH recvd <- rcvd, open <- ...`). `JavaConn`, `ErlangEcho` and
`PerlServer` carry their own prefix in the names every specification has
(`JavaInit`, `ErlangSpec`, `PerlTypeOK`), so that one proof module can extend
two specifications. Definitions carry the names of the functions they
model; a function that is more than one case is a disjunction of operators
named after the cases. Where two files hold the same code (`server-honest.c` and
`thread-honest.c`, `server.c` and `thread.c`) the map points the whole function to
one of them and its cases to the other. Definitions that follow a comment "Mutant of ..." are
deliberately wrong variants of the definition below them: each property of a
passing run is violated when one of them takes its place.

**Abstraction of data.** Byte *i* of a peer's stream is the number *i*. A faithful
reply of *m* bytes is then 1, 2, ..., m, and a lost, repeated or overwritten byte
shows at once. Addresses, log lines and message contents are left out.

**EchoSocket.** `arrived`, `rcvd` and `out` count the bytes that arrived and the
server received, and hold the bytes the server's sends were given; `drained` is
how much of the reply the peer has read, so `Free` is the room in the send
buffer. The peer sends, closes and reads, and the connection fails, at any time.

**HonestConn.** A callback is one action because the callbacks of a connection run
in one loop. Between the poll (`Poll`, `SpuriousPoll`) and the callbacks it owes
(`pending`) the peer may move. `ev_*_stop` withdraws an owed callback, as in libev.
`wcb_recv` is `RecvFails`, `RecvZeroServer`/`RecvZeroThread`, `RecvEagain` or
`RecvData` followed by `SendNow`; the compaction (`Kept`, `KeptBeg`, `Room`) comes
first in each. `Memcpy` models the overlapping `memcpy`, undefined in C, as a
choice between an ascending and a descending copy. The variable `file`, chosen
by `Init`, says which of the two programs runs; they differ in what a `recv` of
zero bytes does. Neither restarts its timer when data come (that call is under
`#if 0`; the one left is for `EAGAIN`), so a connection in use is cut off too when
its time has run out; to `DropsOnlyForCause` and `DropsForCauseOrFull` that is a
timeout, a cause like others.

**PlainConn.** As above without a buffer: one `recv`, one `send`, its count not
looked at (`EchoOnce`), any failure of `send` deletes the client (`EchoFails`).

**EpollConn.** `edge` is the socket's place on the ready list, `event` its place in
the worker's array. An arrival sets `edge`, `epoll_wait` moves it to `event`, and
one `read` and one `write` follow. A failed `read` returns -1, which the
`size_t` turns into a huge length; the write of that length fails and nothing
happens. Uncaught exceptions and SIGPIPE end the process. `full` remembers whether
the latest `read` filled its buffer.

**AsioConn.** `ops` are the operations in the reactor, `posted` the finished ones
whose handler has not run. `async_write` progresses in parts.

**ThreadAccept.** `echo_server_wcb_accept` in one action per step that other
threads see: wake, lock, accept, unlock and test, add or leak. The end of a
connection (`ClientEnds`) stands for `HonestConn` and `PlainConn`. The variable
`program` chooses between this and the one-loop servers, whose listening and
accept callback (`echo_server_listen`, `echo_server_wcb_accept`) share the queue,
the descriptor limit and the leak with it.

**BachanClient.** `tev_read` keeps the event mask of the poll until `wcb_connect`
looks at it. libev fixes the order of the callbacks in an iteration; the model
allows all. Readiness is only a hint: `SpuriousPoll` reports a descriptor readable
that is not, which leads `wcb_recv` to the `EAGAIN` it provides for, and `wcb_connect`
to an `EV_READ` it takes for a failed connect. `wcb_recv` takes its sample before it
looks at the result of `recv` (client.c:107 before 116), so such an event, the end of
the stream and an error each yield a sample of no reply, with `ts` perhaps still
unset. `sample` is the latest sample together with what it measured: the true
latency of the last byte it covers, whether it is of a reply at all, whether no
other byte was under way (`last`), and whether its event was spurious. The requests
the timer asks for before the connect are forgotten when `wcb_connect` sets
`to_send` to 1 (client.c:79); `RequestsAreSent` is about `to_send` and does not see
them.

**VirtanStats.** Each thread's `job` is the next atomic instruction of the
constructor or handler it executes; the counters wrap at `Wrap` in place of 2^64.
main constructs the first handler and then prints (`stage`): in each of `Rounds`
rounds, and once more at the end, `print_stat` reads two counters for the average
(`seen`); the final print also reads the two whose sum its line shows (`final`), the
errors and the connections still active. Then main returns and no thread takes
another step, whatever is under way. The model counts main's rounds and not its
seconds: nothing is assumed of how much the threads get done between two of them.

**VirtanExchange.** `wq` holds the write operations of all outstanding
`async_write`s; the rest of a short write goes to the end of it. The echo server
is perfect, so whatever fails the comparison is the client's doing.

**JavaConn.** One channel handed to a scheduler. `register` is two actions, the
offer and the wakeup; the worker is one action per selection and one each for the
selected keys, a queued request and the test of `isRunning`. `wakeup` is the
selector's own memory of a wakeup, which any selection clears. As committed, the
program fails in `Server.start` with a null reference (`Server.java:42`), because
the line that fills `readerWriters[0]` is commented out (`Server.java:32`); the model
is therefore one of the scheduler and of `ReadWriteProcessor` under callers of the
scheduler's public methods, and not of a running `ServerRunner`.

**ErlangEcho.** Server and client against each other. Each process is a state and a
mailbox; a receive's `after` may fire whenever no message matches, so a late `perm`,
a late reply and a timely one are all behaviours. `up` and `down` count the bytes
of the one exchange a connector has under way, and TCP delivers them in pieces.
`fault` records that the network, a timeout or a split had a hand in a connection.
Until the hand-over the socket is passive, an option of `listen`: that no data go to
the acceptor's mailbox is built into the model and not found by it.

**PerlServer.** A worker's walk over `@s` is one action per visit, with `n` the index
of both the `foreach` and the `splice`; between two walks `n` is past the end. The
listening socket lives as long as some process holds it (`srv`), and what waits in
it is refused when the last one lets go. A fork that fails turns main into the
last worker, as `!$p` does for `undef`.

## Runs

Deadlock is not checked anywhere: peers may stop sending, connections end, and
a bounded model then has nothing left to do.

| run | shows |
|---|---|
| `honest` | server-honest.c and thread-honest.c: the array is not overrun, owed bytes are watched, no use after free, drops only for a failure, a timeout, the peer's close or a full array, the reply is the stream and a refinement of `EchoChannel`, every byte is echoed, a peer that closed is reclaimed |
| `honest_server_full` | **violation**: with a full array `recv` of zero bytes is taken for the peer's close (line 124) |
| `plain` | server.c and thread.c within the window: no use after free, active clients are not timed out, implements `EchoChannel`, every byte is echoed |
| `thread_accept` | many loops or one: one loop owns a connection; the queue is served, so no wakeup is lost and the mutex is released on every path |
| `epoll` | echo_tcp.cpp with a peer that runs ahead: bytes stay behind only after a read that filled the buffer, stale events close nothing, implements `EchoChannel`, every byte not left behind is echoed |
| `asio` | server.cc: one reference, implements `EchoChannel`, every byte is echoed, the object is freed |
| `client` | client.c with true and spurious events: no use after free, no reply taken for an error, requests sent; a sample of a reply is not too long, and exact unless a later request is under way; one of no reply needs a spurious event or an ended connection |
| `stats` | client.cc: counters exact in every interleaving; all connections settle unless main returns first; with the errors read first the average's divisor does not wrap and the final line counts no connection twice |
| `exchange` | client.cc: asserts hold, one error per connection, replies meet their timers, a mismatch needs a short write, messages settle |
| `java` | a registered channel is stranded only when the spin took its wakeup; open connections are served, requests taken and `stop` returns unless the worker sleeps; implements `EchoChannel` over partial writes |
| `erlang` | all four counts of the logger (children, connection errors, exchange errors, messages) are those of the connectors, exchange errors have a cause outside the protocol of the two programs, replies come without a timeout's help |
| `perl` | splices lose no connection; everyone is accepted while a living worker has a slot, and read in the end |

Other behaviours of the code show in the models without a run of their own. They
are named in the properties as exceptions, or in the hazards:

* a `memcpy` that copies overlapping bytes from the end corrupts the reply of the
  buffering servers (server-honest.c:100, `MemcpyOrders` with `"backward"`);
* server.c loses what a short send leaves when the peer runs ahead (server.c:104): the
  window of `plain` and of the proofs excludes short sends, it does not catch them;
* client.cc charges a faithful server with an error when a short write lets two
  messages interleave (client.cc:121), and `children - connection_errors` wraps
  below zero when the compiler reads the errors last (client.cc:183). In that order
  the final line may also count a failing connection twice, as active and as an error
  (client.cc:185). `ErrorsFirstIsSound` is about the other order only;
* main of client.cc returns after a minute (client.cc:206-211), whether or not the
  connections have settled;
* client.c takes latency samples of no reply (client.c:107), deletes a client for a
  spurious `EV_READ` during the connect (client.c:67) and forgets the requests asked
  for before it (client.c:79);
* echo_tcp.cpp leaves what does not fit one read until the peer sends more (`Left`,
  echo_tcp.cpp:48), and never closes a peer whose close came in the same event;
* the Java worker's spin takes the wakeup of a registration and then sleeps on it
  (`eaten`, IOScheduler.java:67), and `stop` does not wake it (line 42);
* an Erlang handler that gives up before the hand-over leaves its socket with an
  acceptor that never reads it (server.erl:30), and the Erlang client counts a
  reply split by TCP as an error (client.erl:67);
* a Perl worker's slots are not given back (10kx_decoded.pl:63), and neither a
  failed fork nor a dead worker is made good.

**Bounds.** `ToSendSize` 4 with `LowWater` 2 stands for 16384 with 32: the array is
filled, drained partly, compacted with and without overlap and refilled, since the
peer sends more bytes (`MaxBytes`) than the array and the send buffer (`SndCap`)
hold together. `TimeoutTicks` 1 or 2 lets the timeout fall due at every point. The
window of `Plain.cfg` equals the limit up to which the code keeps its promise; that
of `Epoll.cfg` is twice the buffer, so that reads leave something behind. Three
loops are the fewest in which two losers race behind a winner. Four clients on two
service threads let a parent, a child and `print_stat` overlap. One round (`Rounds`)
stands for the twelve: it is followed by a final print, and either may begin at any
point of the ramp. `MsgLen` 3 with
`PathCap` 4 makes every other message a short write. `Wrap` exceeds any honest
count. `MaxTime` stops the clock of `BachanClient` after a few resend intervals.
`Spins` stands for the 49 calls of `selectNow`; each of them behaves alike. Two
Erlang connections of two requests let the acceptor be busy with one while the other
waits. Two Perl workers of two slots and three connections let one worker spend its
slots and close the socket while the other serves, and put two connections into one
array.

**Fairness.** Weak fairness of the poll and of every callback owed: a libev loop, an
`io_service` or a worker thread keeps running as long as its process does. Weak
fairness per loop in `ThreadAccept`, none for the mutex. The peer is assumed to read
what it is sent where a promise depends on it (`HonestConn`, `AsioConn`), never to
send or close. No specification assumes that the clock moves;
`ClosedPeerIsReclaimed` of `HonestConn`, where the timeout is what reclaims, states
that premise itself. `AsioConn` assumes by strong fairness that some accept of a
waiting connection succeeds, although others fail. `JavaConn` assumes strong
fairness of the selections, since an `IOException` of one does not keep the next
from succeeding, and nothing of other connections or of `stop`. `ErlangEcho` assumes
fair schedulers and a TCP that delivers, and of no timeout that it fires.
`PerlServer` assumes that main and the workers run. In the clients a connect ends,
in failure if the kernel gives up, and the server echoes.

## Proofs

Every invariant, action property and refinement that a passing run checks is also a
theorem: TLC shows it for the instance of the cfg, TLAPS for every value of the
constants that satisfies the named assumptions. Those say no more than the programs
do: sizes and numbers of threads are positive, threads are different, the bound of
a counter exceeds the number it counts to (`Wrap`, for 2^64). Each proof has the same
shape. An inductive invariant, a conjunction of named parts, implies the property;
one lemma says that `Init` gives it, one lemma per action that the action keeps it;
a last step joins them by temporal logic.

Some theorems have a hypothesis of their own, which is where the code keeps its
promise only under a condition:

* `"backward" \notin MemcpyOrders` (`HonestConn`, what is echoed): the overlapping
  `memcpy` of server-honest.c:100 must copy in ascending order, as a `memmove` would
  have guaranteed;
* `Window <= SndCap` (`PlainConn`: drops and refinement, `EpollConn`: refinement): a
  server without a buffer loses what a short send leaves, so the peer must not leave
  more unanswered than a send buffer holds.

**HonestConnProofs.**

* `BoundsHold`: `Spec => [](TypeOK /\ BufferBounds)`. The invariant is `Bounded`, the
  two with `IdleUnlessOpen` (watchers exist only on an open connection), without
  which nothing relates `pending` to the state of the client. The step that needs
  care is `wcb_recv`: after the compaction `KeptBeg + to_send_size + Room` is exactly
  the size of the array (`KeptBounds`), and `recv` adds at most `Room`.
* `EchoIsFaithful`: `EchoIsPrefix` speaks of the bytes already sent; the invariant
  `Faithful` adds that the bytes owed, wherever the compaction has put them, continue
  the stream (`Owes`), and that sent and owed bytes together are those received.
  Lemmas follow a byte through the compaction (`KeptOwes`), the `recv`
  (`ReceivedOwes`) and the `send` (`SentFaithful`).
* `ServerImplementsChannel`: the refinement of `EchoChannel` under the mapping
  `recvd <- rcvd`, `open <- state # "closed"`. It rests on `Faithful`: a step only
  appends to `out` and only adds to `rcvd` (`StreamMoves`), and what is appended is
  the stretch of the stream the channel would append (`ReplyIsStream`); `ChannelStep`
  puts the two together for every action.
* `WatchersAreRight`, `CallbacksAreSafe`: `OwedBytesAreWatched` and `NoUseAfterFree`.
* `DropsHaveCause`: `DropsForCauseOrFull`, from `TimeoutIsDue` (an owed timeout
  means the time has run out, since restarting the timer withdraws it).

**PlainConnProofs.** `Safe` is the type with `CallbacksAreRight`: only an open
connection owes callbacks, an owed timeout has run out, and the timer is never
ahead of the time since the last answer. `CallbacksAreSafe` follows. `Answered` says
that all received bytes have been sent and that the peer keeps its window; then a
send finds room for all that a `recv` has brought (`SendTakesAll`), which gives
`DropsHaveCause` and `ServerImplementsChannel`.

**EpollConnProofs.** `EventsAreNotLost` (`StuckOnlyAfterFullRead`): with the bound of
the send buffer (`FitsSendBuffer`) the property is itself inductive, and holds for
every peer. `ClosesAtEnd` needs no invariant. `ServerImplementsChannel` has the
argument of `PlainConn`: unless the process has crashed or the connection has been
closed or has failed, every received byte has been sent.

**AsioJavaProofs.** The invariant of `AsioConn` names the phase a connection is in
(`Chain`: idle, reading, read, writing, written or failed), which operation or
posted handler is the one reference in each, and which bytes of the array are owed
in it. `ObjectHasOneReference` and `ServerImplementsChannel` are read off it.
For the Java server, `WorkerIsRight` relates the queue, the caller and the worker: a
wakeup that the spin has not eaten is still there, or the worker is on its way to
the queue (`RequestsAreStrandedBySpinOnly`). `BufferIsOwed` says that the buffer
holds the bytes received and not sent, and that the interest is in reading exactly
when there are none (`JavaServerImplementsChannel`).

**AcceptProofs.** `ConnectionHasOneOwner` (`OneOwner`) is not inductive by itself: that
a loop may store a connection in `sd` without losing one needs `Control` (`sd` is
used only between accept and `echo_client_add`, the mutex is held exactly between
lock and unlock), and that an accepted connection is nobody's yet needs `Ownership`
(the queue repeats nothing, holds nothing anyone owns, and whatever is owned has
arrived). `AcceptIsExclusive` is the mutual exclusion contained in `Control`.
`ClientStaysWithItsLoop` is an action theorem from the same invariant: what a loop
serves under no lock is out of every other thread's sight until it ends.
`PerlArraysAreRight` (`ArraysAreRight`) states a count of places in arrays. The
invariant replaces the count by `Placed`: no array repeats a connection, what is in
an array is open, no two arrays share one, and what is open is in some array;
`Waiting` and `Slots` say the same of the queue and bound the arrays. One lemma
(`PlacedMoves`) covers every change of an array: the append of an accept, the splice
in the middle of a walk, the end of a worker.

**BachanClientProofs.** `ClientInv` has five parts beside the type: only a live client
has watchers; the ramp's timer stops with the add that exceeds `MAX_CLIENTS`; what
an event owed says is still so when its callback runs (`EventsHold`: in particular
nothing was sent before the poll that reports the connect, so its `EV_READ` can only
be an end or spurious); `ts` is no older than any byte under way and is the time of
the last of them, which makes a sample exact when nothing is under way behind it; and
`SamplesAreSound`.
Theorems: `CallbacksAreSafe`, `LatencyIsSound`, `DropsHaveCause`.

**VirtanExchangeProofs.** `ErrorsAreCountedOnce` (`OneErrorPerConnection`) is one part of
`ExchangeInv`. `TimersMatchReplies` (`TimersAreRight`, which includes the code's assert)
needs that the timers are those of the unanswered messages in order (`TimersInOrder`) and that
the bytes under way, being read and still to be written are bytes of those messages
(`BytesAreOwed`; a sum over the write operations, given by a sequence of partial
sums since no recursion is available). `RepliesMatch` (`MismatchNeedsShortWrite`)
needs `MessagesAreWhole`: until a write is short the bytes are whole messages, one
after the other.

**LoadStatsProofs.** `CountersMatchConnections` (`CountersAreExact`): at most one birth is
under way (`OneBirth`), a handler has at most one thread at work on it
(`OneWorker`), and every handler born is counted in one place (`Ledger`), so that
each atomic increment is owed by exactly one connection. `PrintedNumbersAreSound`
(`ErrorsFirstIsSound`) adds that what `print_stat` read was so at the time
(`ReadsAreOld`): the errors only grow, and a connection that was an error at the first
read is not among those active at the second. For the Erlang client, `LoggerIsExact`
(`LogIsExact`): `Tally` counts the connectors the logger has heard of, and
`ReportsAre` says in which order a connector's reports travel. The messages are a sum
over all connectors, which without recursion is the number of pairs of a connector
and one of the replies it has reported; the logger takes one report at a time, and
with it exactly one pair is added (`PairsGrow`, `MessagesAreTold`).
`ExchangeErrorsHaveCause` (`ErrorsHaveCause`): `Orderly` says that without a fault
the bytes of one request at a time are on their way and a mailbox holds a whole
reply or nothing.

**Nothing stands still.** A liveness property has two parts: as long as the promise
is not kept, a step towards it can be taken; and the steps that can be taken are
taken. The second is fairness and is TLC's to check. The first is safety, and it is
where a lost wakeup, a forgotten callback or a mutex that is not released would show.
It is proved for every size, as an invariant that names the step:

| theorem | what is ahead | rests on | of |
|---|---|---|---|
| `OpenConnectionIsServed` of `HonestConn` | a started watcher that can receive or send a byte (`CanServe`), until all is answered or the peer does not read; the timeout, always | `AlwaysWatching`, `NoByteIsLost`, `OwedBytesAreWatched` | `EveryByteIsEchoed`, `ClosedPeerIsReclaimed` |
| `OpenConnectionIsServed` of `PlainConn` | a `recv` that brings bytes and a send buffer that takes them all | `Answered` | `EveryByteIsEchoed` |
| `EventsAreNotLost` of `EpollConn` | an edge or an event for bytes that wait | itself | `EveryByteIsEchoed` |
| `AcceptNeverStalls` | while a connection is queued, a loop can move (`CanMove`) or main still creates threads | `MainServes`, `Control` | `QueueIsServed` |
| `NobodyWaitsInVain` | a queued connection has a process that listens and has a slot | `Listening` | `EveryoneIsServed` |
| `LiveConnectionGoesOn` | a handler or an operation of server.cc (`CanGoOn`), until all is answered | `Chain` | `EveryByteIsEchoed` of `AsioConn` |
| `DeletesForCause` | an object is freed after a failure or when a closed peer has its answer, not before | `EndHasCause` | `ClosedPeerIsReclaimed` of `AsioConn` |
| `SleepOwesNothing` | a sleeping Java worker has nothing it could do for its open connection | `BufferIsOwed` | `WorkIsDone` |
| `OwedRequestsAreAttended` | an event, a callback, the connect or an echo (`Attended`) of client.c | `OwedIsWatched` | `RequestsAreSent` |
| `ExchangeNeverStalls` | a handler or operation of client.cc (`HandlerIsDue`) while a message is open | `ReadGoesOn`, `NoByteIsLost` | `EveryMessageIsSettled` |
| `RampNeverStalls` | a thread of client.cc with a handler to run (`CanServe`) until all have settled or main has returned | `Tended` | `AllConnectionsSettle` |
| `WaitingIsAttended` | a message, bytes or a process on the way to a waiting Erlang connector (`ReplyIsDue`), unless a timeout left its socket behind (`LeftBehind`) | `Answering` | `RepliesCome` |

The two called `NoByteIsLost` count. In `HonestConn` the bytes sent and the bytes in
the array are those received, in whichever order `memcpy` copies: a descending copy
spoils bytes but loses none. In `VirtanExchange` the bytes on the path, in the read
buffer, in the write operations and left to the handlers of short writes are exactly
those of the unanswered messages, whatever the writes were split into.

**Left to TLC.** The liveness properties (`EveryByteIsEchoed`, `ClosedPeerIsReclaimed`,
`QueueIsServed`, `RequestsAreSent`, `AllConnectionsSettle`, `EveryMessageIsSettled`,
`WorkIsDone`, `RepliesCome`, `EveryoneIsServed`): they need fairness and `ENABLED`,
which the prover does not handle. Their safety halves are the theorems of the table.
The violation that `honest_server_full` shows is TLC's too.

## Not modelled

* `js-nikita/tcp-cluster.js`: two callbacks that hand everything to Node. The
  sockets, their queues, the workers of the cluster and their deaths are all inside
  Node, and a model would be one of Node alone.
* `python-vkazanov`: one callback on tornado's `read_until_close` and a straight-line
  blocking sender. That the two wait for each other (echo.py writes when the peer
  closes, sender.py closes after the reply) is listed as a hazard; when the callback
  runs is tornado's decision.
* `Server.start`, `Server.stop` and `NewConnectionProcessor` of the Java server: the
  first fails as committed, the second is called by nobody, the third is created by
  nobody.
* `java-philipp/bin`: shell scripts around a process table and a pid file.
* Build files, and `perl-ershov/10kx.pl`, which is 10kx_decoded.pl encoded.
* Formatting of statistics, and the sums and extremes of samples.
