------------------------------- MODULE Reactor ------------------------------
(***************************************************************************)
(* The network layer (common/net): an I/O loop (EventLoop, EpollPoller)    *)
(* that runs one connection (TcpConnection, Channel), the base loop that   *)
(* accepts and forgets it (Acceptor, TcpServer), of which only the two     *)
(* functors are modelled, and threads of the application that call         *)
(* TcpConnection::send and forceClose or queue a callback                  *)
(* (GatewayServiceImpl, RpcExecutor).                                      *)
(*                                                                         *)
(* A step is one event handler, one functor or one access of a calling     *)
(* thread to state_, the functor queue or the eventfd.  state_ is neither  *)
(* atomic nor locked, so a check and the write after it are two steps.  A  *)
(* message is two chunks, of which a write may take any number.            *)
(* TcpConnection::shutdown has no caller and is left out.                  *)
(***************************************************************************)
EXTENDS Integers, Sequences, FiniteSets

CONSTANTS
    Callers,        \* threads outside the loops
    MaxInputs       \* bound: calls of those threads and arrivals of data

VARIABLES
    link,           \* TcpConnection::state_; "none" before the accept
    index,          \* Channel::index_, the channel's place in the poller
    interest,       \* Channel::events_
    outbuf,         \* output_buffer_
    wire,           \* the chunks the kernel took, in order
    given,          \* messages sendInLoop was given while not DISCONNECTED
    tls,            \* ssl_ and tls_handshake_done_: "off", "handshake" or "done"
    peer,           \* the other end: "open", "eof" or "reset"
    mapped,         \* the connection is in TcpServer::connections_
    removals,       \* removeConnectionInLoop functors queued on the base loop
    ups, downs,     \* calls of connection_callback_ while connected and not
    pending,        \* EventLoop::pending_functors_
    batch,          \* the functors doPendingFunctors has yet to run
    woken,          \* the eventfd is readable
    at,             \* where each loop is in loop()
    active,         \* what poll reported and is not handled yet
    call,           \* where each caller is
    inputs

socket == <<link, index, interest, outbuf, wire, given, tls>>
server == <<mapped, removals, ups, downs>>
loops == <<pending, batch, woken, at, active>>
callers == <<call, inputs>>
reactorVars == <<socket, peer, server, loops, callers>>

Idle == [pc |-> "idle", op |-> "none"]

\* The channel and timer of a new server: loops started, nothing accepted
ReactorInit ==
    /\ link = "none" /\ index = "kNew" /\ interest = {}
    /\ outbuf = << >> /\ wire = << >> /\ given = 0
    /\ tls \in {"off", "handshake"}
    /\ peer = "open"
    /\ mapped = FALSE /\ removals = 0 /\ ups = 0 /\ downs = 0
    /\ pending = << >> /\ batch = << >> /\ woken = FALSE
    /\ at = "poll" /\ active = {}
    /\ call = [t \in Callers |-> Idle] /\ inputs = 0

-----------------------------------------------------------------------------
(* EventLoop                                                                *)

\* queueInLoop, called by a loop; self: by the I/O loop's own thread
queueInLoop(f, self) ==
    /\ pending' = Append(pending, f)
    /\ woken' = (woken \/ ~ self \/ at = "functors")

\* runInLoop, called by a thread that is not the loop's
runInLoop(f) == queueInLoop(f, FALSE)

\* What epoll_wait reports: level-triggered, EPOLLHUP whether asked for or not
Ready(arrived) ==
    (IF woken THEN {"wake"} ELSE {})
    \cup (IF index = "kAdded"
          THEN {e \in interest : \/ e = "write"
                                 \/ e = "read" /\ (peer # "open" \/ arrived)}
               \cup (IF peer = "reset" THEN {"hup"} ELSE {})
          ELSE {})

\* EpollPoller::poll and fillActiveChannels; data arrive at any time, and after ten
\* seconds poll returns without any
poll ==
    /\ at = "poll" /\ at' = "events"
    /\ \E arrived \in BOOLEAN :
          /\ inputs' = IF arrived THEN inputs + 1 ELSE inputs
          /\ inputs' <= MaxInputs
          /\ active' = Ready(arrived)
    /\ UNCHANGED <<socket, peer, server, pending, batch, woken, call>>

Handled(events) == active' = active \ events

handleWakeupRead ==
    /\ "wake" \in active
    /\ woken' = FALSE
    /\ Handled({"wake"})
    /\ UNCHANGED <<socket, peer, server, pending, batch, at, callers>>

\* All events are handled: doPendingFunctors takes the functors queued so far
doPendingFunctors ==
    /\ at = "events" /\ active = {}
    /\ at' = "functors"
    /\ batch' = pending
    /\ pending' = << >>
    /\ UNCHANGED <<socket, peer, server, woken, active, callers>>

nextIteration ==
    /\ at = "functors" /\ batch = << >>
    /\ at' = "poll"
    /\ UNCHANGED <<socket, peer, server, pending, batch, woken, active, callers>>

Functor(f) ==
    /\ at = "functors" /\ batch # << >> /\ Head(batch) = f
    /\ batch' = Tail(batch)

-----------------------------------------------------------------------------
(* Channel and EpollPoller                                                  *)

\* Channel::update, EpollPoller::updateChannel: a channel that is not in the
\* poller is added, even without events
updateChannel(events) ==
    /\ interest' = events
    /\ index' = IF index = "kAdded" /\ events = {} THEN "kDeleted" ELSE "kAdded"

\* enableWriting and disableWriting where the code asks isWriting first
setWriting(on) ==
    IF on = ("write" \in interest) THEN UNCHANGED <<interest, index>>
    ELSE updateChannel(IF on THEN interest \cup {"write"} ELSE interest \ {"write"})

-----------------------------------------------------------------------------
(* Closing                                                                  *)

\* TcpServer::removeConnection, which is close_callback_, hands over to the base loop
removeConnection == removals' = removals + 1

\* TcpConnection::handleClose: connection_callback_, then close_callback_.  It
\* runs in the I/O loop, and it may run twice
handleClose ==
    /\ link' = "DISCONNECTED"
    /\ updateChannel({})
    /\ downs' = downs + 1
    /\ removeConnection
    /\ UNCHANGED <<pending, woken>>

\* The functor of forceClose
forceCloseInLoop ==
    /\ Functor("forceClose")
    /\ \/ link \in {"CONNECTED", "DISCONNECTING"} /\ handleClose
       \/ link = "DISCONNECTED" /\ UNCHANGED <<link, interest, index, removals, downs, pending, woken>>
    /\ UNCHANGED <<outbuf, wire, given, tls, peer, mapped, ups, at, active, callers>>

\* Mutation: the server keeps its entry
removeConnectionKeepsEntry ==
    /\ removals > 0 /\ removals' = removals - 1
    /\ queueInLoop("destroy", FALSE)
    /\ UNCHANGED <<socket, peer, mapped, ups, downs, batch, at, active, callers>>

removeConnectionInLoop ==
    /\ removals > 0 /\ removals' = removals - 1
    /\ mapped' = FALSE
    /\ queueInLoop("destroy", FALSE)
    /\ UNCHANGED <<socket, peer, ups, downs, batch, at, active, callers>>

\* The state is CONNECTED only while the server is torn down, which is left out
connectDestroyed ==
    /\ Functor("destroy")
    /\ index' = "kNew"
    /\ UNCHANGED <<link, interest, outbuf, wire, given, tls, peer, server,
                   pending, woken, at, active, callers>>

-----------------------------------------------------------------------------
(* Opening                                                                  *)

\* Acceptor::handleRead and TcpServer::newConnection
newConnection ==
    /\ link = "none"
    /\ mapped' = TRUE /\ link' = "CONNECTING"
    /\ runInLoop("establish")
    /\ UNCHANGED <<index, interest, outbuf, wire, given, tls, peer, ups, downs, removals,
                   batch, at, active, callers>>

\* A TLS session that cannot be created closes the connection before it was up
connectEstablished ==
    /\ Functor("establish")
    /\ \/ /\ link' = "CONNECTED" /\ updateChannel({"read"})
          /\ ups' = ups + 1 /\ UNCHANGED <<removals, downs, pending, woken>>
       \/ tls # "off" /\ handleClose /\ UNCHANGED ups
    /\ UNCHANGED <<outbuf, wire, given, tls, peer, mapped, at, active, callers>>

-----------------------------------------------------------------------------
(* Writing                                                                  *)

Chunks(n) == <<<<n, 1>>, <<n, 2>>>>
From(s, k) == SubSeq(s, k + 1, Len(s))

\* The kernel takes the first k chunks of s
Take(s, k) == wire' = wire \o SubSeq(s, 1, k)

\* handleTlsWrite once the handshake is done: SSL_write until the buffer is empty
\* or would block; other errors close the connection
tlsWrite(buffer) ==
    \/ /\ peer # "reset"
       /\ \E k \in 0 .. Len(buffer) :
             /\ Take(buffer, k) /\ outbuf' = From(buffer, k)
             /\ setWriting(k < Len(buffer))
       /\ UNCHANGED <<link, removals, downs, pending, woken>>
    \/ peer = "reset" /\ handleClose /\ outbuf' = buffer /\ UNCHANGED wire

\* doTlsHandshake, until SSL_accept is satisfied; done is what follows
handshake(buffer, done) ==
    \/ tls = "done" /\ done /\ UNCHANGED tls
    \/ /\ tls = "handshake" /\ peer = "open" /\ tls' = "done"
       /\ done
    \/ /\ tls = "handshake" /\ outbuf' = buffer
       /\ \/ \E wantWrite \in BOOLEAN : setWriting(wantWrite) /\ UNCHANGED <<link, removals, downs, pending, woken>>
          \/ handleClose
       /\ UNCHANGED <<tls, wire>>

\* Mutation: the data are handed to the socket although older ones are buffered
sendInLoopUnordered(data) ==
    \/ /\ tls = "off" /\ peer # "reset"
       /\ \E k \in 0 .. 2 : /\ Take(data, k) /\ outbuf' = outbuf \o From(data, k)
                            /\ setWriting(outbuf # << >> \/ k < 2)
       /\ UNCHANGED <<tls, link, removals, downs, pending, woken>>
    \/ tls # "off" /\ handshake(outbuf \o data, tlsWrite(outbuf \o data))

\* sendInLoop below its check of DISCONNECTED.  A socket error drops the data
sendInLoop(data) ==
    \/ /\ tls = "off" /\ "write" \notin interest /\ outbuf = << >>
       /\ \/ peer # "reset" /\ \E k \in 0 .. 2 : /\ Take(data, k) /\ outbuf' = From(data, k)
                                                 /\ setWriting(k < 2)
          \/ peer = "reset" /\ UNCHANGED <<wire, outbuf, interest, index>>
       /\ UNCHANGED <<tls, link, removals, downs, pending, woken>>
    \/ /\ tls = "off" /\ ("write" \in interest \/ outbuf # << >>)
       /\ outbuf' = outbuf \o data /\ setWriting(TRUE)
       /\ UNCHANGED <<tls, wire, link, removals, downs, pending, woken>>
    \/ tls # "off" /\ handshake(outbuf \o data, tlsWrite(outbuf \o data))

\* The message is sent in one of these states, dropped in any other
SendMessage(states) ==
    \/ /\ link \in states
       /\ given' = given + 1 /\ sendInLoop(Chunks(given + 1))
    \/ link \notin states /\ UNCHANGED <<socket, removals, downs, pending, woken>>

\* The functor of TcpConnection::send
sendFunctor ==
    /\ Functor("send")
    /\ SendMessage({"CONNECTED", "DISCONNECTING"})
    /\ UNCHANGED <<peer, mapped, ups, at, active, callers>>

\* forceClose called in the loop's own thread
closeInLoop ==
    /\ link \in {"CONNECTED", "DISCONNECTING"} /\ link' = "DISCONNECTING"
    /\ queueInLoop("forceClose", TRUE)
    /\ UNCHANGED <<index, interest, outbuf, wire, given, tls, removals, downs>>

\* RpcExecutor's callback in the loop, which looks the connection up again: a
\* reply, or bindUser's forceClose of the connection another one replaces
callback ==
    /\ Functor("callback")
    /\ \/ downs = 0 /\ SendMessage({"CONNECTED"})
       \/ downs = 0 /\ closeInLoop
       \/ downs > 0 /\ UNCHANGED <<socket, removals, downs, pending, woken>>
    /\ UNCHANGED <<peer, mapped, ups, at, active, callers>>

Event(e) == at = "events" /\ e \in active /\ active \cap {"wake"} = {}

\* handleWrite; SSL may still want its handshake.  A buffer emptied while the
\* state is DISCONNECTING is followed by the FIN (shutdownInLoop)
handleWrite ==
    /\ Event("write") /\ {"read", "hup"} \cap active = {}
    /\ Handled({"write"})
    /\ \/ "write" \notin interest /\ UNCHANGED <<socket, removals, downs, pending, woken>>
       \/ /\ "write" \in interest /\ tls = "off"
          /\ \/ /\ peer # "reset" /\ outbuf # << >>
                /\ \E k \in 1 .. Len(outbuf) : /\ Take(outbuf, k) /\ outbuf' = From(outbuf, k)
                                               /\ setWriting(k < Len(outbuf))
             \/ UNCHANGED <<wire, outbuf, interest, index>>
          /\ UNCHANGED <<link, given, tls, removals, downs, pending, woken>>
       \/ /\ "write" \in interest /\ tls # "off"
          /\ handshake(outbuf, tlsWrite(outbuf)) /\ UNCHANGED given
    /\ UNCHANGED <<peer, mapped, ups, batch, at, callers>>

-----------------------------------------------------------------------------
(* Reading                                                                  *)

\* EPOLLHUP without EPOLLIN, and end of file, close the connection.  A read error
\* is only logged (handleError); TLS closes on it
handleHangup ==
    /\ \/ Event("hup") /\ "read" \notin active /\ Handled({"hup"})
       \/ Event("read") /\ peer # "open" /\ Handled({"read", "hup"})
    /\ handleClose
    /\ UNCHANGED <<outbuf, wire, given, tls, peer, mapped, ups, batch, at, callers>>

handleError ==
    /\ Event("read") /\ peer = "reset" /\ tls = "off"
    /\ Handled({"read", "hup"})
    /\ UNCHANGED <<socket, peer, server, pending, batch, woken, at, callers>>

\* handleTlsRead after the handshake it ends: writing is watched for what is buffered
tlsReadTail ==
    /\ setWriting(outbuf # << >>)
    /\ UNCHANGED <<wire, outbuf, link, removals, downs, pending, woken>>

\* Data arrive: the message callback answers, closes (forceClose in the loop's own
\* thread) or does neither
handleRead ==
    /\ Event("read") /\ peer = "open"
    /\ Handled({"read"})
    /\ \/ tls # "handshake" /\ (SendMessage({"CONNECTED"}) \/ closeInLoop)
       \/ tls # "handshake" /\ UNCHANGED <<socket, removals, downs, pending, woken>>
       \/ tls = "handshake" /\ handshake(outbuf, tlsReadTail) /\ UNCHANGED given
    /\ UNCHANGED <<peer, mapped, ups, batch, at, callers>>

peerCloses ==
    /\ link \notin {"none", "CONNECTING"}
    /\ \/ peer = "open" /\ peer' = "eof"
       \/ peer # "reset" /\ peer' = "reset"
    /\ UNCHANGED <<socket, server, loops, callers>>

-----------------------------------------------------------------------------
(* The callers                                                              *)

Step(t, place) == call' = [call EXCEPT ![t].pc = place]

\* getConnection finds the connection between its two callbacks.
enter(t, op) ==
    /\ call[t] = Idle /\ inputs < MaxInputs
    /\ ups > 0 /\ downs = 0
    /\ call' = [call EXCEPT ![t] = [pc |-> IF op = "forceClose" THEN "set" ELSE "push", op |-> op]]
    /\ inputs' = inputs + 1
    /\ UNCHANGED <<socket, peer, server, loops>>

\* The RPCs of GatewayServiceImpl look at state_, and send and forceClose once more
DeliverToConnection(t) == link = "CONNECTED" /\ enter(t, "send")
KickConnection(t) == link = "CONNECTED" /\ enter(t, "forceClose")
KickUser(t) == link \in {"CONNECTED", "DISCONNECTING"} /\ enter(t, "forceClose")

\* A worker of the RPC executor hands its callback to the loop
complete(t) == enter(t, "callback")

setState(t) ==
    /\ call[t].pc = "set"
    /\ link' = "DISCONNECTING"
    /\ Step(t, "push")
    /\ UNCHANGED <<index, interest, outbuf, wire, given, tls, peer, server, loops, inputs>>

push(t) ==
    /\ call[t].pc = "push"
    /\ pending' = Append(pending, call[t].op)
    /\ Step(t, "wake")
    /\ UNCHANGED <<socket, peer, server, batch, woken, at, active, inputs>>

wakeup(t) ==
    /\ call[t].pc = "wake"
    /\ woken' = TRUE
    /\ call' = [call EXCEPT ![t] = Idle]
    /\ UNCHANGED <<socket, peer, server, pending, batch, at, active, inputs>>

-----------------------------------------------------------------------------
IoStep ==
    \/ poll \/ handleWakeupRead \/ doPendingFunctors \/ nextIteration
    \/ connectEstablished \/ connectDestroyed \/ forceCloseInLoop
    \/ sendFunctor \/ callback \/ handleRead \/ handleHangup \/ handleError \/ handleWrite

BaseStep == newConnection \/ removeConnectionInLoop

CallerStep(t) == setState(t) \/ push(t) \/ wakeup(t)

ReactorNext ==
    \/ IoStep \/ BaseStep \/ peerCloses
    \/ \E t \in Callers : \/ CallerStep(t)
                          \/ DeliverToConnection(t) \/ KickConnection(t) \/ KickUser(t) \/ complete(t)

ReactorSpec == ReactorInit /\ [][ReactorNext]_reactorVars

-----------------------------------------------------------------------------
(* Properties                                                               *)

\* Nobody holds a shared_ptr to the connection: neither the server, nor a functor
\* (RpcExecutor's callback has none), nor a caller
Freed ==
    /\ link # "none" /\ ~ mapped
    /\ removals = 0
    /\ \A i \in DOMAIN pending : pending[i] = "callback"
    /\ \A i \in DOMAIN batch : batch[i] = "callback"
    /\ \A t \in Callers : call[t].op \in {"none", "callback"}

\* When the last reference to a connection goes, its channel has left the poller
\* for good (EpollPoller::channels_ holds raw pointers)
FreedIsForgotten == Freed => index = "kNew"

\* A loop never sleeps in poll over queued functors: the eventfd is readable, or
\* the thread that queued them is about to write it (EventLoop::queueInLoop)
PendingIsWoken ==
    at = "poll" /\ pending # << >> => woken \/ \E t \in Callers : call[t].pc = "wake"

\* A connected socket with buffered output that waits in poll waits for the socket
\* to become writable, unless the TLS handshake has to make progress first; the
\* handshake's end hands the buffered output over (handleTlsRead)
OutputIsWatched ==
    at = "poll" /\ link = "CONNECTED" /\ outbuf # << >> =>
        "write" \in interest \/ tls = "handshake"

\* What reached the socket and what is buffered are, in order and without a gap,
\* the messages handed to sendInLoop, whatever the sizes of the writes; only a
\* reset connection loses some, at the end; and what is buffered is watched
\* (sendInLoop, handleWrite, handleTlsRead).
WireIsTheStream ==
    LET stream == [i \in 1 .. 2 * given |-> <<(i + 1) \div 2, IF i % 2 = 1 THEN 1 ELSE 2>>]
        out == wire \o outbuf
    IN  /\ Len(out) <= Len(stream) /\ out = SubSeq(stream, 1, Len(out))
        /\ peer # "reset" => Len(out) = Len(stream)
        /\ OutputIsWatched

\* A connection whose close was announced is released: the close travels from the
\* I/O loop to the base loop and back, through queues that other threads fill and
\* over which no loop sleeps.  And it is released with its channel forgotten, also
\* when forceClose on another thread overwrote DISCONNECTED, so that handleClose
\* ran a second time and put the channel back (handleClose, connectDestroyed).
ClosedIsReleased == [](FreedIsForgotten /\ PendingIsWoken) /\ []<>(downs > 0 => Freed)
=============================================================================
