------------------------------ MODULE Framing ------------------------------
(***************************************************************************)
(* From bytes to packets on one gateway connection: the input Buffer, the  *)
(* packet codec, the WebSocket handshake and frames, and the loops of      *)
(* GatewayServer that decode what a read brought in.                       *)
(*                                                                         *)
(* The unit is half a packet header; every read may end after any unit.    *)
(* The client's whole stream is chosen at the start.  What the packet      *)
(* limiter answers (RateLimit) is a choice.                                *)
(***************************************************************************)
EXTENDS Integers, Sequences, FiniteSets

CONSTANTS
    InitialSize,    \* units of the buffer's first allocation
    HeaderLimit     \* units of an HTTP request without end that are too many

ASSUME FramingAssumption == InitialSize \in Nat /\ HeaderLimit \in Nat

VARIABLES
    stream,         \* what the client sends
    arrived,        \* units the server has read
    buffer,         \* cells, reader_index_ and writer_index_
    websocket,      \* websocket_connections_[name]
    pc,             \* where the message callback is
    payload,        \* packet_buffer of a binary frame
    handled,        \* packets given to the router, in order
    refused,        \* packets the limiter refused
    closed          \* why the connection was closed

framingVars == <<stream, arrived, buffer, websocket, pc, payload, handled, refused, closed>>

kCheapPrepend == 1
kPacketHeaderLength == 2
Blank == <<"blank">>

Body(p) == p % 2
Packet(p) == <<<<"head1", p>>, <<"head2", p>>>> \o [i \in 1 .. Body(p) |-> <<"body", p>>]
BadPacket == <<<<"head1", 0>>, <<"bad", 0>>>>
Frame(op, bytes) == <<<<"frame", op, Len(bytes)>>>> \o bytes
Http(outcome) == <<<<"get", 0>>, <<"end", outcome>>>>

WellFormed == {
    Packet(1) \o Packet(2) \o Packet(3),
    Http("ok") \o Frame("binary", Packet(1) \o Packet(2)) \o Frame("ping", <<>>)
               \o Frame("pong", <<>>) \o Frame("binary", Packet(3)) }
Malformed == {
    Packet(1) \o BadPacket \o Packet(2),
    Http("refused") \o Packet(1),
    [i \in 1 .. HeaderLimit + 1 |-> <<"get", 0>>],
    Http("ok") \o Frame("text", Packet(1)),
    Http("ok") \o Frame("binary", BadPacket \o Packet(1)),
    Http("ok") \o Frame("binary", Packet(1)) \o Frame("unmasked", Packet(2)),
    Http("ok") \o Frame("binary", Packet(1)) \o Frame("close", <<>>) }

FramingInit ==
    /\ stream \in WellFormed \cup Malformed
    /\ arrived = 0 /\ websocket = FALSE /\ pc = "idle" /\ payload = <<>>
    /\ buffer = [cells |-> [i \in 1 .. kCheapPrepend + InitialSize |-> Blank],
                 reader |-> kCheapPrepend, writer |-> kCheapPrepend]
    /\ handled = <<>> /\ refused = {} /\ closed = "no"

-----------------------------------------------------------------------------
(* Buffer                                                                   *)

Contents(b) == SubSeq(b.cells, b.reader + 1, b.writer)
Readable(b) == b.writer - b.reader
Writable(b) == Len(b.cells) - b.writer

retrieveAll(b) == [b EXCEPT !.reader = kCheapPrepend, !.writer = kCheapPrepend]
retrieve(b, n) == IF n < Readable(b) THEN [b EXCEPT !.reader = @ + n] ELSE retrieveAll(b)

\* Bytes copied to the cells after the first at of them
Copy(cells, at, bytes) ==
    [i \in 1 .. Len(cells) |-> IF i > at /\ i <= at + Len(bytes) THEN bytes[i - at] ELSE cells[i]]

\* The space before the reader is used again when it suffices; otherwise the
\* buffer grows
makeSpace(b, n) ==
    IF Writable(b) + b.reader < n + kCheapPrepend
    THEN [b EXCEPT !.cells = @ \o [i \in 1 .. n - Writable(b) |-> Blank]]
    ELSE [b EXCEPT !.cells = Copy(@, kCheapPrepend, Contents(b)), !.reader = kCheapPrepend,
                   !.writer = kCheapPrepend + Readable(b)]

append(b, bytes) ==
    LET room == IF Writable(b) < Len(bytes) THEN makeSpace(b, Len(bytes)) ELSE b
    IN  [room EXCEPT !.cells = Copy(@, room.writer, bytes), !.writer = @ + Len(bytes)]

\* readv() fills the buffer first; what does not fit is appended from the stack
readFd(b, bytes) ==
    LET fits == IF Len(bytes) <= Writable(b) THEN Len(bytes) ELSE Writable(b)
        first == [b EXCEPT !.cells = Copy(@, b.writer, SubSeq(bytes, 1, fits)), !.writer = @ + fits]
    IN  IF fits = Len(bytes) THEN first ELSE append(first, SubSeq(bytes, fits + 1, Len(bytes)))

-----------------------------------------------------------------------------
(* Codecs                                                                   *)

validateHeader(bytes) == bytes[1][1] = "head1" /\ bytes[2] = <<"head2", bytes[1][2]>>

\* PacketCodec::decode: the first packet of the bytes and its length
decode(bytes) ==
    IF Len(bytes) < kPacketHeaderLength THEN [status |-> "INCOMPLETE_PACKET"]
    ELSE IF ~validateHeader(bytes) THEN [status |-> "INVALID_HEADER"]
    ELSE LET length == kPacketHeaderLength + Body(bytes[1][2])
         IN  IF Len(bytes) < length THEN [status |-> "INCOMPLETE_PACKET"]
             ELSE [status |-> "OK", packet |-> bytes[1][2], length |-> length]

\* WebSocketFrameCodec::decode: fragments, unknown opcodes and unmasked frames are
\* protocol errors, found before the length is looked at
decodeFrame(bytes) ==
    IF bytes[1][1] # "frame" \/ bytes[1][2] = "unmasked" THEN [status |-> "PROTOCOL_ERROR"]
    ELSE IF bytes[1][3] > Len(bytes) - 1 THEN [status |-> "INCOMPLETE"]
    ELSE [status |-> "OK", opcode |-> bytes[1][2], payload |-> SubSeq(bytes, 2, 1 + bytes[1][3])]

-----------------------------------------------------------------------------
(* GatewayServer                                                            *)

\* The loop reads what the socket holds and runs the message callback
handleReadable(n) ==
    /\ pc = "idle" /\ closed = "no" /\ n \in 1 .. Len(stream) - arrived
    /\ arrived' = arrived + n
    /\ buffer' = readFd(buffer, SubSeq(stream, arrived + 1, arrived + n))
    /\ pc' = "message"
    /\ UNCHANGED <<stream, websocket, payload, handled, refused, closed>>

forceClose(why) == closed' = why /\ pc' = "idle"

tryHandleWebSocketHandshake(bytes) ==
    LET end == {i \in 1 .. Len(bytes) : bytes[i][1] = "end"}
        last == CHOOSE i \in end : \A j \in end : i <= j
    IN  \/ /\ end = {} /\ UNCHANGED <<buffer, websocket>>
           /\ IF Len(bytes) > HeaderLimit THEN forceClose("header too large")
              ELSE pc' = "idle" /\ UNCHANGED closed
        \/ /\ end # {} /\ buffer' = retrieve(buffer, last)
           /\ IF bytes[last][2] = "ok" THEN websocket' = TRUE /\ pc' = "frames" /\ UNCHANGED closed
              ELSE forceClose("bad request") /\ UNCHANGED websocket

\* onMessage: bytes that start with GET are a handshake
onMessage ==
    LET http == ~websocket /\ Contents(buffer)[1][1] = "get"
    IN  /\ pc = "message"
        /\ \/ /\ ~http /\ pc' = IF websocket THEN "frames" ELSE "packets"
              /\ UNCHANGED <<buffer, websocket, closed>>
           \/ http /\ tryHandleWebSocketHandshake(Contents(buffer))
        /\ UNCHANGED <<stream, arrived, payload, handled, refused>>

\* allowPacket, and what becomes of an allowed packet
Route(p) == handled' = Append(handled, p) /\ UNCHANGED refused
Refuse(p) == refused' = refused \cup {p} /\ UNCHANGED handled

\* Mutation: one packet for each read
onTcpMessageOnce ==
    LET d == decode(Contents(buffer))
    IN  /\ pc = "packets" /\ pc' = "idle"
        /\ IF d.status = "OK" THEN buffer' = retrieve(buffer, d.length) /\ Route(d.packet)
           ELSE UNCHANGED <<buffer, handled, refused>>
        /\ UNCHANGED <<stream, arrived, websocket, payload, closed>>

\* One turn of onTcpMessage's loop.  A refused packet takes everything that was
\* read after it along
onTcpMessage ==
    LET d == decode(Contents(buffer))
    IN  /\ pc = "packets"
        /\ \/ /\ d.status = "OK" /\ Route(d.packet)
              /\ buffer' = retrieve(buffer, d.length) /\ UNCHANGED <<pc, closed>>
           \/ /\ d.status = "OK" /\ Refuse(d.packet)
              /\ buffer' = retrieveAll(buffer) /\ pc' = "idle" /\ UNCHANGED closed
           \/ /\ d.status = "INCOMPLETE_PACKET" /\ pc' = "idle"
              /\ UNCHANGED <<buffer, handled, refused, closed>>
           \/ /\ d.status = "INVALID_HEADER" /\ forceClose("invalid packet")
              /\ buffer' = retrieveAll(buffer) /\ UNCHANGED <<handled, refused>>
        /\ UNCHANGED <<stream, arrived, websocket, payload>>

\* One turn of onWebSocketMessage's outer loop
onWebSocketMessage ==
    LET bytes == Contents(buffer)
        f == decodeFrame(bytes)
    IN  /\ pc = "frames"
        /\ IF bytes = <<>> THEN pc' = "idle" /\ UNCHANGED <<buffer, payload, closed>>
           ELSE \/ /\ f.status = "INCOMPLETE" /\ pc' = "idle"
                   /\ UNCHANGED <<buffer, payload, closed>>
                \/ /\ f.status = "PROTOCOL_ERROR" /\ forceClose("protocol error")
                   /\ buffer' = retrieveAll(buffer) /\ UNCHANGED payload
                \/ /\ f.status = "OK" /\ buffer' = retrieve(buffer, 1 + Len(f.payload))
                   /\ CASE f.opcode \in {"ping", "pong"} -> UNCHANGED <<pc, payload, closed>>
                        [] f.opcode = "binary" -> /\ payload' = f.payload /\ pc' = "payload"
                                                  /\ UNCHANGED closed
                        [] OTHER -> forceClose(f.opcode) /\ UNCHANGED payload
        /\ UNCHANGED <<stream, arrived, websocket, handled, refused>>

\* One turn of its inner loop, over the packets of a binary frame
onFramePayload ==
    LET d == decode(payload)
    IN  /\ pc = "payload"
        /\ \/ /\ d.status = "OK" /\ Route(d.packet)
              /\ payload' = SubSeq(payload, d.length + 1, Len(payload)) /\ UNCHANGED <<pc, closed>>
           \/ /\ d.status = "OK" /\ Refuse(d.packet)
              /\ payload' = <<>> /\ pc' = "idle" /\ UNCHANGED closed
           \/ /\ d.status = "INCOMPLETE_PACKET" /\ pc' = "frames" /\ payload' = <<>>
              /\ UNCHANGED <<handled, refused, closed>>
           \/ /\ d.status = "INVALID_HEADER" /\ forceClose("invalid packet") /\ payload' = <<>>
              /\ UNCHANGED <<handled, refused>>
        /\ UNCHANGED <<stream, arrived, buffer, websocket>>

FramingNext ==
    \/ \E n \in 1 .. Len(stream) : handleReadable(n)
    \/ onMessage \/ onTcpMessage \/ onWebSocketMessage \/ onFramePayload

FramingSpec == FramingInit /\ [][FramingNext]_framingVars

-----------------------------------------------------------------------------
(* Properties                                                               *)

\* What the buffer holds is the end of what was received, in order and complete:
\* growing, moving the data to the front and reading past the end of the space
\* lose and repeat nothing (Buffer::makeSpace, append, readFd, retrieve)
BufferIsAQueue ==
    /\ kCheapPrepend <= buffer.reader /\ buffer.reader <= buffer.writer
    /\ buffer.writer <= Len(buffer.cells)
    /\ Contents(buffer) = SubSeq(stream, arrived - Readable(buffer) + 1, arrived)

Received(p) == \E i \in 1 .. arrived - Len(Packet(p)) + 1 :
                   SubSeq(stream, i, i + Len(Packet(p)) - 1) = Packet(p)

\* A client whose stream is well formed is disconnected only on a plain TCP
\* connection and only after a packet was refused: there the rest of the read is
\* thrown away with it, half packets included, and the next bytes are taken for a
\* header (onTcpMessage).  A WebSocket client never is
WellFormedStaysConnected ==
    stream \in WellFormed /\ closed # "no" => ~websocket /\ refused # {}

\* A packet reaches the router once, in the order sent, however the reads cut the
\* stream; and when the callback has returned every packet that had arrived was
\* routed or refused, unless the connection closed or a packet was refused before.
\* The buffer loses nothing on the way, and who sends well-formed packets is not
\* disconnected (onTcpMessage, onWebSocketMessage, Buffer).
EveryPacketIsRouted ==
    /\ BufferIsAQueue /\ WellFormedStaysConnected
    /\ \A i, j \in 1 .. Len(handled) : i < j => handled[i] < handled[j]
    /\ pc = "idle" /\ closed = "no" /\ refused = {} /\ stream \in WellFormed =>
           \A p \in 1 .. 3 : Received(p) /\ (websocket => arrived = Len(stream)) =>
               \E i \in 1 .. Len(handled) : handled[i] = p
=============================================================================
