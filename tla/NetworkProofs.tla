--------------------------- MODULE NetworkProofs ----------------------------
(***************************************************************************)
(* Proofs about the network layer, for any number of calls, bytes and      *)
(* threads and any size of the first allocation: what is sent on a         *)
(* connection is what its socket gets, in order (Reactor), and the input   *)
(* buffer is a queue of what arrived (Framing).                            *)
(*                                                                         *)
(* The first needs an account of every piece that is between a caller and  *)
(* the socket: in a functor that waits, in the output buffer or written.   *)
(* The second is about Buffer alone: the cells between its two indices are *)
(* what arrived and was not taken, whatever growing, moving to the front   *)
(* and reading past the end did to them.                                   *)
(***************************************************************************)
EXTENDS Reactor, Framing, TLAPS, SequenceTheorems

-----------------------------------------------------------------------------
(* Reactor: what is sent is what the socket gets                            *)

Pieces == Nat \X {1, 2}
Functors == {"establish", "destroy", "forceClose", "send", "callback"}

CallOk ==
    /\ call \in [Callers -> [pc : {"idle", "set", "push", "wake"},
                             op : {"none", "send", "forceClose", "callback"}]]
    /\ \A t \in Callers : call[t].pc \in {"set", "push"} => call[t].op # "none"

ReactorTypeOK ==
    /\ link \in {"none", "CONNECTING", "CONNECTED", "DISCONNECTING", "DISCONNECTED"}
    /\ wire \in Seq(Pieces) /\ outbuf \in Seq(Pieces) /\ given \in Nat
    /\ pending \in Seq(Functors) /\ batch \in Seq(Functors)
    /\ CallOk

\* Until the connection is established its functor is the only one there is, and no event
\* of the channel is under way; it is established once
NotUp == link \in {"none", "CONNECTING"}
Has(queue, f) == \E i \in 1 .. Len(queue) : queue[i] = f
StartInv ==
    /\ NotUp => /\ index = "kNew" /\ outbuf = << >> /\ given = 0
                /\ removals = 0 /\ ups = 0 /\ active \subseteq {"wake"}
                /\ \A t \in Callers : call[t] = Idle
    /\ link = "none" => pending = << >> /\ batch = << >>
    /\ link = "CONNECTING" => \/ pending = <<"establish">> /\ batch = << >>
                              \/ pending = << >> /\ batch = <<"establish">>
    /\ ~ NotUp => ~ Has(pending, "establish") /\ ~ Has(batch, "establish")
    /\ at # "functors" => batch = << >>

\* The stream of chunks
Chunk(i) == <<(i + 1) \div 2, IF i % 2 = 1 THEN 1 ELSE 2>>

\* s is the stream up to some chunk of the given messages
Prefix(s) ==
    /\ Len(s) <= 2 * given
    /\ \A i \in 1 .. Len(s) : s[i] = Chunk(i)

\* Only the plain socket of a reset connection drops a message, and once it has dropped
\* one nothing after it is buffered
GapInv ==
    Len(wire \o outbuf) < 2 * given =>
        peer = "reset" /\ tls = "off" /\ outbuf = << >> /\ "write" \notin interest

WatchInv == link = "CONNECTED" /\ outbuf # << >> => "write" \in interest \/ tls = "handshake"

StreamInv == Prefix(wire \o outbuf) /\ GapInv /\ WatchInv

ReactorInv == ReactorTypeOK /\ StartInv /\ StreamInv

\* Nothing is accepted yet.
LEMMA ReactorInitially == ReactorInit => ReactorInv
<1> SUFFICES ASSUME ReactorInit PROVE ReactorInv
    BY Zenon
<1>1. << >> \in Seq(Pieces) /\ << >> \in Seq(Functors) /\ << >> \o << >> = << >> /\ Len(<< >>) = 0
    OBVIOUS
<1>2. Idle \in [pc : {"idle", "set", "push", "wake"}, op : {"none", "send", "forceClose", "callback"}]
      /\ Idle.pc = "idle"
    BY Zenon DEF Idle
<1>3. CallOk
    BY <1>2, Zenon DEF ReactorInit, CallOk
<1>6. ReactorTypeOK
    BY <1>1, <1>3, Zenon DEF ReactorInit, ReactorTypeOK
<1>4. StartInv
    BY Zenon DEF ReactorInit, StartInv, NotUp
<1>5. StreamInv
    BY <1>1 DEF ReactorInit, StreamInv, Prefix, GapInv, WatchInv
<1> QED
    BY <1>4, <1>5, <1>6, Zenon DEF ReactorInv

\* The invariant says in terms of chunks what WireIsTheStream says of the whole stream.
LEMMA ReactorFromInv == ReactorInv => WireIsTheStream
<1> SUFFICES ASSUME ReactorInv PROVE WireIsTheStream
    BY Zenon
<1> DEFINE whole == [i \in 1 .. 2 * given |-> <<(i + 1) \div 2, IF i % 2 = 1 THEN 1 ELSE 2>>]
           out == wire \o outbuf
<1>1. given \in Nat /\ out \in Seq(Pieces) /\ Len(out) \in Nat /\ 2 * given \in Nat
    BY DEF ReactorInv, ReactorTypeOK
<1>2. ASSUME NEW i \in 1 .. 2 * given PROVE whole[i] \in Pieces /\ whole[i] = Chunk(i)
    <2>1. i \in Nat /\ (i + 1) \div 2 \in Nat
        BY <1>1
    <2>2. whole[i] = Chunk(i)
        BY Zenon DEF Chunk
    <2>3. Chunk(i) \in Pieces
        BY <2>1, Zenon DEF Chunk, Pieces
    <2> QED
        BY <2>2, <2>3, Zenon
<1>3. whole \in [1 .. 2 * given -> Pieces]
    BY <1>2, Zenon
<1>4. whole \in Seq(Pieces)
    BY <1>1, <1>3, SeqDef
<1>5. Len(whole) = 2 * given
    <2>1. DOMAIN whole = 1 .. Len(whole) /\ Len(whole) \in Nat /\ DOMAIN whole = 1 .. 2 * given
        BY <1>3, <1>4, LenProperties, Zenon
    <2> QED
        BY <1>1, <2>1
<1>6. Len(out) <= 2 * given /\ \A i \in 1 .. Len(out) : out[i] = Chunk(i)
    BY Zenon DEF ReactorInv, StreamInv, Prefix
<1>7. out = SubSeq(whole, 1, Len(out))
    <2> HIDE DEF out, whole
    <2>1. \A i \in 1 .. Len(out) : whole[i] \in Pieces /\ whole[i] = Chunk(i)
        BY <1>1, <1>2, <1>6
    <2>2. /\ SubSeq(whole, 1, Len(out)) \in Seq(Pieces)
          /\ Len(SubSeq(whole, 1, Len(out))) = IF 1 <= Len(out) THEN Len(out) - 1 + 1 ELSE 0
          /\ \A i \in 1 .. Len(out) - 1 + 1 : SubSeq(whole, 1, Len(out))[i] = whole[1 + i - 1]
        <3>1. 1 \in Int /\ Len(out) \in Int /\ \A i \in 1 .. Len(out) : whole[i] \in Pieces
            BY <1>1, <2>1
        <3> QED
            BY <3>1, SubSeqProperties
    <2>3. Len(SubSeq(whole, 1, Len(out))) = Len(out)
        BY <1>1, <2>2
    <2>4. ASSUME NEW i \in 1 .. Len(out) PROVE out[i] = SubSeq(whole, 1, Len(out))[i]
        <3>1. i \in 1 .. Len(out) - 1 + 1 /\ 1 + i - 1 = i
            BY <1>1
        <3>2. SubSeq(whole, 1, Len(out))[i] = whole[i]
            BY <2>2, <3>1, Zenon
        <3> QED
            BY <1>6, <2>1, <3>2, Zenon
    <2> QED
        BY <1>1, <2>2, <2>3, <2>4, SeqEqual
<1>8. peer # "reset" => Len(out) = Len(whole)
    BY <1>1, <1>5, <1>6 DEF ReactorInv, StreamInv, GapInv
<1>9. OutputIsWatched
    BY Zenon DEF ReactorInv, StreamInv, WatchInv, OutputIsWatched
<1>10. Len(out) <= Len(whole)
    BY <1>5, <1>6, Zenon
<1> QED
    BY <1>7, <1>8, <1>9, <1>10, Zenon DEF WireIsTheStream

\* Pieces that are written one after the other can be joined in either order.
LEMMA Associative == \A w, a, b \in Seq(Pieces) : (w \o a) \o b = w \o (a \o b)
<1> SUFFICES ASSUME NEW w \in Seq(Pieces), NEW a \in Seq(Pieces), NEW b \in Seq(Pieces)
             PROVE  (w \o a) \o b = w \o (a \o b)
    BY Zenon
<1> QED
    BY ConcatAssociative

\* A write takes chunks off the front of the buffer: none is lost or doubled.
LEMMA TakeFrom ==
    ASSUME NEW w \in Seq(Pieces), NEW s \in Seq(Pieces), NEW k \in 0 .. Len(s)
    PROVE  /\ w \o SubSeq(s, 1, k) \in Seq(Pieces) /\ From(s, k) \in Seq(Pieces)
           /\ (w \o SubSeq(s, 1, k)) \o From(s, k) = w \o s
           /\ k = Len(s) => From(s, k) = << >>
<1>1. Len(s) \in Nat /\ k \in Int /\ \A i \in 1 .. Len(s) : s[i] \in Pieces
    OBVIOUS
<1>2. SubSeq(s, 1, k) \in Seq(Pieces)
    BY <1>1, SubSeqProperties
<1>3. SubSeq(s, k + 1, Len(s)) \in Seq(Pieces)
    BY <1>1, SubSeqProperties
<1>4. SubSeq(s, 1, k) \o SubSeq(s, k + 1, Len(s)) = SubSeq(s, 1, Len(s))
    <2>1. 1 \in 1 .. Len(s) + 1 /\ k \in 1 - 1 .. Len(s) /\ Len(s) \in k .. Len(s)
        BY <1>1
    <2> QED
        BY <2>1, ConcatAdjacentSubSeq, Zenon
<1>5. SubSeq(s, 1, Len(s)) = s
    BY SubSeqFull
<1>6. (w \o SubSeq(s, 1, k)) \o SubSeq(s, k + 1, Len(s)) = w \o (SubSeq(s, 1, k) \o SubSeq(s, k + 1, Len(s)))
    BY <1>2, <1>3, Associative, ZenonT(40)
<1>7. k = Len(s) => SubSeq(s, k + 1, Len(s)) = << >>
    BY <1>1, SubSeqEmpty
<1>8. w \o SubSeq(s, 1, k) \in Seq(Pieces)
    BY <1>2
<1> QED
    BY <1>3, <1>4, <1>5, <1>6, <1>7, <1>8, Zenon DEF From

\* The next message continues a stream without gap.
LEMMA Continue ==
    ASSUME NEW s \in Seq(Pieces), given \in Nat, Prefix(s), Len(s) = 2 * given, given' = given + 1
    PROVE  /\ Chunks(given + 1) \in Seq(Pieces) /\ s \o Chunks(given + 1) \in Seq(Pieces)
           /\ Len(s \o Chunks(given + 1)) = 2 * given'
           /\ \A i \in 1 .. Len(s \o Chunks(given + 1)) : (s \o Chunks(given + 1))[i] = Chunk(i)
           /\ Len(Chunks(given + 1)) = 2
<1>1. PICK c \in Seq(Pieces) : c = Chunks(given + 1) /\ Len(c) = 2 /\ c[1] = <<given + 1, 1>>
                                /\ c[2] = <<given + 1, 2>>
    <2>1. /\ Chunks(given + 1) \in Seq(Pieces) /\ Len(Chunks(given + 1)) = 2
          /\ Chunks(given + 1)[1] = <<given + 1, 1>> /\ Chunks(given + 1)[2] = <<given + 1, 2>>
        BY DEF Chunks, Pieces
    <2> QED
        BY <2>1, Zenon
<1>2. PICK t \in Seq(Pieces) : /\ t = s \o c /\ Len(t) = Len(s) + Len(c)
          /\ \A i \in 1 .. Len(s) + Len(c) : t[i] = IF i <= Len(s) THEN s[i] ELSE c[i - Len(s)]
    <2>1. /\ s \o c \in Seq(Pieces) /\ Len(s \o c) = Len(s) + Len(c)
          /\ \A i \in 1 .. Len(s) + Len(c) : (s \o c)[i] = IF i <= Len(s) THEN s[i] ELSE c[i - Len(s)]
        BY ConcatProperties, Zenon
    <2> QED
        BY <2>1, Zenon
<1>3. Len(s) \in Nat /\ Len(t) = Len(s) + 2 /\ Len(t) = 2 * given'
    <2>1. Len(c) = 2
        BY <1>1, Zenon
    <2>2. Len(t) = Len(s) + Len(c)
        BY <1>2, Zenon
    <2> QED
        BY <2>1, <2>2
<1>4. Chunk(2 * given + 1) = <<given + 1, 1>>
    <2>1. (2 * given + 1 + 1) \div 2 = given + 1 /\ (2 * given + 1) % 2 = 1
        OBVIOUS
    <2> QED
        BY <2>1 DEF Chunk
<1>5. Chunk(2 * given + 2) = <<given + 1, 2>>
    <2>1. (2 * given + 2 + 1) \div 2 = given + 1 /\ (2 * given + 2) % 2 = 0
        OBVIOUS
    <2> QED
        BY <2>1, Zenon DEF Chunk
<1>6. ASSUME NEW i \in 1 .. Len(t) PROVE t[i] = Chunk(i)
    <2>1. i \in 1 .. Len(s) \/ i = Len(s) + 1 \/ i = Len(s) + 2
        BY <1>3
    <2>2. CASE i \in 1 .. Len(s)
        <3>1. t[i] = s[i]
            BY <1>1, <1>2, <1>3, <2>2
        <3> QED
            BY <2>2, <3>1, Zenon DEF Prefix
    <2>3. CASE i = Len(s) + 1
        <3>1. i = 2 * given + 1 /\ i - Len(s) = 1 /\ ~ (i <= Len(s)) /\ i \in 1 .. Len(s) + Len(c)
            BY <1>1, <1>3, <2>3
        <3> QED
            BY <1>1, <1>2, <1>4, <3>1, Zenon
    <2>4. CASE i = Len(s) + 2
        <3>1. i = 2 * given + 2 /\ i - Len(s) = 2 /\ ~ (i <= Len(s)) /\ i \in 1 .. Len(s) + Len(c)
            BY <1>1, <1>3, <2>4
        <3> QED
            BY <1>1, <1>2, <1>5, <3>1, Zenon
    <2> QED
        BY <2>1, <2>2, <2>3, <2>4, Zenon
<1> QED
    BY <1>1, <1>2, <1>3, <1>6, Zenon

\* enableWriting and disableWriting leave the channel with the interest they are named for.
LEMMA SetWriting ==
    ASSUME NEW on \in BOOLEAN, setWriting(on)
    PROVE  "write" \in interest' <=> on
    BY Zenon DEF setWriting, updateChannel

\* What the TLS writes and handshakes make of a buffer: nothing is lost or doubled, and
\* what is left is watched, or the handshake is not over, or the connection is closed
Kept(bytes) ==
    /\ wire' \in Seq(Pieces) /\ outbuf' \in Seq(Pieces) /\ wire' \o outbuf' = wire \o bytes
    /\ tls' # "off" /\ link' \in {link, "DISCONNECTED"} /\ pending' = pending
    /\ link' = "CONNECTED" /\ outbuf' # << >> => "write" \in interest' \/ tls' = "handshake"

\* What TLS does not write stays in the buffer: none of the bytes is lost or written twice.
LEMMA TlsWriteKeeps ==
    ASSUME wire \in Seq(Pieces), NEW bytes \in Seq(Pieces), tlsWrite(bytes), tls' # "off"
    PROVE  Kept(bytes)
<1>1. CASE peer = "reset" /\ handleClose /\ outbuf' = bytes /\ UNCHANGED wire
    BY <1>1, Zenon DEF Kept, handleClose
<1>2. ASSUME NEW k \in 0 .. Len(bytes), Take(bytes, k), outbuf' = From(bytes, k),
             setWriting(k < Len(bytes)), UNCHANGED <<link, removals, downs, pending, woken>>
      PROVE  Kept(bytes)
    <2>1. /\ wire' \in Seq(Pieces) /\ outbuf' \in Seq(Pieces) /\ wire' \o outbuf' = wire \o bytes
          /\ k = Len(bytes) => outbuf' = << >>
        BY <1>2, TakeFrom, Zenon DEF Take
    <2>2. "write" \in interest' <=> k < Len(bytes)
        BY <1>2, Zenon DEF setWriting, updateChannel
    <2>3. k < Len(bytes) \/ k = Len(bytes)
        OBVIOUS
    <2> QED
        BY <1>2, <2>1, <2>2, <2>3 DEF Kept
<1> QED
    BY <1>1, <1>2, Zenon DEF tlsWrite

\* A handshake that ends in a write keeps the bytes it was to send.
LEMMA HandshakeKeeps ==
    ASSUME wire \in Seq(Pieces), NEW bytes \in Seq(Pieces), handshake(bytes, tlsWrite(bytes))
    PROVE  Kept(bytes)
<1>1. CASE tls = "done" /\ tlsWrite(bytes) /\ UNCHANGED tls
    BY <1>1, TlsWriteKeeps, Zenon
<1>2. CASE tls = "handshake" /\ peer = "open" /\ tls' = "done" /\ tlsWrite(bytes)
    BY <1>2, TlsWriteKeeps, Zenon
<1>3. CASE /\ tls = "handshake" /\ outbuf' = bytes /\ UNCHANGED <<tls, wire>>
           /\ UNCHANGED <<link, removals, downs, pending, woken>> \/ handleClose
    BY <1>3, Zenon DEF Kept, handleClose
<1> QED
    BY <1>1, <1>2, <1>3, Zenon DEF handshake

\* A handshake that goes on in a read keeps the bytes that wait in the output buffer.
LEMMA HandshakeReadKeeps ==
    ASSUME wire \in Seq(Pieces), outbuf \in Seq(Pieces), handshake(outbuf, tlsReadTail)
    PROVE  Kept(outbuf)
<1>1. ASSUME tlsReadTail, tls' # "off" PROVE Kept(outbuf)
    <2>1. "write" \in interest' <=> outbuf # << >>
        BY <1>1, SetWriting, Zenon DEF tlsReadTail
    <2> QED
        BY <1>1, <2>1, Zenon DEF Kept, tlsReadTail
<1>2. CASE /\ tls = "handshake" /\ outbuf' = outbuf /\ UNCHANGED <<tls, wire>>
           /\ UNCHANGED <<link, removals, downs, pending, woken>> \/ handleClose
    BY <1>2, Zenon DEF Kept, handleClose
<1> QED
    BY <1>1, <1>2, Zenon DEF handshake

\* What is appended to the output buffer follows what the socket got.
LEMMA BufferAssociative ==
    ASSUME wire \in Seq(Pieces), outbuf \in Seq(Pieces), NEW c \in Seq(Pieces)
    PROVE  (wire \o outbuf) \o c = wire \o (outbuf \o c)
    BY Associative, Zenon

\* With TLS nothing is ever dropped.
LEMMA KeptStream ==
    ASSUME ReactorInv, NEW bytes \in Seq(Pieces), Kept(bytes), UNCHANGED peer,
           \/ bytes = outbuf /\ given' = given /\ tls # "off"
           \/ bytes = outbuf \o Chunks(given + 1) /\ given' = given + 1 /\ tls # "off"
    PROVE  StreamInv'
<1>1. /\ wire \in Seq(Pieces) /\ outbuf \in Seq(Pieces) /\ given \in Nat /\ Prefix(wire \o outbuf)
      /\ wire \o outbuf \in Seq(Pieces) /\ Len(wire \o outbuf) \in Nat
    BY DEF ReactorInv, ReactorTypeOK, StreamInv
<1>2. tls # "off"
    BY Zenon
<1>3. Len(wire \o outbuf) = 2 * given
    BY <1>1, <1>2, SMTT(20) DEF ReactorInv, StreamInv, GapInv, Prefix
<1>4. WatchInv'
    BY Zenon DEF Kept, WatchInv
<1>5. CASE bytes = outbuf /\ given' = given
    <2>1. (wire \o outbuf)' = wire \o outbuf
        BY <1>5, Zenon DEF Kept
    <2>2. Prefix(wire \o outbuf)'
        BY <1>1, <1>5, <2>1, Zenon DEF Prefix
    <2>3. GapInv'
        BY <1>1, <1>3, <1>5, <2>1 DEF GapInv
    <2> QED
        BY <1>4, <2>2, <2>3, Zenon DEF StreamInv
<1>6. CASE bytes = outbuf \o Chunks(given + 1) /\ given' = given + 1
    <2>1. PICK o \in Seq(Pieces), c \in Seq(Pieces) :
              /\ c = Chunks(given + 1) /\ o = (wire \o outbuf) \o c /\ Len(o) = 2 * given'
              /\ \A i \in 1 .. Len(o) : o[i] = Chunk(i)
        BY <1>1, <1>3, <1>6, Continue, Zenon
    <2>2. (wire \o outbuf) \o c = wire \o (outbuf \o c)
        BY <1>1, BufferAssociative, Zenon
    <2>3. (wire \o outbuf)' = o
        BY <1>6, <2>1, <2>2, Zenon DEF Kept
    <2>4. given' \in Nat /\ Len(o) <= 2 * given'
        BY <1>1, <1>6, <2>1
    <2>5. Prefix(wire \o outbuf)'
        BY <2>1, <2>3, <2>4, Zenon DEF Prefix, Chunk
    <2>6. GapInv'
        BY <2>1, <2>3, <2>4 DEF GapInv
    <2> QED
        BY <1>4, <2>5, <2>6, Zenon DEF StreamInv
<1> QED
    BY <1>5, <1>6, Zenon

\* What a step of the channel may do to the stream.
SocketOk ==
    /\ wire' \in Seq(Pieces) /\ outbuf' \in Seq(Pieces) /\ given' \in Nat /\ StreamInv'

\* Two pieces for each message: a stream that is complete is not short.
LEMMA Exactly == \A a, b \in Nat : a = 2 * b => a <= 2 * b /\ ~ (a < 2 * b)
    OBVIOUS

\* A stream that was within the messages given is within one more.
LEMMA OneMore == \A a, b \in Nat : a <= 2 * b => a <= 2 * (b + 1)
    OBVIOUS

\* The end of a stream without gap.
LEMMA WholeStream ==
    ASSUME given' \in Nat, NEW o \in Seq(Pieces), (wire \o outbuf)' = o, Len(o) = 2 * given',
           \A i \in 1 .. Len(o) : o[i] = Chunk(i), WatchInv'
    PROVE  StreamInv'
<1>1. Len(o) <= 2 * given' /\ ~ (Len(o) < 2 * given')
    <2>1. Len(o) \in Nat
        BY LenProperties, Zenon
    <2> QED
        BY <2>1, Exactly, Zenon
<1>2. Prefix(wire \o outbuf)'
    BY <1>1, Zenon DEF Prefix, Chunk
<1>3. GapInv'
    BY <1>1, Zenon DEF GapInv
<1> QED
    BY <1>2, <1>3 DEF StreamInv

\* sendInLoop writes what it can, buffers the rest, and adds the message once.
LEMMA SendInLoopStep ==
    ASSUME ReactorInv, UNCHANGED peer, given' = given + 1, sendInLoop(Chunks(given + 1))
    PROVE  SocketOk /\ link' \in {link, "DISCONNECTED"} /\ pending' = pending
<1>1. /\ wire \in Seq(Pieces) /\ outbuf \in Seq(Pieces) /\ given \in Nat /\ given' \in Nat
      /\ wire \o outbuf \in Seq(Pieces) /\ Len(wire \o outbuf) \in Nat /\ Prefix(wire \o outbuf)
    BY DEF ReactorInv, ReactorTypeOK, StreamInv
<1>2. peer # "reset" \/ tls # "off" \/ outbuf # << >> \/ "write" \in interest =>
          Len(wire \o outbuf) = 2 * given
    <2>1. Len(wire \o outbuf) <= 2 * given
        BY <1>1, Zenon DEF Prefix
    <2>2. Len(wire \o outbuf) = 2 * given \/ Len(wire \o outbuf) < 2 * given
        BY <1>1, <2>1
    <2> QED
        BY <2>2, Zenon DEF ReactorInv, StreamInv, GapInv
<1>3. ASSUME Len(wire \o outbuf) = 2 * given
      PROVE  \E o \in Seq(Pieces), c \in Seq(Pieces) :
                 /\ c = Chunks(given + 1) /\ Len(c) = 2 /\ o = (wire \o outbuf) \o c
                 /\ o = wire \o (outbuf \o c) /\ Len(o) = 2 * given' /\ \A i \in 1 .. Len(o) : o[i] = Chunk(i)
    <2>1. PICK o \in Seq(Pieces), c \in Seq(Pieces) :
              /\ c = Chunks(given + 1) /\ Len(c) = 2 /\ o = (wire \o outbuf) \o c
              /\ Len(o) = 2 * given' /\ \A i \in 1 .. Len(o) : o[i] = Chunk(i)
        BY <1>1, <1>3, Continue, Zenon
    <2>2. (wire \o outbuf) \o c = wire \o (outbuf \o c)
        BY <1>1, BufferAssociative, Zenon
    <2> QED
        BY <2>1, <2>2, Zenon
<1>4. ASSUME tls = "off", outbuf = << >>, peer # "reset", NEW k \in 0 .. 2, Take(Chunks(given + 1), k),
             outbuf' = From(Chunks(given + 1), k), setWriting(k < 2)
      PROVE  SocketOk
    <2>1. PICK o \in Seq(Pieces), c \in Seq(Pieces) :
              /\ c = Chunks(given + 1) /\ Len(c) = 2 /\ o = wire \o (outbuf \o c)
              /\ Len(o) = 2 * given' /\ \A i \in 1 .. Len(o) : o[i] = Chunk(i)
        BY <1>2, <1>3, <1>4, Zenon
    <2>2. outbuf \o c = c
        BY <1>4
    <2>3. k \in 0 .. Len(c) /\ (k < 2 \/ k = Len(c))
        <3>1. Len(c) = 2
            BY <2>1, Zenon
        <3> QED
            BY <3>1
    <2>4. /\ wire' \in Seq(Pieces) /\ outbuf' \in Seq(Pieces) /\ (wire \o outbuf)' = wire \o c
          /\ k = Len(c) => outbuf' = << >>
        <3>1. wire' = wire \o SubSeq(c, 1, k) /\ outbuf' = From(c, k)
            BY <1>4, <2>1, Zenon DEF Take
        <3>2. /\ wire \o SubSeq(c, 1, k) \in Seq(Pieces) /\ From(c, k) \in Seq(Pieces)
              /\ (wire \o SubSeq(c, 1, k)) \o From(c, k) = wire \o c
              /\ k = Len(c) => From(c, k) = << >>
            BY <1>1, <2>3, TakeFrom, Zenon
        <3> QED
            BY <3>1, <3>2, Zenon
    <2>5. "write" \in interest' <=> k < 2
        BY <1>4, Zenon DEF setWriting, updateChannel
    <2>6. WatchInv'
        BY <2>3, <2>4, <2>5, Zenon DEF WatchInv
    <2>7. (wire \o outbuf)' = o
        BY <2>1, <2>2, <2>4, Zenon
    <2>8. StreamInv'
        BY <1>1, <2>1, <2>6, <2>7, WholeStream, Zenon
    <2> QED
        BY <1>1, <2>4, <2>8, Zenon DEF SocketOk
<1>5. ASSUME tls = "off", "write" \notin interest, outbuf = << >>, peer = "reset",
             UNCHANGED <<wire, outbuf, interest, index, tls>>
      PROVE  SocketOk
    <2>1. (wire \o outbuf)' = wire \o outbuf
        BY <1>5, Zenon
    <2>2. Prefix(wire \o outbuf)'
        <3>1. Len(wire \o outbuf) <= 2 * given'
            BY <1>1, OneMore, Zenon DEF Prefix
        <3> QED
            BY <1>1, <2>1, <3>1, Zenon DEF Prefix, Chunk
    <2>3. GapInv' /\ WatchInv'
        BY <1>5 DEF GapInv, WatchInv
    <2> QED
        BY <1>1, <1>5, <2>2, <2>3, Zenon DEF SocketOk, StreamInv
<1>6. ASSUME "write" \in interest \/ outbuf # << >>, outbuf' = outbuf \o Chunks(given + 1),
             setWriting(TRUE), UNCHANGED wire
      PROVE  SocketOk
    <2>1. PICK o \in Seq(Pieces), c \in Seq(Pieces) :
              /\ c = Chunks(given + 1) /\ o = wire \o (outbuf \o c)
              /\ Len(o) = 2 * given' /\ \A i \in 1 .. Len(o) : o[i] = Chunk(i)
        BY <1>2, <1>3, <1>6, Zenon
    <2>2. (wire \o outbuf)' = o /\ outbuf' \in Seq(Pieces)
        BY <1>1, <1>6, <2>1
    <2>3. WatchInv'
        BY <1>6, Zenon DEF WatchInv, setWriting, updateChannel
    <2>4. StreamInv'
        BY <1>1, <2>1, <2>2, <2>3, WholeStream, Zenon
    <2> QED
        BY <1>1, <1>6, <2>2, <2>4, Zenon DEF SocketOk
<1>7. CASE tls # "off" /\ handshake(outbuf \o Chunks(given + 1), tlsWrite(outbuf \o Chunks(given + 1)))
    <2>1. outbuf \o Chunks(given + 1) \in Seq(Pieces)
        <3>1. Chunks(given + 1) \in Seq(Pieces)
            BY <1>1 DEF Chunks, Pieces
        <3> QED
            BY <1>1, <3>1
    <2>2. Kept(outbuf \o Chunks(given + 1))
        BY <1>1, <1>7, <2>1, HandshakeKeeps, Zenon
    <2>3. StreamInv'
        BY <1>7, <2>1, <2>2, KeptStream, Zenon
    <2> QED
        BY <1>1, <2>2, <2>3 DEF Kept, SocketOk
<1> QED
    BY <1>4, <1>5, <1>6, <1>7, Zenon DEF sendInLoop

\* A message that is dropped leaves the stream as it is.
LEMMA SocketUnchanged ==
    ASSUME ReactorInv, UNCHANGED <<wire, outbuf, given, tls, interest>>, peer' \in {peer, "reset"},
           link' = "CONNECTED" => link = "CONNECTED"
    PROVE  SocketOk
<1>1. (wire \o outbuf)' = wire \o outbuf
    BY Zenon
<1>2. Prefix(wire \o outbuf)' /\ GapInv' /\ WatchInv'
    BY <1>1, Zenon DEF ReactorInv, StreamInv, Prefix, Chunk, GapInv, WatchInv
<1> QED
    BY <1>2, Zenon DEF SocketOk, StreamInv, ReactorInv, ReactorTypeOK

\* handleClose leaves written and buffered bytes alone.
LEMMA CloseKeepsStream ==
    ASSUME ReactorInv, handleClose, UNCHANGED <<wire, outbuf, given, tls, peer>>
    PROVE  SocketOk
<1>1. (wire \o outbuf)' = wire \o outbuf /\ interest' = {} /\ link' = "DISCONNECTED"
    BY Zenon DEF handleClose, updateChannel
<1>2. Prefix(wire \o outbuf)' /\ GapInv' /\ WatchInv'
    BY <1>1, Zenon DEF ReactorInv, StreamInv, Prefix, Chunk, GapInv, WatchInv
<1> QED
    BY <1>2 DEF SocketOk, StreamInv, ReactorInv, ReactorTypeOK

\* A send in the loop thread adds its message or finds the connection not open.
LEMMA SendMessageStep ==
    ASSUME ReactorInv, ~ NotUp, NEW states, SendMessage(states), UNCHANGED peer
    PROVE  SocketOk /\ link' \in {link, "DISCONNECTED"} /\ pending' = pending
<1>1. CASE given' = given + 1 /\ sendInLoop(Chunks(given + 1))
    BY <1>1, SendInLoopStep, Zenon
<1>2. CASE UNCHANGED <<socket, removals, downs, pending, woken>>
    BY <1>2, SocketUnchanged, Zenon DEF socket
<1> QED
    BY <1>1, <1>2, Zenon DEF SendMessage

\* Events, functors, calls and closes come after the connection is established.
LEMMA IsUp ==
    ASSUME ReactorInv
    PROVE  /\ \A e \in {"write", "read", "hup"} : Event(e) => ~ NotUp
           /\ \A f \in Functors \ {"establish"} : Functor(f) => ~ NotUp
           /\ \A t \in Callers : call[t].pc # "idle" => ~ NotUp
           /\ removals > 0 => ~ NotUp
           /\ ups > 0 => ~ NotUp
<1>1. ASSUME NEW e \in {"write", "read", "hup"}, Event(e) PROVE ~ NotUp
    BY <1>1, Zenon DEF ReactorInv, StartInv, Event
<1>2. ASSUME NEW f \in Functors \ {"establish"}, Functor(f) PROVE ~ NotUp
    <2>1. Head(<<"establish">>) = "establish"
        OBVIOUS
    <2> QED
        BY <1>2, <2>1, Zenon DEF ReactorInv, StartInv, Functor, NotUp, Functors
<1>3. ASSUME NEW t \in Callers, call[t].pc # "idle" PROVE ~ NotUp
    BY <1>3 DEF ReactorInv, StartInv, Idle
<1>4. (removals > 0 => ~ NotUp) /\ (ups > 0 => ~ NotUp)
    BY DEF ReactorInv, StartInv
<1> QED
    BY <1>1, <1>2, <1>3, <1>4, Zenon

\* A queue without connectEstablished has none after its first functor is taken.
LEMMA TailHasNot ==
    ASSUME NEW q \in Seq(Functors), q # << >>, ~ Has(q, "establish")
    PROVE  Tail(q) \in Seq(Functors) /\ ~ Has(Tail(q), "establish")
<1>1. Len(Tail(q)) = Len(q) - 1 /\ Len(q) \in Nat /\ \A i \in 1 .. Len(Tail(q)) : Tail(q)[i] = q[i + 1]
    BY HeadTailProperties
<1> QED
    BY <1>1 DEF Has

\* A queue without connectEstablished has none after another functor is queued.
LEMMA AppendHasNot ==
    ASSUME NEW q \in Seq(Functors), NEW f \in Functors \ {"establish"}, ~ Has(q, "establish")
    PROVE  Append(q, f) \in Seq(Functors) /\ ~ Has(Append(q, f), "establish")
<1>1. /\ Append(q, f) \in Seq(Functors) /\ Len(Append(q, f)) = Len(q) + 1 /\ Len(q) \in Nat
      /\ \A i \in 1 .. Len(q) : Append(q, f)[i] = q[i] /\ Append(q, f)[Len(q) + 1] = f
    BY AppendProperties
<1>2. ASSUME NEW i \in 1 .. Len(Append(q, f)) PROVE Append(q, f)[i] # "establish"
    <2>1. i \in 1 .. Len(q) \/ i = Len(q) + 1
        BY <1>1
    <2>2. CASE i = Len(q) + 1
        BY <1>1, <2>2
    <2>3. CASE i \in 1 .. Len(q)
        BY <1>1, <2>3, Zenon DEF Has
    <2> QED
        BY <2>1, <2>2, <2>3, Zenon
<1> QED
    BY <1>1, <1>2, Zenon DEF Has

\* What a step of an established connection does to the queues
QueuesOk ==
    /\ \/ pending' = pending
       \/ \E f \in Functors \ {"establish"} : pending' = Append(pending, f)
    /\ \/ batch' = batch /\ at' = at
       \/ at = "functors" /\ at' = at /\ batch # << >> /\ batch' = Tail(batch)

\* One step of an established connection.
LEMMA UpStep ==
    ASSUME ReactorInv, ~ NotUp, link' \in {"CONNECTED", "DISCONNECTING", "DISCONNECTED"},
           SocketOk, QueuesOk, CallOk'
    PROVE  ReactorInv'
<1>1. /\ pending \in Seq(Functors) /\ batch \in Seq(Functors)
      /\ ~ Has(pending, "establish") /\ ~ Has(batch, "establish")
      /\ at # "functors" => batch = << >>
    BY Zenon DEF ReactorInv, ReactorTypeOK, StartInv
<1>2. pending' \in Seq(Functors) /\ ~ Has(pending, "establish")'
    BY <1>1, AppendHasNot, Zenon DEF QueuesOk, Has
<1>3. batch' \in Seq(Functors) /\ ~ Has(batch, "establish")'
    BY <1>1, TailHasNot, Zenon DEF QueuesOk, Has
<1>4. ReactorTypeOK'
    BY <1>2, <1>3, Zenon DEF ReactorTypeOK, SocketOk
<1>5. StartInv'
    BY <1>1, <1>2, <1>3, Zenon DEF StartInv, NotUp, QueuesOk
<1> QED
    BY <1>4, <1>5, Zenon DEF ReactorInv, SocketOk

\* A step that leaves the socket, the queues and the callers alone.
LEMMA QuietStep ==
    ASSUME ReactorInv, UNCHANGED <<socket, peer, pending, batch, call, removals, ups>>,
           NotUp => active' \subseteq {"wake"}, at' # "functors" => batch = << >>
    PROVE  ReactorInv'
<1>1. ReactorTypeOK'
    BY Zenon DEF ReactorInv, ReactorTypeOK, CallOk, socket
<1>2. StartInv'
    BY Zenon DEF ReactorInv, StartInv, socket, NotUp, Has
<1>3. StreamInv'
    BY SocketUnchanged, Zenon DEF socket, SocketOk
<1> QED
    BY <1>1, <1>2, <1>3, Zenon DEF ReactorInv

\* After connectEstablished ran, the connection is never connecting again.
LEMMA LinkUp ==
    ASSUME ReactorInv, ~ NotUp
    PROVE  link \in {"CONNECTED", "DISCONNECTING", "DISCONNECTED"}
    BY Zenon DEF ReactorInv, ReactorTypeOK, NotUp

\* What callers are about to do stays right when none of them moves.
LEMMA CallsKept == ASSUME ReactorInv, call' = call PROVE CallOk'
    BY DEF ReactorInv, ReactorTypeOK, CallOk

\* handleWrite hands the buffer over from its front.
LEMMA PlainWrite ==
    ASSUME ReactorInv, tls = "off", outbuf # << >>, NEW k \in 1 .. Len(outbuf), Take(outbuf, k),
           outbuf' = From(outbuf, k), setWriting(k < Len(outbuf)), UNCHANGED <<given, tls, peer, link>>
    PROVE  SocketOk
<1>1. /\ wire \in Seq(Pieces) /\ outbuf \in Seq(Pieces) /\ given \in Nat /\ Len(outbuf) \in Nat
      /\ wire \o outbuf \in Seq(Pieces) /\ Len(wire \o outbuf) \in Nat /\ Prefix(wire \o outbuf)
    BY DEF ReactorInv, ReactorTypeOK, StreamInv
<1>2. k \in 0 .. Len(outbuf) /\ (k < Len(outbuf) \/ k = Len(outbuf))
    BY <1>1
<1>3. /\ wire' \in Seq(Pieces) /\ outbuf' \in Seq(Pieces) /\ (wire \o outbuf)' = wire \o outbuf
      /\ k = Len(outbuf) => outbuf' = << >>
    BY <1>1, <1>2, TakeFrom, Zenon DEF Take
<1>4. "write" \in interest' <=> k < Len(outbuf)
    BY Zenon DEF setWriting, updateChannel
<1>5. WatchInv'
    BY <1>2, <1>3, <1>4, Zenon DEF WatchInv
<1>6. ~ (Len(wire \o outbuf) < 2 * given)
    BY Zenon DEF ReactorInv, StreamInv, GapInv
<1>7. GapInv' /\ Prefix(wire \o outbuf)'
    BY <1>1, <1>3, <1>6, Zenon DEF GapInv, Prefix, Chunk
<1> QED
    BY <1>1, <1>3, <1>5, <1>7, Zenon DEF SocketOk, StreamInv

\* The same with TLS, which may first have to end its handshake.
LEMMA TlsKeeps ==
    ASSUME ReactorInv, tls # "off", Kept(outbuf), UNCHANGED <<given, peer>>
    PROVE  SocketOk
<1>1. outbuf \in Seq(Pieces) /\ given \in Nat
    BY DEF ReactorInv, ReactorTypeOK
<1>2. StreamInv'
    BY <1>1, KeptStream, Zenon
<1> QED
    BY <1>1, <1>2, Zenon DEF SocketOk, Kept

\* handleWrite takes from the front of the output buffer what the socket accepts.
LEMMA HandleWriteStep == ASSUME ReactorInv, handleWrite PROVE ReactorInv'
<1>1. ~ NotUp /\ link \in {"CONNECTED", "DISCONNECTING", "DISCONNECTED"}
    BY IsUp, LinkUp, Zenon DEF handleWrite
<1>2. CallOk' /\ peer' = peer /\ batch' = batch /\ at' = at
    BY CallsKept, Zenon DEF handleWrite, callers
<1>3. SocketOk /\ pending' = pending /\ link' \in {link, "DISCONNECTED"}
    <2>1. CASE UNCHANGED <<socket, removals, downs, pending, woken>>
        BY <1>2, <2>1, SocketUnchanged, Zenon DEF socket
    <2>2. CASE tls = "off" /\ UNCHANGED <<wire, outbuf, interest, index, link, given, tls, removals, downs, pending, woken>>
        BY <1>2, <2>2, SocketUnchanged, Zenon
    <2>3. ASSUME tls = "off", outbuf # << >>, NEW k \in 1 .. Len(outbuf), Take(outbuf, k),
                 outbuf' = From(outbuf, k), setWriting(k < Len(outbuf)),
                 UNCHANGED <<link, given, tls, removals, downs, pending, woken>>
          PROVE  SocketOk /\ pending' = pending /\ link' = link
        BY <1>2, <2>3, PlainWrite, Zenon
    <2>4. CASE tls # "off" /\ handshake(outbuf, tlsWrite(outbuf)) /\ UNCHANGED given
        <3>1. Kept(outbuf)
            BY <2>4, HandshakeKeeps, Zenon DEF ReactorInv, ReactorTypeOK
        <3> QED
            BY <1>2, <2>4, <3>1, TlsKeeps, Zenon DEF Kept
    <2> QED
        BY <2>1, <2>2, <2>3, <2>4, Zenon DEF handleWrite
<1> QED
    BY <1>1, <1>2, <1>3, UpStep, Zenon DEF QueuesOk

\* closeInLoop queues its functor.
LEMMA CloseInLoopStep ==
    ASSUME ReactorInv, closeInLoop, peer' = peer
    PROVE  /\ SocketOk /\ link' = "DISCONNECTING"
           /\ \E f \in Functors \ {"establish"} : pending' = Append(pending, f)
<1>1. SocketOk
    BY SocketUnchanged DEF closeInLoop
<1>2. "forceClose" \in Functors \ {"establish"}
    BY Zenon DEF Functors
<1> QED
    BY <1>1, <1>2, Zenon DEF closeInLoop, queueInLoop

\* handleRead answers what arrived, closes, or goes on with the handshake.
LEMMA HandleReadStep == ASSUME ReactorInv, handleRead PROVE ReactorInv'
<1>1. ~ NotUp /\ link \in {"CONNECTED", "DISCONNECTING", "DISCONNECTED"}
    BY IsUp, LinkUp, Zenon DEF handleRead
<1>2. CallOk' /\ peer' = peer /\ batch' = batch /\ at' = at
    BY CallsKept, Zenon DEF handleRead, callers
<1>3. CASE SendMessage({"CONNECTED"})
    BY <1>1, <1>2, <1>3, SendMessageStep, UpStep, Zenon DEF QueuesOk
<1>4. CASE closeInLoop
    BY <1>1, <1>2, <1>4, CloseInLoopStep, UpStep, Zenon DEF QueuesOk
<1>5. CASE UNCHANGED <<socket, removals, downs, pending, woken>>
    <2>1. SocketOk
        BY <1>2, <1>5, SocketUnchanged, Zenon DEF socket
    <2> QED
        BY <1>1, <1>2, <1>5, <2>1, UpStep, Zenon DEF QueuesOk, socket
<1>6. CASE tls = "handshake" /\ handshake(outbuf, tlsReadTail) /\ UNCHANGED given
    <2>1. Kept(outbuf)
        BY <1>6, HandshakeReadKeeps DEF ReactorInv, ReactorTypeOK
    <2>2. SocketOk
        BY <1>2, <1>6, <2>1, TlsKeeps
    <2> QED
        BY <1>1, <1>2, <2>1, <2>2, UpStep, Zenon DEF QueuesOk, Kept
<1> QED
    BY <1>3, <1>4, <1>5, <1>6, Zenon DEF handleRead

\* A hang-up or the end of the stream closes the connection.
LEMMA HandleHangupStep == ASSUME ReactorInv, handleHangup PROVE ReactorInv'
<1>1. ~ NotUp
    BY IsUp DEF handleHangup
<1>2. SocketOk
    BY CloseKeepsStream, Zenon DEF handleHangup
<1>3. CallOk'
    BY CallsKept, Zenon DEF handleHangup, callers
<1> QED
    BY <1>1, <1>2, <1>3, UpStep, Zenon DEF handleHangup, handleClose, QueuesOk

\* A reset that the poller reports changes nothing that was written.
LEMMA HandleErrorStep == ASSUME ReactorInv, handleError PROVE ReactorInv'
<1>1. ~ NotUp
    BY IsUp, Zenon DEF handleError
<1> QED
    BY <1>1, QuietStep, Zenon DEF handleError, server, callers, ReactorInv, StartInv, Event

\* The functors of an established connection.
LEMMA FunctorUp ==
    ASSUME ReactorInv, NEW f \in Functors \ {"establish"}, Functor(f), at' = at
    PROVE  /\ ~ NotUp /\ link \in {"CONNECTED", "DISCONNECTING", "DISCONNECTED"}
           /\ at = "functors" /\ at' = at /\ batch # << >> /\ batch' = Tail(batch)
    BY IsUp, LinkUp, Zenon DEF Functor

\* The functor of a send from another thread sends in the loop.
LEMMA SendFunctorStep == ASSUME ReactorInv, sendFunctor PROVE ReactorInv'
<1>1. /\ ~ NotUp /\ link \in {"CONNECTED", "DISCONNECTING", "DISCONNECTED"}
      /\ at = "functors" /\ at' = at /\ batch # << >> /\ batch' = Tail(batch)
    BY FunctorUp, Zenon DEF sendFunctor, Functors
<1>2. CallOk'
    BY CallsKept DEF sendFunctor, callers
<1>3. SocketOk /\ link' \in {link, "DISCONNECTED"} /\ pending' = pending
    BY <1>1, SendMessageStep DEF sendFunctor
<1> QED
    BY <1>1, <1>2, <1>3, UpStep, Zenon DEF QueuesOk

\* The callback of a request sends or closes in the loop thread, unless the connection is down.
LEMMA CallbackStep == ASSUME ReactorInv, callback PROVE ReactorInv'
<1>1. /\ ~ NotUp /\ link \in {"CONNECTED", "DISCONNECTING", "DISCONNECTED"}
      /\ at = "functors" /\ at' = at /\ batch # << >> /\ batch' = Tail(batch)
    BY FunctorUp, Zenon DEF callback, Functors
<1>2. CallOk' /\ peer' = peer
    BY CallsKept, Zenon DEF callback, callers
<1>3. CASE SendMessage({"CONNECTED"})
    <2>1. SocketOk /\ link' \in {link, "DISCONNECTED"} /\ pending' = pending
        BY <1>1, <1>2, <1>3, SendMessageStep, Zenon
    <2> QED
        BY <1>1, <1>2, <2>1, UpStep, Zenon DEF QueuesOk
<1>4. CASE closeInLoop
    BY <1>1, <1>2, <1>4, CloseInLoopStep, UpStep, Zenon DEF QueuesOk
<1>5. CASE UNCHANGED <<socket, removals, downs, pending, woken>>
    <2>1. SocketOk
        BY <1>2, <1>5, SocketUnchanged, Zenon DEF socket
    <2> QED
        BY <1>1, <1>2, <1>5, <2>1, UpStep, Zenon DEF QueuesOk, socket
<1> QED
    BY <1>3, <1>4, <1>5, Zenon DEF callback

\* forceCloseInLoop closes a connection that is still open.
LEMMA ForceCloseStep == ASSUME ReactorInv, forceCloseInLoop PROVE ReactorInv'
<1>1. /\ ~ NotUp /\ at = "functors" /\ at' = at /\ batch # << >> /\ batch' = Tail(batch)
    BY FunctorUp, Zenon DEF forceCloseInLoop, Functors
<1>2. CallOk'
    BY CallsKept, Zenon DEF forceCloseInLoop, callers
<1>3. SocketOk /\ link' = "DISCONNECTED" /\ pending' = pending
    <2>1. CASE handleClose
        BY <2>1, CloseKeepsStream, Zenon DEF forceCloseInLoop, handleClose
    <2>2. CASE link = "DISCONNECTED" /\ UNCHANGED <<link, interest, index, removals, downs, pending, woken>>
        BY <2>2, SocketUnchanged, Zenon DEF forceCloseInLoop
    <2> QED
        BY <2>1, <2>2, Zenon DEF forceCloseInLoop
<1> QED
    BY <1>1, <1>2, <1>3, UpStep, Zenon DEF QueuesOk

\* connectDestroyed takes the channel out of the poller.
LEMMA ConnectDestroyedStep == ASSUME ReactorInv, connectDestroyed PROVE ReactorInv'
<1>1. /\ ~ NotUp /\ link \in {"CONNECTED", "DISCONNECTING", "DISCONNECTED"}
      /\ at = "functors" /\ at' = at /\ batch # << >> /\ batch' = Tail(batch)
    BY FunctorUp, Zenon DEF connectDestroyed, Functors
<1>2. CallOk'
    BY CallsKept, Zenon DEF connectDestroyed, callers
<1>3. SocketOk
    BY SocketUnchanged, Zenon DEF connectDestroyed
<1> QED
    BY <1>1, <1>2, <1>3, UpStep DEF QueuesOk, connectDestroyed

\* connectEstablished runs once, on a connection nothing was sent on.
LEMMA ConnectEstablishedStep == ASSUME ReactorInv, connectEstablished PROVE ReactorInv'
<1>1. Head(batch) = "establish" /\ batch # << >> /\ at = "functors" /\ at' = at /\ batch' = Tail(batch)
    BY Zenon DEF connectEstablished, Functor
<1>2. link = "CONNECTING" /\ pending = << >> /\ batch = <<"establish">>
    <2>1. Has(batch, "establish")
        <3>1. batch \in Seq(Functors)
            BY Zenon DEF ReactorInv, ReactorTypeOK
        <3>2. Len(batch) \in Nat /\ Len(batch) > 0 /\ batch[1] = "establish"
            BY <1>1, <3>1
        <3> QED
            BY <3>2 DEF Has
    <2>2. NotUp
        BY <2>1, Zenon DEF ReactorInv, StartInv
    <2> QED
        BY <1>1, <2>2 DEF NotUp, ReactorInv, StartInv
<1>3. Tail(<<"establish">>) = << >> /\ << >> \in Seq(Functors) /\ Len(<< >>) = 0
    OBVIOUS
<1>4. pending' = << >> /\ batch' = << >> /\ link' \in {"CONNECTED", "DISCONNECTED"}
    BY <1>1, <1>2, <1>3, Zenon DEF connectEstablished, handleClose
<1>5. outbuf = << >> /\ given = 0
    BY <1>2, Zenon DEF ReactorInv, StartInv, NotUp
<1>6. SocketOk
    <2>1. UNCHANGED <<wire, outbuf, given, tls, peer>> /\ "write" \notin interest'
        BY Zenon DEF connectEstablished, handleClose, updateChannel
    <2>2. (wire \o outbuf)' = wire \o outbuf
        BY <2>1, Zenon
    <2>3. Prefix(wire \o outbuf)'
        BY <2>1, <2>2, Zenon DEF ReactorInv, StreamInv, Prefix, Chunk
    <2>4. GapInv' /\ WatchInv'
        BY <1>5, <2>1, <2>2, Zenon DEF ReactorInv, StreamInv, GapInv, WatchInv
    <2> QED
        BY <2>1, <2>3, <2>4, Zenon DEF SocketOk, StreamInv, ReactorInv, ReactorTypeOK
<1>7. CallOk'
    BY CallsKept, Zenon DEF connectEstablished, callers
<1>8. StartInv'
    <2>1. ~ Has(<< >>, "establish")
        BY DEF Has
    <2>2. ~ Has(pending, "establish")' /\ ~ Has(batch, "establish")'
        BY <1>4, <2>1, Zenon
    <2> QED
        BY <1>4, <2>2, Zenon DEF StartInv, NotUp
<1>9. ReactorTypeOK'
    BY <1>3, <1>4, <1>6, <1>7 DEF ReactorTypeOK, SocketOk
<1> QED
    BY <1>6, <1>8, <1>9, Zenon DEF ReactorInv, SocketOk

\* The poller reports events; it changes none of the bytes.
LEMMA PollStep == ASSUME ReactorInv, poll PROVE ReactorInv'
<1>1. NotUp => active' \subseteq {"wake"}
    <2>1. PICK input \in BOOLEAN : active' = Ready(input)
        BY Zenon DEF poll
    <2>2. NotUp => index # "kAdded"
        BY Zenon DEF ReactorInv, StartInv
    <2> QED
        BY <2>1, <2>2, Zenon DEF Ready
<1>2. batch = << >>
    BY Zenon DEF ReactorInv, StartInv, poll
<1> QED
    BY <1>1, <1>2, QuietStep DEF poll, server

\* Reading the eventfd changes none of the bytes.
LEMMA WakeupReadStep == ASSUME ReactorInv, handleWakeupRead PROVE ReactorInv'
<1>1. NotUp => active' \subseteq {"wake"}
    BY Zenon DEF ReactorInv, StartInv, handleWakeupRead, Handled
<1>2. at' # "functors" => batch = << >>
    BY Zenon DEF ReactorInv, StartInv, handleWakeupRead
<1> QED
    BY <1>1, <1>2, QuietStep, Zenon DEF handleWakeupRead, server, callers

\* The next iteration of the loop starts with the bytes as they are.
LEMMA NextIterationStep == ASSUME ReactorInv, nextIteration PROVE ReactorInv'
<1>1. NotUp => active' \subseteq {"wake"}
    BY Zenon DEF ReactorInv, StartInv, nextIteration
<1> QED
    BY <1>1, QuietStep, Zenon DEF nextIteration, server, callers

\* doPendingFunctors takes the queue over as it is.
LEMMA DoPendingStep == ASSUME ReactorInv, doPendingFunctors PROVE ReactorInv'
<1>1. /\ batch = << >> /\ batch' = pending /\ pending' = << >> /\ at' = "functors"
      /\ UNCHANGED <<socket, peer, server, active, callers>>
    BY Zenon DEF ReactorInv, StartInv, doPendingFunctors
<1>2. << >> \in Seq(Functors) /\ Len(<< >>) = 0 /\ ~ Has(<< >>, "establish")
    BY DEF Has
<1>3. StreamInv'
    BY <1>1, SocketUnchanged, Zenon DEF socket, SocketOk
<1>4. ReactorTypeOK'
    BY <1>1, <1>2, Zenon DEF ReactorInv, ReactorTypeOK, CallOk, socket, callers
<1>5. ~ NotUp => ~ Has(pending, "establish")' /\ ~ Has(batch, "establish")'
    BY <1>1, <1>2, Zenon DEF ReactorInv, StartInv, Has
<1>6. /\ link = "none" => pending = << >>
      /\ link = "CONNECTING" => (pending = <<"establish">> \/ (pending = << >> /\ batch = <<"establish">>))
    BY Zenon DEF ReactorInv, StartInv
<1>7. << >> # <<"establish">>
    BY Zenon
<1>8. StartInv'
    BY <1>1, <1>5, <1>6, <1>7, Zenon DEF ReactorInv, StartInv, NotUp, socket, server, callers
<1> QED
    BY <1>3, <1>4, <1>8, Zenon DEF ReactorInv

\* The accept queues the first functor of the connection.
LEMMA NewConnectionStep == ASSUME ReactorInv, newConnection PROVE ReactorInv'
<1>1. /\ link = "none" /\ link' = "CONNECTING" /\ pending = << >> /\ batch = << >>
      /\ pending' = Append(pending, "establish")
      /\ UNCHANGED <<index, interest, outbuf, wire, given, tls, peer, ups, removals, batch, at, active, call>>
    BY Zenon DEF ReactorInv, StartInv, newConnection, runInLoop, queueInLoop, callers
<1>2. Append(<< >>, "establish") = <<"establish">> /\ <<"establish">> \in Seq(Functors)
    BY DEF Functors
<1>3. pending' = <<"establish">>
    BY <1>1, <1>2
<1>4. SocketOk
    BY <1>1, SocketUnchanged
<1>5. CallOk'
    BY <1>1, CallsKept, Zenon
<1>6. ReactorTypeOK'
    BY <1>1, <1>2, <1>3, <1>4, <1>5, Zenon DEF ReactorInv, ReactorTypeOK, SocketOk
<1>7. StartInv'
    BY <1>1, <1>3, Zenon DEF ReactorInv, StartInv, NotUp
<1> QED
    BY <1>4, <1>6, <1>7 DEF ReactorInv, SocketOk

\* The base loop forgets the connection and queues its destruction.
LEMMA RemoveConnectionStep == ASSUME ReactorInv, removeConnectionInLoop PROVE ReactorInv'
<1>1. ~ NotUp /\ link \in {"CONNECTED", "DISCONNECTING", "DISCONNECTED"}
    BY IsUp, LinkUp, Zenon DEF removeConnectionInLoop
<1>2. CallOk'
    BY CallsKept, Zenon DEF removeConnectionInLoop, callers
<1>3. SocketOk
    BY SocketUnchanged, Zenon DEF removeConnectionInLoop, socket
<1>4. QueuesOk
    <2>1. "destroy" \in Functors \ {"establish"}
        BY DEF Functors
    <2> QED
        BY <2>1, Zenon DEF removeConnectionInLoop, queueInLoop, QueuesOk
<1> QED
    BY <1>1, <1>2, <1>3, <1>4, UpStep, Zenon DEF removeConnectionInLoop, socket

\* A peer that closes or resets changes nothing that was written.
LEMMA PeerClosesStep == ASSUME ReactorInv, peerCloses PROVE ReactorInv'
<1>1. ~ NotUp /\ link \in {"CONNECTED", "DISCONNECTING", "DISCONNECTED"}
    BY LinkUp DEF peerCloses, NotUp
<1>2. CallOk'
    BY CallsKept, Zenon DEF peerCloses, callers
<1>3. SocketOk
    <2>1. peer' \in {"eof", "reset"} /\ (peer' = "eof" => peer = "open")
          /\ UNCHANGED <<wire, outbuf, given, tls, interest, link>>
        BY Zenon DEF peerCloses, socket
    <2>2. (wire \o outbuf)' = wire \o outbuf
        BY <2>1, Zenon
    <2>3. Prefix(wire \o outbuf)' /\ GapInv' /\ WatchInv'
        BY <2>1, <2>2, Zenon DEF ReactorInv, StreamInv, Prefix, Chunk, GapInv, WatchInv
    <2> QED
        BY <2>1, <2>3, Zenon DEF SocketOk, StreamInv, ReactorInv, ReactorTypeOK
<1> QED
    BY <1>1, <1>2, <1>3, UpStep, Zenon DEF peerCloses, QueuesOk, loops, socket

\* A thread that calls send, forceClose or a callback has sent nothing yet.
LEMMA EnterStep ==
    ASSUME ReactorInv, NEW t \in Callers, NEW op \in {"send", "forceClose", "callback"}, enter(t, op)
    PROVE  ReactorInv'
<1>1. ~ NotUp /\ link \in {"CONNECTED", "DISCONNECTING", "DISCONNECTED"}
    BY IsUp, LinkUp, Zenon DEF enter
<1>2. CallOk'
    BY Zenon DEF ReactorInv, ReactorTypeOK, CallOk, enter
<1>3. SocketOk
    BY SocketUnchanged, Zenon DEF enter, socket
<1> QED
    BY <1>1, <1>2, <1>3, UpStep, Zenon DEF enter, QueuesOk, loops, socket

\* A caller queues at most one functor for its call.
LEMMA CallerStepStep == ASSUME ReactorInv, NEW t \in Callers, CallerStep(t) PROVE ReactorInv'
<1>1. ~ NotUp /\ link \in {"CONNECTED", "DISCONNECTING", "DISCONNECTED"}
    <2>1. call[t].pc # "idle"
        BY Zenon DEF CallerStep, setState, push, wakeup
    <2> QED
        BY <2>1, IsUp, LinkUp, Zenon
<1>2. CallOk'
    <2>1. CallOk
        BY Zenon DEF ReactorInv, ReactorTypeOK
    <2>2. ASSUME NEW p \in {"push", "wake"}, call[t].pc \in {"set", "push"}, Step(t, p) PROVE CallOk'
        BY <2>1, <2>2 DEF CallOk, Step
    <2>3. CASE call' = [call EXCEPT ![t] = Idle]
        BY <2>1, <2>3 DEF CallOk, Idle
    <2> QED
        BY <2>2, <2>3, Zenon DEF CallerStep, setState, push, wakeup
<1>3. SocketOk
    BY SocketUnchanged, Zenon DEF CallerStep, setState, push, wakeup, socket
<1>4. QueuesOk
    <2>1. call[t].pc = "push" => call[t].op \in Functors \ {"establish"}
        BY Zenon DEF ReactorInv, ReactorTypeOK, CallOk, Functors
    <2> QED
        BY <2>1, Zenon DEF CallerStep, setState, push, wakeup, QueuesOk, loops
<1> QED
    BY <1>1, <1>2, <1>3, <1>4, UpStep, Zenon DEF CallerStep, setState, push, wakeup, socket

\* Every step of loops, callers and peer keeps the invariant.
LEMMA ReactorStep == ReactorInv /\ [ReactorNext]_reactorVars => ReactorInv'
<1> SUFFICES ASSUME ReactorInv, [ReactorNext]_reactorVars PROVE ReactorInv'
    BY Zenon
<1>1. CASE IoStep
    BY Zenon, <1>1, PollStep, WakeupReadStep, DoPendingStep, NextIterationStep, ConnectEstablishedStep,
       ConnectDestroyedStep, ForceCloseStep, SendFunctorStep, CallbackStep, HandleReadStep,
       HandleHangupStep, HandleErrorStep, HandleWriteStep DEF IoStep
<1>2. CASE BaseStep
    BY <1>2, NewConnectionStep, RemoveConnectionStep, Zenon DEF BaseStep
<1>3. CASE peerCloses
    BY <1>3, PeerClosesStep
<1>4. ASSUME NEW t \in Callers, CallerStep(t) PROVE ReactorInv'
    BY <1>4, CallerStepStep
<1>5. ASSUME NEW t \in Callers,
             DeliverToConnection(t) \/ KickConnection(t) \/ KickUser(t) \/ complete(t)
      PROVE  ReactorInv'
    BY <1>5, EnterStep, Zenon DEF DeliverToConnection, KickConnection, KickUser, complete
<1>6. CASE UNCHANGED reactorVars
    BY <1>6, QuietStep, Zenon DEF reactorVars, server, loops, callers, ReactorInv, StartInv
<1> QED
    BY <1>1, <1>2, <1>3, <1>4, <1>5, <1>6, Zenon DEF ReactorNext

\* For any number of calling threads and calls: what the socket took followed by what is
\* buffered is the stream of the messages given to sendInLoop, in order, without gap and
\* without a chunk twice; only a reset plain connection loses the end of it; and output that
\* is buffered while the loop sleeps in poll is watched (sendInLoop, handleWrite,
\* handleTlsWrite, doTlsHandshake).
THEOREM StreamIsKept == ReactorSpec => []WireIsTheStream
<1>1. ReactorSpec => []ReactorInv
    BY ReactorInitially, ReactorStep, PTL DEF ReactorSpec
<1> QED
    BY <1>1, ReactorFromInv, PTL

-----------------------------------------------------------------------------
(* Framing: the input buffer is a queue                                      *)

Units ==
    ({"head1", "head2", "body", "bad", "get"} \X Nat) \cup ({"end"} \X {"ok", "refused"})
    \cup ({"frame"} \X {"binary", "ping", "pong", "text", "unmasked", "close"} \X Nat)
    \cup {Blank}

\* The cells after the reader and up to the writer are those of s
HoldsAt(cells, reader, writer, s) ==
    /\ cells \in Seq(Units) /\ reader \in Nat /\ writer \in Nat
    /\ kCheapPrepend <= reader /\ reader <= writer /\ writer <= Len(cells)
    /\ writer - reader = Len(s)
    /\ \A k \in 1 .. Len(s) : cells[reader + k] = s[k]

HoldsBytes(b, s) ==
    /\ b \in [cells : Seq(Units), reader : Nat, writer : Nat]
    /\ HoldsAt(b.cells, b.reader, b.writer, s)

\* Bytes that arrive one after the other can be joined in either order.
LEMMA ConcatUnitsAssociates == \A s, t, u \in Seq(Units) : (s \o t) \o u = s \o (t \o u)
    BY ConcatAssociative, SMTT(20)

\* The units of two pieces of a stream, one after the other.
LEMMA ConcatUnits ==
    ASSUME NEW s \in Seq(Units), NEW t \in Seq(Units)
    PROVE  \E u \in Seq(Units) :
               /\ u = s \o t /\ Len(u) = Len(s) + Len(t)
               /\ \A i \in 1 .. Len(s) + Len(t) : u[i] = IF i <= Len(s) THEN s[i] ELSE t[i - Len(s)]
<1>1. /\ s \o t \in Seq(Units) /\ Len(s \o t) = Len(s) + Len(t)
      /\ \A i \in 1 .. Len(s) + Len(t) : (s \o t)[i] = IF i <= Len(s) THEN s[i] ELSE t[i - Len(s)]
    BY ConcatProperties, Zenon
<1> QED
    BY <1>1, Zenon

\* What std::copy into the cells of the buffer changes, and what it leaves.
LEMMA CopyCells ==
    ASSUME NEW c \in Seq(Units), NEW w \in Nat, NEW t \in Seq(Units), w + Len(t) <= Len(c)
    PROVE  /\ Copy(c, w, t) \in Seq(Units) /\ Len(Copy(c, w, t)) = Len(c)
           /\ \A i \in 1 .. Len(c) :
                 Copy(c, w, t)[i] = IF i > w /\ i <= w + Len(t) THEN t[i - w] ELSE c[i]
<1>1. Len(c) \in Nat /\ Len(t) \in Nat
    OBVIOUS
<1>2. ASSUME NEW i \in 1 .. Len(c)
      PROVE  (IF i > w /\ i <= w + Len(t) THEN t[i - w] ELSE c[i]) \in Units
    <2>1. CASE i > w /\ i <= w + Len(t)
        <3>1. i - w \in 1 .. Len(t)
            BY <1>1, <2>1
        <3> QED
            BY <2>1, <3>1, ElementOfSeq
    <2>2. CASE ~ (i > w /\ i <= w + Len(t))
        BY <2>2, ElementOfSeq, Zenon
    <2> QED
        BY <2>1, <2>2, Zenon
<1>3. Copy(c, w, t) \in [1 .. Len(c) -> Units]
    BY <1>2, Zenon DEF Copy
<1>4. Copy(c, w, t) \in Seq(Units)
    BY <1>1, <1>3, SeqDef, Zenon
<1>5. Len(Copy(c, w, t)) = Len(c)
    <2>1. DOMAIN Copy(c, w, t) = 1 .. Len(Copy(c, w, t)) /\ Len(Copy(c, w, t)) \in Nat
          /\ DOMAIN Copy(c, w, t) = 1 .. Len(c)
        BY <1>3, <1>4, LenProperties, Zenon
    <2> QED
        BY <1>1, <2>1
<1> QED
    BY <1>4, <1>5, Zenon DEF Copy

\* Bytes written behind the writer.
LEMMA FillKeeps ==
    ASSUME NEW c, NEW r, NEW w, NEW s \in Seq(Units), NEW t \in Seq(Units),
           HoldsAt(c, r, w, s), w + Len(t) <= Len(c)
    PROVE  HoldsAt(Copy(c, w, t), r, w + Len(t), s \o t) /\ Len(Copy(c, w, t)) = Len(c)
<1>1. /\ c \in Seq(Units) /\ r \in Nat /\ w \in Nat /\ kCheapPrepend <= r /\ r <= w /\ w - r = Len(s)
      /\ \A k \in 1 .. Len(s) : c[r + k] = s[k]
      /\ Len(s) \in Nat /\ Len(t) \in Nat /\ Len(c) \in Nat
    BY DEF HoldsAt
<1>2. PICK d \in Seq(Units) :
          /\ d = Copy(c, w, t) /\ Len(d) = Len(c)
          /\ \A i \in 1 .. Len(c) : d[i] = IF i > w /\ i <= w + Len(t) THEN t[i - w] ELSE c[i]
    BY <1>1, CopyCells
<1>3. PICK u \in Seq(Units) :
          /\ u = s \o t /\ Len(u) = Len(s) + Len(t)
          /\ \A i \in 1 .. Len(s) + Len(t) : u[i] = IF i <= Len(s) THEN s[i] ELSE t[i - Len(s)]
    BY ConcatUnits, Zenon
<1>4. w + Len(t) \in Nat /\ r <= w + Len(t) /\ w + Len(t) - r = Len(u)
    BY <1>1, <1>3
<1>5. ASSUME NEW k \in 1 .. Len(u) PROVE d[r + k] = u[k]
    <2>1. r + k \in 1 .. Len(c) /\ k \in 1 .. Len(s) + Len(t)
        BY <1>1, <1>3
    <2>2. CASE k <= Len(s)
        <3>1. k \in 1 .. Len(s) /\ ~ (r + k > w)
            BY <1>1, <2>1, <2>2
        <3> QED
            BY <1>1, <1>2, <1>3, <2>1, <2>2, <3>1, Zenon
    <2>3. CASE ~ (k <= Len(s))
        <3>1. r + k > w /\ r + k <= w + Len(t) /\ r + k - w = k - Len(s)
            BY <1>1, <2>1, <2>3
        <3>2. PICK i \in 1 .. Len(c) : i = r + k
            BY <2>1, Zenon
        <3>3. i > w /\ i <= w + Len(t) /\ i - w = k - Len(s)
            BY <1>1, <3>1, <3>2
        <3>4. d[i] = t[i - w]
            BY <1>2, <3>3, Zenon
        <3>5. u[k] = t[k - Len(s)]
            BY <1>3, <2>1, <2>3, Zenon
        <3>6. d[i] = u[k]
            BY <3>3, <3>4, <3>5, Zenon
        <3> QED
            BY <3>2, <3>6
    <2> QED
        BY <2>2, <2>3
<1> QED
    BY <1>1, <1>2, <1>3, <1>4, <1>5 DEF HoldsAt

\* The buffer grows.
LEMMA GrowKeeps ==
    ASSUME NEW c, NEW r, NEW w, NEW s \in Seq(Units), HoldsAt(c, r, w, s), NEW n \in Nat
    PROVE  /\ HoldsAt(c \o [i \in 1 .. n |-> Blank], r, w, s)
           /\ Len(c \o [i \in 1 .. n |-> Blank]) = Len(c) + n
<1>1. /\ c \in Seq(Units) /\ r \in Nat /\ w \in Nat /\ kCheapPrepend <= r /\ r <= w /\ w - r = Len(s)
      /\ \A k \in 1 .. Len(s) : c[r + k] = s[k]
      /\ Len(s) \in Nat /\ Len(c) \in Nat /\ w <= Len(c)
    BY DEF HoldsAt
<1>2. PICK t \in Seq(Units) : t = [i \in 1 .. n |-> Blank] /\ Len(t) = n
    <2>1. [i \in 1 .. n |-> Blank] \in [1 .. n -> Units]
        BY DEF Units
    <2>2. [i \in 1 .. n |-> Blank] \in Seq(Units)
        BY <2>1, SeqDef
    <2>3. Len([i \in 1 .. n |-> Blank]) = n
        OBVIOUS
    <2> QED
        BY <2>2, <2>3, Zenon
<1>3. PICK d \in Seq(Units) :
          /\ d = c \o t /\ Len(d) = Len(c) + Len(t)
          /\ \A i \in 1 .. Len(c) + Len(t) : d[i] = IF i <= Len(c) THEN c[i] ELSE t[i - Len(c)]
    BY <1>1, ConcatUnits, Zenon
<1>4. w <= Len(d) /\ Len(d) = Len(c) + n
    <2>1. Len(d) = Len(c) + n
        BY <1>2, <1>3, Zenon
    <2> QED
        BY <1>1, <2>1
<1>5. ASSUME NEW k \in 1 .. Len(s) PROVE d[r + k] = s[k]
    <2>1. r + k \in 1 .. Len(c) + Len(t) /\ r + k <= Len(c)
        BY <1>1, <1>2
    <2> QED
        BY <1>1, <1>3, <2>1, Zenon
<1> QED
    BY <1>1, <1>2, <1>3, <1>4, <1>5, Zenon DEF HoldsAt

\* The bytes move to the front of the buffer.
LEMMA MoveKeeps ==
    ASSUME NEW c, NEW r, NEW w, NEW s \in Seq(Units), HoldsAt(c, r, w, s)
    PROVE  /\ HoldsAt(Copy(c, kCheapPrepend, SubSeq(c, r + 1, w)), kCheapPrepend, kCheapPrepend + (w - r), s)
           /\ Len(Copy(c, kCheapPrepend, SubSeq(c, r + 1, w))) = Len(c)
<1>1. /\ c \in Seq(Units) /\ r \in Nat /\ w \in Nat /\ kCheapPrepend <= r /\ r <= w /\ w - r = Len(s)
      /\ \A k \in 1 .. Len(s) : c[r + k] = s[k]
      /\ Len(s) \in Nat /\ Len(c) \in Nat /\ w <= Len(c) /\ kCheapPrepend = 1
    BY DEF HoldsAt, kCheapPrepend
<1>2. PICK t \in Seq(Units) : t = SubSeq(c, r + 1, w) /\ Len(t) = Len(s) /\ \A k \in 1 .. Len(s) : t[k] = s[k]
    <2>1. r + 1 \in Int /\ w \in Int /\ \A i \in r + 1 .. w : c[i] \in Units
        BY <1>1, ElementOfSeq
    <2>2. /\ SubSeq(c, r + 1, w) \in Seq(Units)
          /\ Len(SubSeq(c, r + 1, w)) = IF r + 1 <= w THEN w - (r + 1) + 1 ELSE 0
          /\ \A i \in 1 .. w - (r + 1) + 1 : SubSeq(c, r + 1, w)[i] = c[r + 1 + i - 1]
        BY <2>1, SubSeqProperties
    <2>3. Len(SubSeq(c, r + 1, w)) = Len(s)
        BY <1>1, <2>2
    <2>4. ASSUME NEW k \in 1 .. Len(s) PROVE SubSeq(c, r + 1, w)[k] = s[k]
        <3>1. k \in 1 .. w - (r + 1) + 1 /\ r + 1 + k - 1 = r + k
            BY <1>1
        <3> QED
            BY <1>1, <2>2, <3>1, Zenon
    <2> QED
        BY <2>2, <2>3, <2>4, Zenon
<1>3. 1 + Len(t) <= Len(c)
    <2>1. Len(t) = Len(s)
        BY <1>2, Zenon
    <2> QED
        BY <1>1, <2>1
<1>t. 1 \in Nat
    OBVIOUS
<1>c. /\ Copy(c, 1, t) \in Seq(Units) /\ Len(Copy(c, 1, t)) = Len(c)
      /\ \A i \in 1 .. Len(c) : Copy(c, 1, t)[i] = IF i > 1 /\ i <= 1 + Len(t) THEN t[i - 1] ELSE c[i]
    <2>1. c \in Seq(Units)
        BY <1>1, Zenon
    <2> QED
        BY <1>3, <1>t, <2>1, CopyCells
<1>4. PICK d \in Seq(Units) :
          /\ d = Copy(c, 1, t) /\ Len(d) = Len(c)
          /\ \A i \in 1 .. Len(c) : d[i] = IF i > 1 /\ i <= 1 + Len(t) THEN t[i - 1] ELSE c[i]
    BY <1>c, Zenon
<1>5. ASSUME NEW k \in 1 .. Len(s) PROVE d[1 + k] = s[k]
    <2>1. Len(t) = Len(s)
        BY <1>2, Zenon
    <2>2. 1 + k \in 1 .. Len(c) /\ 1 + k > 1 /\ 1 + k <= 1 + Len(t) /\ 1 + k - 1 = k
        BY <1>1, <1>3, <2>1
    <2>3. d[1 + k] = t[k]
        BY <1>4, <2>2
    <2> QED
        BY <1>2, <2>3, Zenon
<1>6. 1 \in Nat /\ 1 + (w - r) \in Nat /\ 1 <= 1 + (w - r) /\ 1 + (w - r) - 1 = Len(s) /\ 1 + (w - r) <= Len(c)
    BY <1>1
<1>7. HoldsAt(d, 1, 1 + (w - r), s)
    BY <1>1, <1>4, <1>5, <1>6 DEF HoldsAt
<1> QED
    BY <1>1, <1>2, <1>4, <1>7, Zenon

\* Moving reader_index_ takes bytes from the front and no others.
LEMMA DropKeeps ==
    ASSUME NEW c, NEW r, NEW w, NEW s \in Seq(Units), HoldsAt(c, r, w, s), NEW n \in Nat, n < w - r
    PROVE  HoldsAt(c, r + n, w, SubSeq(s, n + 1, Len(s)))
<1>1. /\ c \in Seq(Units) /\ r \in Nat /\ w \in Nat /\ kCheapPrepend <= r /\ r <= w /\ w - r = Len(s)
      /\ \A k \in 1 .. Len(s) : c[r + k] = s[k]
      /\ Len(s) \in Nat /\ Len(c) \in Nat /\ w <= Len(c) /\ kCheapPrepend = 1
    BY DEF HoldsAt, kCheapPrepend
<1>2. /\ SubSeq(s, n + 1, Len(s)) \in Seq(Units)
      /\ Len(SubSeq(s, n + 1, Len(s))) = IF n + 1 <= Len(s) THEN Len(s) - (n + 1) + 1 ELSE 0
      /\ \A i \in 1 .. Len(s) - (n + 1) + 1 : SubSeq(s, n + 1, Len(s))[i] = s[n + 1 + i - 1]
    <2>1. n + 1 \in Int /\ Len(s) \in Int /\ \A i \in n + 1 .. Len(s) : s[i] \in Units
        BY <1>1, ElementOfSeq
    <2> QED
        BY <2>1, SubSeqProperties
<1>3. PICK t \in Seq(Units) : t = SubSeq(s, n + 1, Len(s)) /\ Len(t) = Len(s) - n
    <2>1. n + 1 <= Len(s) /\ Len(s) - (n + 1) + 1 = Len(s) - n
        BY <1>1
    <2> QED
        BY <1>2, <2>1, Zenon
<1>4. ASSUME NEW k \in 1 .. Len(t) PROVE c[r + n + k] = t[k]
    <2>1. Len(t) = Len(s) - n
        BY <1>3, Zenon
    <2>2. /\ k \in 1 .. Len(s) - (n + 1) + 1 /\ n + k \in 1 .. Len(s) /\ n + 1 + k - 1 = n + k
          /\ r + (n + k) = r + n + k
        BY <1>1, <2>1
    <2>3. t[k] = s[n + k]
        BY <1>2, <1>3, <2>2, Zenon
    <2> QED
        BY <1>1, <2>2, <2>3, Zenon
<1>5. r + n \in Nat /\ 1 <= r + n /\ r + n <= w /\ w - (r + n) = Len(t)
    BY <1>1, <1>3
<1>6. HoldsAt(c, r + n, w, t)
    BY <1>1, <1>4, <1>5, Zenon DEF HoldsAt
<1> QED
    BY <1>3, <1>6, Zenon

\* A buffer is a record of three fields, which the operations write.
LEMMA BufferFields ==
    ASSUME NEW b \in [cells : Seq(Units), reader : Nat, writer : Nat],
           NEW c \in Seq(Units), NEW r \in Nat, NEW w \in Nat, NEW s
    PROVE  /\ HoldsAt(c, b.reader, b.writer, s) => HoldsBytes([b EXCEPT !.cells = c], s)
           /\ HoldsAt(c, b.reader, w, s) => HoldsBytes([b EXCEPT !.cells = c, !.writer = w], s)
           /\ HoldsAt(c, r, w, s) => HoldsBytes([b EXCEPT !.cells = c, !.reader = r, !.writer = w], s)
<1>1. /\ [b EXCEPT !.cells = c] \in [cells : Seq(Units), reader : Nat, writer : Nat]
      /\ [b EXCEPT !.cells = c].cells = c /\ [b EXCEPT !.cells = c].reader = b.reader
      /\ [b EXCEPT !.cells = c].writer = b.writer
    BY Zenon
<1>2. /\ [b EXCEPT !.cells = c, !.writer = w] \in [cells : Seq(Units), reader : Nat, writer : Nat]
      /\ [b EXCEPT !.cells = c, !.writer = w].cells = c
      /\ [b EXCEPT !.cells = c, !.writer = w].reader = b.reader
      /\ [b EXCEPT !.cells = c, !.writer = w].writer = w
    BY Zenon
<1>3. /\ [b EXCEPT !.cells = c, !.reader = r, !.writer = w] \in [cells : Seq(Units), reader : Nat, writer : Nat]
      /\ [b EXCEPT !.cells = c, !.reader = r, !.writer = w].cells = c
      /\ [b EXCEPT !.cells = c, !.reader = r, !.writer = w].reader = r
      /\ [b EXCEPT !.cells = c, !.reader = r, !.writer = w].writer = w
    BY Zenon
<1> QED
    BY <1>1, <1>2, <1>3, Zenon DEF HoldsBytes

\* The indices of a buffer that holds bytes are in order and within its cells.
LEMMA BufferParts ==
    ASSUME NEW b, NEW s \in Seq(Units), HoldsBytes(b, s)
    PROVE  /\ b \in [cells : Seq(Units), reader : Nat, writer : Nat]
           /\ b.cells \in Seq(Units) /\ b.reader \in Nat /\ b.writer \in Nat /\ Len(b.cells) \in Nat
           /\ b.reader <= b.writer /\ b.writer <= Len(b.cells) /\ kCheapPrepend <= b.reader
           /\ HoldsAt(b.cells, b.reader, b.writer, s)
    BY DEF HoldsBytes, HoldsAt

\* Bytes that fit behind the writer.
LEMMA FilledBuffer ==
    ASSUME NEW b, NEW s \in Seq(Units), NEW t \in Seq(Units), HoldsBytes(b, s), NEW n, n = Len(t),
           Len(t) <= Len(b.cells) - b.writer
    PROVE  HoldsBytes([b EXCEPT !.cells = Copy(@, b.writer, t), !.writer = @ + n], s \o t)
<1>1. /\ b \in [cells : Seq(Units), reader : Nat, writer : Nat] /\ Len(t) \in Nat
      /\ b.cells \in Seq(Units) /\ b.reader \in Nat /\ b.writer \in Nat /\ Len(b.cells) \in Nat
      /\ HoldsAt(b.cells, b.reader, b.writer, s)
    BY BufferParts
<1>2. b.writer + Len(t) <= Len(b.cells) /\ b.writer + n \in Nat
    BY <1>1
<1>3. HoldsAt(Copy(b.cells, b.writer, t), b.reader, b.writer + n, s \o t)
    BY <1>1, <1>2, FillKeeps, Zenon
<1>4. Copy(b.cells, b.writer, t) \in Seq(Units)
    BY <1>3 DEF HoldsAt
<1>5. HoldsBytes([b EXCEPT !.cells = Copy(b.cells, b.writer, t), !.writer = b.writer + n], s \o t)
    BY <1>1, <1>2, <1>3, <1>4, BufferFields, Zenon
<1> QED
    BY <1>5, Zenon

\* makeSpace grows or compacts: the bytes stay, and the new ones fit.
LEMMA SpaceKeeps ==
    ASSUME NEW b, NEW s \in Seq(Units), HoldsBytes(b, s), NEW n \in Nat, Len(b.cells) - b.writer < n
    PROVE  HoldsBytes(makeSpace(b, n), s) /\ n <= Len(makeSpace(b, n).cells) - makeSpace(b, n).writer
<1>1. /\ b \in [cells : Seq(Units), reader : Nat, writer : Nat]
      /\ b.cells \in Seq(Units) /\ b.reader \in Nat /\ b.writer \in Nat /\ Len(b.cells) \in Nat
      /\ b.reader <= b.writer /\ b.writer <= Len(b.cells)
      /\ HoldsAt(b.cells, b.reader, b.writer, s)
    BY BufferParts, Zenon
<1>2. PICK m \in Nat : m = n - (Len(b.cells) - b.writer)
    BY <1>1
<1>3. PICK c : /\ c = b.cells \o [i \in 1 .. m |-> Blank] /\ HoldsAt(c, b.reader, b.writer, s)
               /\ Len(c) = Len(b.cells) + m
    BY <1>1, GrowKeeps, Zenon
<1>4. PICK d : /\ d = Copy(b.cells, kCheapPrepend, SubSeq(b.cells, b.reader + 1, b.writer))
               /\ HoldsAt(d, kCheapPrepend, kCheapPrepend + (b.writer - b.reader), s) /\ Len(d) = Len(b.cells)
    BY <1>1, MoveKeeps, Zenon
<1>5. c \in Seq(Units) /\ d \in Seq(Units) /\ kCheapPrepend \in Nat
      /\ kCheapPrepend + (b.writer - b.reader) \in Nat
    BY <1>3, <1>4, Zenon DEF HoldsAt
<1>6. CASE Writable(b) + b.reader < n + kCheapPrepend
    <2>1. makeSpace(b, n) = [b EXCEPT !.cells = c]
        BY <1>2, <1>3, <1>6, Zenon DEF makeSpace, Writable
    <2>2. HoldsBytes([b EXCEPT !.cells = c], s)
        BY <1>1, <1>3, <1>5, BufferFields, Zenon
    <2>3. [b EXCEPT !.cells = c].cells = c /\ [b EXCEPT !.cells = c].writer = b.writer
        BY <1>1, Zenon
    <2>4. n <= Len(c) - b.writer
        BY <1>1, <1>2, <1>3
    <2> QED
        BY <2>1, <2>2, <2>3, <2>4, Zenon
<1>7. CASE ~ (Writable(b) + b.reader < n + kCheapPrepend)
    <2> DEFINE x == kCheapPrepend + (b.writer - b.reader)
               a == [b EXCEPT !.cells = d, !.reader = kCheapPrepend, !.writer = x]
    <2>1. makeSpace(b, n) = a
        BY <1>4, <1>7, Zenon DEF makeSpace, Readable, Contents
    <2>2. HoldsBytes(a, s)
        BY <1>1, <1>4, <1>5, BufferFields, Zenon
    <2>3. a.cells = d /\ a.writer = x
        BY <1>1, <1>5
    <2>4. n <= Len(d) - x
        BY <1>1, <1>4, <1>7, SMTT(20) DEF Writable, kCheapPrepend
    <2> QED
        BY <2>1, <2>2, <2>3, <2>4, Zenon
<1> QED
    BY <1>6, <1>7, Zenon

\* append adds the new bytes behind the old ones.
LEMMA AppendKeeps ==
    ASSUME NEW b, NEW s \in Seq(Units), NEW t \in Seq(Units), HoldsBytes(b, s)
    PROVE  HoldsBytes(append(b, t), s \o t)
<1>1. Len(t) \in Nat /\ Len(b.cells) \in Nat /\ b.writer \in Nat
    BY BufferParts
<1>2. PICK room : /\ room = IF Writable(b) < Len(t) THEN makeSpace(b, Len(t)) ELSE b
                  /\ HoldsBytes(room, s) /\ Len(t) <= Len(room.cells) - room.writer
    <2>1. CASE Writable(b) < Len(t)
        BY <1>1, <2>1, SpaceKeeps, Zenon DEF Writable
    <2>2. CASE ~ (Writable(b) < Len(t))
        <3>1. Len(t) <= Len(b.cells) - b.writer
            BY <1>1, <2>2 DEF Writable
        <3> QED
            BY <2>2, <3>1, Zenon
    <2> QED
        BY <2>1, <2>2, Zenon
<1>3. PICK n : n = Len(t)
    BY Zenon
<1>4. append(b, t) = [room EXCEPT !.cells = Copy(@, room.writer, t), !.writer = @ + n]
    BY <1>2, <1>3, Zenon DEF append
<1>5. HoldsBytes([room EXCEPT !.cells = Copy(@, room.writer, t), !.writer = @ + n], s \o t)
    BY <1>2, <1>3, FilledBuffer, Zenon
<1> QED
    BY <1>4, <1>5, Zenon

\* readFd adds what was read, whether it fitted into the buffer or went through extrabuf.
LEMMA ReadKeeps ==
    ASSUME NEW b, NEW s \in Seq(Units), NEW t \in Seq(Units), HoldsBytes(b, s)
    PROVE  HoldsBytes(readFd(b, t), s \o t)
<1>1. Len(t) \in Nat /\ Len(b.cells) \in Nat /\ b.writer \in Nat /\ b.writer <= Len(b.cells)
    BY BufferParts
<1> DEFINE fits == IF Len(t) <= Writable(b) THEN Len(t) ELSE Writable(b)
<1>3. fits \in 0 .. Len(t) /\ fits <= Len(b.cells) - b.writer
    BY <1>1 DEF Writable
<1>4. PICK u \in Seq(Units) : u = SubSeq(t, 1, fits) /\ Len(u) = fits
    <2>1. 1 \in Int /\ fits \in Int /\ \A i \in 1 .. fits : t[i] \in Units
        BY <1>1, <1>3, ElementOfSeq
    <2>2. SubSeq(t, 1, fits) \in Seq(Units) /\ Len(SubSeq(t, 1, fits)) = IF 1 <= fits THEN fits - 1 + 1 ELSE 0
        BY <2>1, SubSeqProperties
    <2>3. (IF 1 <= fits THEN fits - 1 + 1 ELSE 0) = fits
        BY <1>1, <1>3
    <2> QED
        BY <2>2, <2>3, Zenon
<1>5. PICK v \in Seq(Units) : v = SubSeq(t, fits + 1, Len(t))
    <2>1. fits + 1 \in Int /\ Len(t) \in Int /\ \A i \in fits + 1 .. Len(t) : t[i] \in Units
        BY <1>1, <1>3, ElementOfSeq
    <2> QED
        BY <2>1, SubSeqProperties, Zenon
<1>6. PICK first : /\ first = [b EXCEPT !.cells = Copy(@, b.writer, SubSeq(t, 1, fits)), !.writer = @ + fits]
                   /\ HoldsBytes(first, s \o u)
    <2>1. Len(u) <= Len(b.cells) - b.writer
        BY <1>3, <1>4, Zenon
    <2> QED
        BY <1>4, <2>1, FilledBuffer, Zenon
<1>7. t = u \o v /\ (fits = Len(t) => t = u)
    <2>1. SubSeq(t, 1, fits) \o SubSeq(t, fits + 1, Len(t)) = SubSeq(t, 1, Len(t))
        <3>1. 1 \in 1 .. Len(t) + 1 /\ fits \in 1 - 1 .. Len(t) /\ Len(t) \in fits .. Len(t)
            BY <1>1, <1>3
        <3> QED
            BY <3>1, ConcatAdjacentSubSeq, Zenon
    <2>2. SubSeq(t, 1, Len(t)) = t
        BY SubSeqFull, Zenon
    <2> QED
        BY <1>4, <1>5, <2>1, <2>2, Zenon
<1>8. readFd(b, t) = IF fits = Len(t) THEN first ELSE append(first, v)
    BY <1>5, <1>6, Zenon DEF readFd
<1>9. s \o u \in Seq(Units) /\ (s \o u) \o v = s \o (u \o v)
    <2>1. s \o u \in Seq(Units)
        BY ConcatUnits
    <2> QED
        BY <2>1, ConcatUnitsAssociates, SMTT(20)
<1> HIDE DEF fits
<1>10. CASE fits = Len(t)
    BY <1>6, <1>7, <1>8, <1>10, Zenon
<1>11. CASE fits # Len(t)
    <2>1. HoldsBytes(append(first, v), (s \o u) \o v)
        BY <1>6, <1>9, AppendKeeps, Zenon
    <2> QED
        BY <1>7, <1>8, <1>9, <1>11, <2>1, Zenon
<1> QED
    BY <1>10, <1>11, Zenon

\* What a caller sees through peek and readableBytes is what the buffer holds.
LEMMA ContentsHeld ==
    ASSUME NEW b, NEW s \in Seq(Units), HoldsBytes(b, s)
    PROVE  Contents(b) = s /\ Readable(b) = Len(s)
<1>1. /\ b.cells \in Seq(Units) /\ b.reader \in Nat /\ b.writer \in Nat /\ Len(b.cells) \in Nat
      /\ b.reader <= b.writer /\ b.writer <= Len(b.cells) /\ Len(s) \in Nat
      /\ b.writer - b.reader = Len(s) /\ \A k \in 1 .. Len(s) : b.cells[b.reader + k] = s[k]
    BY DEF HoldsBytes, HoldsAt
<1>2. PICK c \in Seq(Units), r \in Nat, w \in Nat : c = b.cells /\ r = b.reader /\ w = b.writer
    BY <1>1, Zenon
<1>3. /\ SubSeq(c, r + 1, w) \in Seq(Units)
      /\ Len(SubSeq(c, r + 1, w)) = IF r + 1 <= w THEN w - (r + 1) + 1 ELSE 0
      /\ \A i \in 1 .. w - (r + 1) + 1 : SubSeq(c, r + 1, w)[i] = c[r + 1 + i - 1]
    <2>1. w <= Len(c) /\ Len(c) \in Nat
        BY <1>1, <1>2, Zenon
    <2>2. r + 1 \in Int /\ w \in Int /\ \A i \in r + 1 .. w : i \in 1 .. Len(c)
        BY <2>1
    <2>3. \A i \in r + 1 .. w : c[i] \in Units
        BY <2>2, ElementOfSeq, Zenon
    <2> QED
        BY <2>2, <2>3, SubSeqProperties
<1>4. PICK t \in Seq(Units) :
          /\ t = SubSeq(c, r + 1, w) /\ Len(t) = IF r + 1 <= w THEN w - (r + 1) + 1 ELSE 0
          /\ \A i \in 1 .. w - (r + 1) + 1 : t[i] = c[r + 1 + i - 1]
    BY <1>3, Zenon
<1>5. Len(t) = Len(s)
    <2>0. Len(t) \in Nat
        OBVIOUS
    <2>1. PICK n \in Nat, m \in Nat : n = Len(s) /\ m = Len(t)
        BY <1>1, <2>0, Zenon
    <2>2. w - r = n /\ r <= w /\ m = IF r + 1 <= w THEN w - (r + 1) + 1 ELSE 0
        BY <1>1, <1>2, <1>4, <2>1, Zenon
    <2>3. m = n
        BY <2>2
    <2> QED
        BY <2>1, <2>3, Zenon
<1>6. ASSUME NEW k \in 1 .. Len(t) PROVE t[k] = s[k]
    <2>1. k \in 1 .. w - (r + 1) + 1 /\ r + 1 + k - 1 = r + k /\ k \in 1 .. Len(s)
        BY <1>1, <1>2, <1>5
    <2>2. t[k] = c[r + k]
        BY <1>4, <2>1, Zenon
    <2> QED
        BY <1>1, <1>2, <2>1, <2>2, Zenon
<1>7. t = s
    BY <1>5, <1>6, SeqEqual, Zenon
<1> QED
    BY <1>1, <1>2, <1>4, <1>7, Zenon DEF Contents, Readable

\* retrieveAll leaves an empty buffer.
LEMMA EmptiedBuffer ==
    ASSUME NEW b, NEW s \in Seq(Units), HoldsBytes(b, s)
    PROVE  HoldsBytes(retrieveAll(b), << >>)
<1>1. /\ b \in [cells : Seq(Units), reader : Nat, writer : Nat]
      /\ b.cells \in Seq(Units) /\ b.reader \in Nat /\ b.writer \in Nat /\ Len(b.cells) \in Nat
      /\ b.reader <= b.writer /\ b.writer <= Len(b.cells) /\ kCheapPrepend <= b.reader
      /\ kCheapPrepend \in Nat
    BY BufferParts, Zenon DEF kCheapPrepend
<1>2. /\ retrieveAll(b) \in [cells : Seq(Units), reader : Nat, writer : Nat]
      /\ retrieveAll(b).cells = b.cells
      /\ retrieveAll(b).reader = kCheapPrepend /\ retrieveAll(b).writer = kCheapPrepend
    BY <1>1, Zenon DEF retrieveAll
<1>3. kCheapPrepend <= Len(b.cells) /\ kCheapPrepend - kCheapPrepend = 0
    BY <1>1
<1>4. HoldsAt(b.cells, kCheapPrepend, kCheapPrepend, << >>)
    BY <1>1, <1>3 DEF HoldsAt
<1> QED
    BY <1>2, <1>4, Zenon DEF HoldsBytes

\* retrieve() drops the first bytes, and what is left stays as it was.
LEMMA RetrieveKeeps ==
    ASSUME NEW b, NEW s \in Seq(Units), HoldsBytes(b, s), NEW n \in Nat
    PROVE  \E m \in 0 .. Len(s) : HoldsBytes(retrieve(b, n), SubSeq(s, m + 1, Len(s)))
<1>1. /\ b \in [cells : Seq(Units), reader : Nat, writer : Nat]
      /\ b.cells \in Seq(Units) /\ b.reader \in Nat /\ b.writer \in Nat /\ Len(s) \in Nat
      /\ HoldsAt(b.cells, b.reader, b.writer, s) /\ b.writer - b.reader = Len(s)
    BY BufferParts DEF HoldsAt
<1>2. CASE n < Readable(b)
    <2>1. HoldsAt(b.cells, b.reader + n, b.writer, SubSeq(s, n + 1, Len(s)))
        BY <1>1, <1>2, DropKeeps, Zenon DEF Readable
    <2>2. retrieve(b, n) = [b EXCEPT !.reader = b.reader + n] /\ b.reader + n \in Nat
        BY <1>1, <1>2 DEF retrieve
    <2>3. /\ [b EXCEPT !.reader = b.reader + n] \in [cells : Seq(Units), reader : Nat, writer : Nat]
          /\ [b EXCEPT !.reader = b.reader + n].cells = b.cells
          /\ [b EXCEPT !.reader = b.reader + n].reader = b.reader + n
          /\ [b EXCEPT !.reader = b.reader + n].writer = b.writer
        BY <1>1, <2>2, Zenon
    <2>4. HoldsBytes(retrieve(b, n), SubSeq(s, n + 1, Len(s)))
        BY <2>1, <2>2, <2>3, Zenon DEF HoldsBytes
    <2>5. n \in 0 .. Len(s)
        BY <1>1, <1>2 DEF Readable
    <2> QED
        BY <2>4, <2>5, Zenon
<1>3. CASE ~ (n < Readable(b))
    <2>1. retrieve(b, n) = retrieveAll(b)
        BY <1>3, Zenon DEF retrieve
    <2>2. SubSeq(s, Len(s) + 1, Len(s)) = << >>
        <3>1. Len(s) + 1 \in Int /\ Len(s) \in Int /\ Len(s) < Len(s) + 1
            BY <1>1
        <3> QED
            BY <3>1, SubSeqEmpty, Zenon
    <2>3. Len(s) \in 0 .. Len(s)
        BY <1>1
    <2> QED
        BY <2>1, <2>2, <2>3, EmptiedBuffer, Zenon
<1> QED
    BY <1>2, <1>3

\* The part of the stream after the first n units that has arrived
Arrived(n) == SubSeq(stream, n + 1, arrived)

FramingInv ==
    /\ stream \in Seq(Units) /\ arrived \in Nat /\ arrived <= Len(stream)
    /\ \E n \in 0 .. arrived : HoldsBytes(buffer, Arrived(n))

\* What arrived and was not taken is a part of the stream, of the length it should have.
LEMMA ArrivedUnits ==
    ASSUME stream \in Seq(Units), arrived \in Nat, arrived <= Len(stream), NEW n \in 0 .. arrived
    PROVE  Arrived(n) \in Seq(Units) /\ Len(Arrived(n)) = arrived - n
<1>1. n + 1 \in Int /\ arrived \in Int /\ Len(stream) \in Nat
    OBVIOUS
<1>2. \A i \in n + 1 .. arrived : stream[i] \in Units
    BY <1>1, ElementOfSeq
<1>3. /\ Arrived(n) \in Seq(Units)
      /\ Len(Arrived(n)) = IF n + 1 <= arrived THEN arrived - (n + 1) + 1 ELSE 0
    BY <1>1, <1>2, SubSeqProperties DEF Arrived
<1> QED
    BY <1>3

\* The invariant says that the buffer is a queue.
LEMMA FramingFromInv == FramingInv => BufferIsAQueue
<1> SUFFICES ASSUME FramingInv PROVE BufferIsAQueue
    BY Zenon
<1>1. stream \in Seq(Units) /\ arrived \in Nat /\ arrived <= Len(stream)
    BY Zenon DEF FramingInv
<1>2. PICK n \in 0 .. arrived : HoldsBytes(buffer, Arrived(n))
    BY Zenon DEF FramingInv
<1>3. Arrived(n) \in Seq(Units) /\ Len(Arrived(n)) = arrived - n
    BY <1>1, ArrivedUnits, Zenon
<1>4. Contents(buffer) = Arrived(n) /\ Readable(buffer) = arrived - n
    BY <1>2, <1>3, ContentsHeld, Zenon
<1>5. arrived - Readable(buffer) + 1 = n + 1
    BY <1>1, <1>4
<1>6. /\ kCheapPrepend <= buffer.reader /\ buffer.reader <= buffer.writer
      /\ buffer.writer <= Len(buffer.cells)
    BY <1>2, <1>3, BufferParts, Zenon
<1> QED
    BY <1>4, <1>5, <1>6, Zenon DEF BufferIsAQueue, Arrived

\* Two parts of a stream that meet are one part.
LEMMA Adjacent ==
    ASSUME NEW x \in Seq(Units), NEW f \in Nat, NEW k \in Nat, NEW n \in Nat, f <= k, k <= n, n <= Len(x)
    PROVE  SubSeq(x, f + 1, k) \o SubSeq(x, k + 1, n) = SubSeq(x, f + 1, n)
<1>1. f + 1 \in 1 .. Len(x) + 1 /\ k \in f + 1 - 1 .. Len(x) /\ n \in k .. Len(x)
    OBVIOUS
<1> QED
    BY <1>1, ConcatAdjacentSubSeq

\* A part of a part of a stream is a part of it.
LEMMA PartOfPart ==
    ASSUME NEW x \in Seq(Units), NEW i \in 1 .. Len(x), NEW j \in 1 .. Len(x),
           NEW m \in 1 .. j - i + 1, NEW n \in 1 .. j - i + 1
    PROVE  SubSeq(SubSeq(x, i, j), m, n) = SubSeq(x, i + m - 1, i + n - 1)
    BY SubSeqOfSubSeq

\* Steps that take something off the front of the buffer, or everything, or nothing.
LEMMA TakenOff ==
    ASSUME FramingInv, UNCHANGED <<stream, arrived>>, NEW n \in Nat,
           buffer' \in {buffer, retrieveAll(buffer), retrieve(buffer, n)}
    PROVE  FramingInv'
<1>1. stream \in Seq(Units) /\ arrived \in Nat /\ arrived <= Len(stream) /\ Len(stream) \in Nat
    BY DEF FramingInv
<1>2. PICK f \in 0 .. arrived : HoldsBytes(buffer, Arrived(f))
    BY DEF FramingInv
<1>3. PICK s \in Seq(Units) : s = Arrived(f) /\ Len(s) = arrived - f
    BY <1>1, ArrivedUnits, Zenon
<1>4. HoldsBytes(buffer, s)
    BY <1>2, <1>3, Zenon
<1>5. ASSUME NEW g \in 0 .. arrived, HoldsBytes(buffer', Arrived(g)) PROVE FramingInv'
    BY <1>1, <1>5, Zenon DEF FramingInv, Arrived
<1>6. CASE buffer' = buffer
    BY <1>2, <1>5, <1>6, Zenon
<1>7. Arrived(arrived) = << >> /\ arrived \in 0 .. arrived
    <2>1. arrived + 1 \in Int /\ arrived \in Int /\ arrived < arrived + 1
        BY <1>1
    <2> QED
        BY <1>1, <2>1, SubSeqEmpty DEF Arrived
<1>8. CASE buffer' = retrieveAll(buffer)
    BY <1>4, <1>5, <1>7, <1>8, EmptiedBuffer, Zenon
<1>9. CASE buffer' = retrieve(buffer, n)
    <2>1. PICK m \in 0 .. Len(s) : HoldsBytes(buffer', SubSeq(s, m + 1, Len(s)))
        BY <1>4, <1>9, RetrieveKeeps
    <2>2. f + m \in 0 .. arrived
        BY <1>1, <1>3
    <2>3. SubSeq(s, m + 1, Len(s)) = Arrived(f + m)
        <3>1. CASE m = Len(s)
            <4>1. Len(s) + 1 \in Int /\ Len(s) \in Int /\ Len(s) < Len(s) + 1 /\ f + m = arrived
                BY <1>1, <1>3, <3>1
            <4>2. SubSeq(s, Len(s) + 1, Len(s)) = << >>
                BY <4>1, SubSeqEmpty, Zenon
            <4> QED
                BY <1>7, <3>1, <4>1, <4>2, Zenon
        <3>2. CASE m # Len(s)
            <4>1. /\ f + 1 \in 1 .. Len(stream) /\ arrived \in 1 .. Len(stream)
                  /\ m + 1 \in 1 .. arrived - (f + 1) + 1 /\ Len(s) \in 1 .. arrived - (f + 1) + 1
                  /\ f + 1 + (m + 1) - 1 = f + m + 1 /\ f + 1 + Len(s) - 1 = arrived
                BY <1>1, <1>3, <3>2
            <4>2. SubSeq(SubSeq(stream, f + 1, arrived), m + 1, Len(s))
                      = SubSeq(stream, f + 1 + (m + 1) - 1, f + 1 + Len(s) - 1)
                BY <1>1, <4>1, PartOfPart, Zenon
            <4> QED
                BY <1>3, <4>1, <4>2, Zenon DEF Arrived
        <3> QED
            BY <3>1, <3>2, Zenon
    <2> QED
        BY <1>5, <2>1, <2>2, <2>3, Zenon
<1> QED
    BY <1>6, <1>8, <1>9, Zenon

\* A read of any length adds exactly what arrived.
LEMMA HandleReadableStep == ASSUME FramingInv, NEW n \in Nat, handleReadable(n) PROVE FramingInv'
<1>1. stream \in Seq(Units) /\ arrived \in Nat /\ arrived <= Len(stream) /\ Len(stream) \in Nat
    BY DEF FramingInv
<1>2. /\ n \in 1 .. Len(stream) - arrived /\ stream' = stream /\ arrived' = arrived + n
      /\ buffer' = readFd(buffer, SubSeq(stream, arrived + 1, arrived + n))
    BY Zenon DEF handleReadable
<1>3. PICK f \in 0 .. arrived : HoldsBytes(buffer, Arrived(f))
    BY Zenon DEF FramingInv
<1>4. arrived + n \in Nat /\ arrived + n <= Len(stream) /\ f \in 0 .. arrived + n
    BY <1>1, <1>2
<1>5. PICK t \in Seq(Units) : t = SubSeq(stream, arrived + 1, arrived + n)
    <2>1. arrived + 1 \in Int /\ arrived + n \in Int /\ \A i \in arrived + 1 .. arrived + n : stream[i] \in Units
        BY <1>1, <1>4, ElementOfSeq
    <2> QED
        BY <2>1, SubSeqProperties, Zenon
<1>6. HoldsBytes(buffer', Arrived(f) \o t)
    <2>1. Arrived(f) \in Seq(Units)
        BY <1>1, ArrivedUnits, Zenon
    <2> QED
        BY <1>2, <1>3, <1>5, <2>1, ReadKeeps, Zenon
<1>7. Arrived(f) \o t = SubSeq(stream, f + 1, arrived + n)
    <2>1. f \in Nat /\ f <= arrived /\ arrived <= arrived + n
        BY <1>1
    <2>2. SubSeq(stream, f + 1, arrived) \o SubSeq(stream, arrived + 1, arrived + n)
              = SubSeq(stream, f + 1, arrived + n)
        BY <1>1, <1>4, <2>1, Adjacent
    <2> QED
        BY <1>5, <2>2, Zenon DEF Arrived
<1> QED
    BY <1>1, <1>2, <1>4, <1>6, <1>7, Zenon DEF FramingInv, Arrived

\* The lengths that headers of packets and frames announce are numbers.
LEMMA UnitParts ==
    ASSUME NEW u \in Units
    PROVE  /\ u[1] = "head1" => u[2] \in Nat
           /\ u[1] = "frame" => u[3] \in Nat
<1>1. CASE u \in {"head1", "head2", "body", "bad", "get"} \X Nat
    BY <1>1, Zenon
<1>2. CASE u \in {"end"} \X {"ok", "refused"}
    BY <1>2
<1>3. CASE u \in {"frame"} \X {"binary", "ping", "pong", "text", "unmasked", "close"} \X Nat
    BY <1>3, Zenon
<1>4. CASE u = Blank
    BY <1>4, Zenon DEF Blank
<1> QED
    BY <1>1, <1>2, <1>3, <1>4, Zenon DEF Units

\* decode takes a number of units off the stream.
LEMMA PacketLength ==
    ASSUME NEW bytes \in Seq(Units), decode(bytes).status = "OK"
    PROVE  decode(bytes).length \in Nat
<1>1. ~ (Len(bytes) < kPacketHeaderLength) /\ validateHeader(bytes)
    BY Zenon DEF decode
<1>2. 1 \in 1 .. Len(bytes)
    BY <1>1 DEF kPacketHeaderLength
<1>3. bytes[1] \in Units
    BY <1>2, ElementOfSeq
<1>4. bytes[1][2] \in Nat
    BY <1>1, <1>3, UnitParts DEF validateHeader
<1>5. kPacketHeaderLength + Body(bytes[1][2]) \in Nat
    BY <1>4 DEF kPacketHeaderLength, Body
<1>6. decode(bytes) = [status |-> "OK", packet |-> bytes[1][2],
                       length |-> kPacketHeaderLength + Body(bytes[1][2])]
    BY <1>1, Zenon DEF decode
<1> QED
    BY <1>5, <1>6

\* decodeFrame takes a number of units off the stream.
LEMMA FrameLength ==
    ASSUME NEW bytes \in Seq(Units), bytes # << >>, decodeFrame(bytes).status = "OK"
    PROVE  1 + Len(decodeFrame(bytes).payload) \in Nat
<1>1. bytes[1][1] = "frame" /\ ~ (bytes[1][3] > Len(bytes) - 1)
    BY Zenon DEF decodeFrame
<1>2. 1 \in 1 .. Len(bytes) /\ Len(bytes) \in Nat
    OBVIOUS
<1>3. bytes[1] \in Units
    BY <1>2, ElementOfSeq, Zenon
<1>4. bytes[1][3] \in Nat
    BY <1>1, <1>3, UnitParts, Zenon
<1>5. PICK m \in Nat : m = bytes[1][3] /\ m <= Len(bytes) - 1
    BY <1>1, <1>2, <1>4
<1>6. SubSeq(bytes, 2, 1 + m) \in Seq(Units)
    <2>1. 2 \in Int /\ 1 + m \in Int /\ \A i \in 2 .. 1 + m : bytes[i] \in Units
        BY <1>2, <1>5, ElementOfSeq
    <2> QED
        BY <2>1, SubSeqProperties
<1>7. decodeFrame(bytes).payload = SubSeq(bytes, 2, 1 + m)
    BY <1>1, <1>5, Zenon DEF decodeFrame
<1>8. Len(SubSeq(bytes, 2, 1 + m)) \in Nat
    BY <1>6, LenProperties
<1> QED
    BY <1>7, <1>8

Order == INSTANCE WellFoundedInduction

\* A handshake ends with the first empty line of the request.
LEMMA Smallest == ASSUME NEW T, T \subseteq Nat, T # {} PROVE \E x \in T : \A y \in T : x <= y
<1>1. Order!IsWellFoundedOn(Order!OpToRel(<, Nat), Nat)
    BY Order!NatLessThanWellFounded, Zenon
<1>2. PICK x \in T : \A y \in T : ~ (<<y, x>> \in Order!OpToRel(<, Nat))
    BY <1>1, Order!WFMin, Zenon
<1>3. ASSUME NEW y \in T PROVE x <= y
    <2>1. x \in Nat /\ y \in Nat
        BY Zenon
    <2>2. ~ (y < x)
        BY <1>2, <2>1, Zenon DEF Order!OpToRel
    <2> QED
        BY <2>1, <2>2
<1> QED
    BY <1>3, Zenon

\* onMessage tells WebSocket clients from plain ones and takes the handshake off.
LEMMA OnMessageStep == ASSUME FramingInv, onMessage PROVE FramingInv'
<1>1. UNCHANGED <<stream, arrived>>
    BY Zenon DEF onMessage
<1>2. PICK s \in Seq(Units) : Contents(buffer) = s
    BY ArrivedUnits, ContentsHeld, Zenon DEF FramingInv
<1>3. \E n \in Nat : buffer' \in {buffer, retrieveAll(buffer), retrieve(buffer, n)}
    <2>1. CASE UNCHANGED buffer
        BY <2>1, Zenon
    <2>2. CASE tryHandleWebSocketHandshake(Contents(buffer)) /\ ~ UNCHANGED buffer
        <3> DEFINE end == {i \in 1 .. Len(s) : s[i][1] = "end"}
                   last == CHOOSE i \in end : \A j \in end : i <= j
        <3>1. end # {} /\ buffer' = retrieve(buffer, last)
            BY <1>2, <2>2, Zenon DEF tryHandleWebSocketHandshake
        <3>2. end \subseteq Nat
            OBVIOUS
        <3> HIDE DEF end
        <3>3. \E i \in end : \A j \in end : i <= j
            BY <3>1, <3>2, Smallest, Zenon
        <3>4. last \in Nat
            BY <3>2, <3>3, Zenon
        <3> QED
            BY <3>1, <3>4, Zenon
    <2> QED
        BY <2>1, <2>2, Zenon DEF onMessage
<1> QED
    BY <1>1, <1>3, TakenOff, Zenon

\* onTcpMessage takes whole packets off the buffer, or all of it after an error.
LEMMA OnTcpMessageStep == ASSUME FramingInv, onTcpMessage PROVE FramingInv'
<1>1. UNCHANGED <<stream, arrived>>
    BY Zenon DEF onTcpMessage
<1>2. Contents(buffer) \in Seq(Units)
    BY ArrivedUnits, ContentsHeld, Zenon DEF FramingInv
<1>3. \E n \in Nat : buffer' \in {buffer, retrieveAll(buffer), retrieve(buffer, n)}
    <2>1. CASE decode(Contents(buffer)).status = "OK" /\ buffer' = retrieve(buffer, decode(Contents(buffer)).length)
        BY <1>2, <2>1, PacketLength, Zenon
    <2>2. CASE buffer' \in {buffer, retrieveAll(buffer)}
        BY <2>2, Zenon
    <2> QED
        BY <2>1, <2>2, Zenon DEF onTcpMessage
<1> QED
    BY <1>1, <1>3, TakenOff

\* onWebSocketMessage takes whole frames off the buffer.
LEMMA OnWebSocketStep == ASSUME FramingInv, onWebSocketMessage PROVE FramingInv'
<1>1. UNCHANGED <<stream, arrived>>
    BY Zenon DEF onWebSocketMessage
<1>2. PICK bytes \in Seq(Units) : bytes = Contents(buffer)
    BY ArrivedUnits, ContentsHeld, Zenon DEF FramingInv
<1>3. \E n \in Nat : buffer' \in {buffer, retrieveAll(buffer), retrieve(buffer, n)}
    <2>1. CASE /\ bytes # << >> /\ decodeFrame(bytes).status = "OK"
               /\ buffer' = retrieve(buffer, 1 + Len(decodeFrame(bytes).payload))
        BY <2>1, FrameLength
    <2>2. CASE buffer' \in {buffer, retrieveAll(buffer)}
        BY <2>2, Zenon
    <2> QED
        BY <1>2, <2>1, <2>2, Zenon DEF onWebSocketMessage
<1> QED
    BY <1>1, <1>3, TakenOff, Zenon

\* Whatever the client sends, the stream is made of units.
LEMMA StreamUnits == ASSUME NEW s \in WellFormed \cup Malformed PROVE s \in Seq(Units)
<1>1. ASSUME NEW p \in Nat PROVE Packet(p) \in Seq(Units)
    <2>1. <<"head1", p>> \in Units /\ <<"head2", p>> \in Units /\ <<"body", p>> \in Units
        BY Zenon DEF Units
    <2>2. <<<<"head1", p>>, <<"head2", p>>>> \in Seq(Units)
        BY <2>1
    <2>3. PICK n \in Nat : n = Body(p)
        BY DEF Body
    <2>4. [i \in 1 .. n |-> <<"body", p>>] \in [1 .. n -> Units]
        BY <2>1, Zenon
    <2>5. [i \in 1 .. n |-> <<"body", p>>] \in Seq(Units)
        BY <2>4, SeqDef
    <2> QED
        BY <2>2, <2>3, <2>5, ConcatUnits, Zenon DEF Packet
<1>2. Packet(1) \in Seq(Units) /\ Packet(2) \in Seq(Units) /\ Packet(3) \in Seq(Units)
    BY <1>1
<1>3. BadPacket \in Seq(Units)
    <2>1. <<"head1", 0>> \in Units /\ <<"bad", 0>> \in Units
        BY DEF Units
    <2> QED
        BY <2>1 DEF BadPacket
<1>4. Http("ok") \in Seq(Units) /\ Http("refused") \in Seq(Units)
    <2>1. <<"get", 0>> \in Units /\ <<"end", "ok">> \in Units /\ <<"end", "refused">> \in Units
        BY Zenon DEF Units
    <2> QED
        BY <2>1 DEF Http
<1>5. \A a, b \in Seq(Units) : a \o b \in Seq(Units)
    BY ConcatUnits, Zenon
<1>6. ASSUME NEW op \in {"binary", "ping", "pong", "text", "unmasked", "close"}, NEW bytes \in Seq(Units)
      PROVE  Frame(op, bytes) \in Seq(Units)
    <2>1. <<"frame", op, Len(bytes)>> \in Units
        BY DEF Units
    <2>2. <<<<"frame", op, Len(bytes)>>>> \in Seq(Units)
        BY <2>1
    <2> QED
        BY <1>5, <2>2, Zenon DEF Frame
<1>7. [i \in 1 .. HeaderLimit + 1 |-> <<"get", 0>>] \in Seq(Units)
    <2>1. <<"get", 0>> \in Units
        BY Zenon DEF Units
    <2>2. HeaderLimit + 1 \in Nat
        BY FramingAssumption
    <2>3. [i \in 1 .. HeaderLimit + 1 |-> <<"get", 0>>] \in [1 .. HeaderLimit + 1 -> Units]
        BY <2>1, Zenon
    <2>4. [i \in 1 .. HeaderLimit + 1 |-> <<"get", 0>>] \in UNION {[1 .. n -> Units] : n \in Nat}
        BY <2>2, <2>3, Zenon
    <2> QED
        BY <2>4, SeqDef, Zenon
<1>8. << >> \in Seq(Units)
    OBVIOUS
<1>9. \A op \in {"binary", "ping", "pong", "text", "unmasked", "close"} :
          \A a, b \in Seq(Units) : b \o Frame(op, a) \in Seq(Units)
    BY <1>5, <1>6, Zenon
<1>10. CASE s \in WellFormed
    <2>1. Packet(1) \o Packet(2) \in Seq(Units)
        BY <1>2, <1>5, Zenon
    <2>2. Packet(1) \o Packet(2) \o Packet(3) \in Seq(Units)
        BY <1>2, <1>5, <2>1, Zenon
    <2>3. Http("ok") \o Frame("binary", Packet(1) \o Packet(2)) \in Seq(Units)
        BY <1>4, <1>9, <2>1, Zenon
    <2>4. Http("ok") \o Frame("binary", Packet(1) \o Packet(2)) \o Frame("ping", << >>) \in Seq(Units)
        BY <1>8, <1>9, <2>3, Zenon
    <2>5. Http("ok") \o Frame("binary", Packet(1) \o Packet(2)) \o Frame("ping", << >>)
              \o Frame("pong", << >>) \in Seq(Units)
        BY <1>8, <1>9, <2>4, Zenon
    <2>6. Http("ok") \o Frame("binary", Packet(1) \o Packet(2)) \o Frame("ping", << >>)
              \o Frame("pong", << >>) \o Frame("binary", Packet(3)) \in Seq(Units)
        BY <1>2, <1>9, <2>5, Zenon
    <2> QED
        BY <1>10, <2>2, <2>6, Zenon DEF WellFormed
<1>11. CASE s \in Malformed
    <2>1. Packet(1) \o BadPacket \in Seq(Units) /\ BadPacket \o Packet(1) \in Seq(Units)
        BY <1>2, <1>3, <1>5, Zenon
    <2>2. Packet(1) \o BadPacket \o Packet(2) \in Seq(Units) /\ Http("refused") \o Packet(1) \in Seq(Units)
        BY <1>2, <1>4, <1>5, <2>1, Zenon
    <2>3. /\ Http("ok") \o Frame("text", Packet(1)) \in Seq(Units)
          /\ Http("ok") \o Frame("binary", BadPacket \o Packet(1)) \in Seq(Units)
          /\ Http("ok") \o Frame("binary", Packet(1)) \in Seq(Units)
        BY <1>2, <1>4, <1>9, <2>1, Zenon
    <2>4. /\ Http("ok") \o Frame("binary", Packet(1)) \o Frame("unmasked", Packet(2)) \in Seq(Units)
          /\ Http("ok") \o Frame("binary", Packet(1)) \o Frame("close", << >>) \in Seq(Units)
        BY <1>2, <1>8, <1>9, <2>3, Zenon
    <2> QED
        BY <1>7, <1>11, <2>2, <2>3, <2>4, Zenon DEF Malformed
<1> QED
    BY <1>10, <1>11, Zenon

\* The buffer starts empty.
LEMMA FramingInitially == FramingInit => FramingInv
<1> SUFFICES ASSUME FramingInit PROVE FramingInv
    BY Zenon
<1>1. stream \in Seq(Units) /\ arrived = 0 /\ Len(stream) \in Nat
    BY StreamUnits DEF FramingInit
<1>2. Arrived(0) = << >>
    <2>1. 0 + 1 \in Int /\ 0 \in Int /\ 0 < 0 + 1
        OBVIOUS
    <2> QED
        BY <1>1, <2>1, SubSeqEmpty, Zenon DEF Arrived
<1>3. HoldsBytes(buffer, << >>)
    <2>1. PICK n \in Nat : n = kCheapPrepend + InitialSize /\ 1 <= n /\ kCheapPrepend = 1
        BY FramingAssumption DEF kCheapPrepend
    <2>2. PICK c \in Seq(Units) : c = [i \in 1 .. n |-> Blank] /\ Len(c) = n
        <3>1. [i \in 1 .. n |-> Blank] \in [1 .. n -> Units]
            BY Zenon DEF Units
        <3>2. [i \in 1 .. n |-> Blank] \in Seq(Units)
            BY <3>1, SeqDef
        <3>3. Len([i \in 1 .. n |-> Blank]) = n
            OBVIOUS
        <3> QED
            BY <3>2, <3>3, Zenon
    <2>3. buffer = [cells |-> c, reader |-> 1, writer |-> 1]
        BY <2>1, <2>2 DEF FramingInit
    <2>4. HoldsAt(c, 1, 1, << >>)
        <3>1. 1 <= Len(c)
            BY <2>1, <2>2, Zenon
        <3> QED
            BY <2>1, <3>1 DEF HoldsAt
    <2> QED
        BY <2>3, <2>4, Zenon DEF HoldsBytes
<1>4. 0 \in 0 .. arrived /\ arrived \in Nat /\ arrived <= Len(stream)
    BY <1>1
<1> QED
    BY <1>1, <1>2, <1>3, <1>4, Zenon DEF FramingInv

\* Whatever the size of the first allocation and however the reads cut the stream: the
\* input buffer holds exactly what arrived and was not taken yet, in order, through growing,
\* moving to the front and reading past its end (Buffer::makeSpace, append, readFd, retrieve).
THEOREM BufferKeepsBytes == FramingSpec => []BufferIsAQueue
<1>1. FramingInv /\ [FramingNext]_framingVars => FramingInv'
    <2> SUFFICES ASSUME FramingInv, [FramingNext]_framingVars PROVE FramingInv'
        BY Zenon
    <2>1. CASE onFramePayload \/ UNCHANGED framingVars
        BY <2>1, TakenOff, Zenon DEF onFramePayload, framingVars
    <2>2. ASSUME NEW n \in 1 .. Len(stream), handleReadable(n) PROVE FramingInv'
        BY <2>2, HandleReadableStep
    <2> QED
        BY <2>1, <2>2, OnMessageStep, OnTcpMessageStep, OnWebSocketStep, Zenon DEF FramingNext
<1>2. FramingSpec => []FramingInv
    BY <1>1, FramingInitially, PTL DEF FramingSpec
<1> QED
    BY <1>2, FramingFromInv, PTL
=============================================================================
