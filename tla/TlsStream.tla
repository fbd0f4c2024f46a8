------------------------------ MODULE TlsStream ------------------------------
(***************************************************************************)
(* One RadSec connection below its drivers: AsyncTls and FrameReader       *)
(* (transport/tls.rs) over a TlsConnection (crypto/tls.rs) and a socket.   *)
(* A driver selects between reading a frame and something to do; what it   *)
(* has to do drops the read at whichever await it is in.                   *)
(*                                                                         *)
(* The socket and the two memory BIOs hold items: a handshake message, an  *)
(* octet of application data, a key update or a close_notify.              *)
(***************************************************************************)
EXTENDS Integers, Sequences, SequencesExt, FiniteSets

CONSTANTS None, Hello, Notify, Rekey,  \* no value, and the items that are not octets
          FrameHead,            \* octets up to and with the length (4)
          MinFrame, MaxFrame,   \* MIN_PACKET_LEN, MAX_PACKET_LEN
          Idle,                 \* IDLE_TIMEOUT, in ticks
          Plans,                \* what peers may want to send
          Message,              \* what a driver writes
          MaxWrites,            \* how often it does
          Room                  \* items that fit the socket's send buffer

\* Octets are numbers, which is how the length of a frame is read; whatever else
\* the buffers hold is none of them.
Items == Nat \cup {Hello, Notify, Rekey}

\* How a peer ends its stream, how a connection ends, and what follows a flush.
PeerEndings == {"notify", "eof"}
Results == {"handshake timeout", "eof in handshake", "closed", "closed mid-frame", "invalid length",
            "idle timeout", "write timeout", "eof in write", "shut down"}
AfterFlush == {"hsrecv", "select", "read", "recv", "write", "wrecv"}

StreamAssumption ==
    /\ FrameHead \in Nat \ {0} /\ MinFrame \in Nat /\ MaxFrame \in Nat
    /\ FrameHead < MinFrame /\ MinFrame <= MaxFrame
    /\ Idle \in Nat /\ MaxWrites \in Nat /\ Room \in Nat
    /\ Plans \subseteq Seq(Nat \cup {Rekey}) /\ Message \in Seq(Nat)
    /\ Hello \notin Nat /\ Notify \notin Nat /\ Rekey \notin Nat
    /\ Hello # Notify /\ Hello # Rekey /\ Notify # Rekey
    /\ None \notin PeerEndings \cup Results \cup AfterFlush

VARIABLES role,      \* "server" or "client"
          plan,      \* octets and key updates the peer sends
          peer,      \* [sent, end]: octets sent, and how it ended its stream
          sockIn, sockOut, peerGot,
          rbio, wbio,           \* the connection's memory BIOs
          established,          \* handshake_done
          flushed, eof,         \* AsyncTls
          frame,                \* FrameReader: [buf, target]
          age,                  \* ticks since deadline was set
          pc, then,             \* what the driver does, and what after a flush
          out,                  \* octets that write_all has left
          writes,
          delivered, result,    \* frames given to the driver, and how it ended
          produced,             \* ghost: all that was put in wbio
          quiet                 \* ghost: ticks since an octet was read

peerVars == <<role, plan, peer, sockIn, peerGot>>
tlsVars == <<rbio, wbio, established, produced>>
vars == <<peerVars, sockOut, tlsVars, flushed, eof, frame, age, pc, then, out, writes, delivered, result, quiet>>

IsData(i) == i \notin {Hello, Notify, Rekey}
Data(items) == FlattenSeq([i \in DOMAIN items |-> IF IsData(items[i]) THEN <<items[i]>> ELSE <<>>])
Take(s, n) == SubSeq(s, 1, n)
From(s, i) == SubSeq(s, i, Len(s))

Ended == pc \in {"closing", "dead"}
EmptyFrame == [buf |-> <<>>, target |-> FrameHead]

Init == /\ role \in {"server", "client"} /\ plan \in Plans
        /\ peer = [sent |-> 0, end |-> None]
        /\ sockIn = <<Hello>> /\ sockOut = <<>> /\ peerGot = <<>>
        /\ rbio = <<>> /\ wbio = <<>> /\ established = FALSE /\ produced = <<>>
        /\ flushed = 0 /\ eof = FALSE
        /\ frame = EmptyFrame /\ age = 0 /\ quiet = 0
        /\ pc = "process" /\ then = None /\ out = <<>> /\ writes = 0
        /\ delivered = <<>> /\ result = None
-----------------------------------------------------------------------------
(* The peer and time *)

PeerSends ==
    /\ peer.end = None /\ peer.sent < Len(plan)
    /\ sockIn' = Append(sockIn, plan[peer.sent + 1])
    /\ peer' = [peer EXCEPT !.sent = @ + 1]
    /\ UNCHANGED <<role, plan, peerGot, sockOut, tlsVars, flushed, eof, frame, age, pc, then, out, writes, delivered, result, quiet>>

PeerEnds == \E how \in PeerEndings :
    /\ peer.end = None
    /\ peer' = [peer EXCEPT !.end = how]
    /\ sockIn' = IF how = "notify" THEN Append(sockIn, Notify) ELSE sockIn
    /\ UNCHANGED <<role, plan, peerGot, sockOut, tlsVars, flushed, eof, frame, age, pc, then, out, writes, delivered, result, quiet>>

PeerTakes ==
    /\ sockOut # <<>>
    /\ peerGot' = Append(peerGot, Head(sockOut)) /\ sockOut' = Tail(sockOut)
    /\ UNCHANGED <<role, plan, peer, sockIn, tlsVars, flushed, eof, frame, age, pc, then, out, writes, delivered, result, quiet>>

Tick == /\ age < Idle /\ ~Ended
        /\ age' = age + 1 /\ quiet' = quiet + 1
        /\ UNCHANGED <<peerVars, sockOut, tlsVars, flushed, eof, frame, pc, then, out, writes, delivered, result>>
-----------------------------------------------------------------------------
(* AsyncTls *)

\* The driver returns; an established connection is shut down.
Dies(why) == pc' = (IF established THEN "closing" ELSE "dead") /\ result' = why

\* flush_tls_output goes on where an earlier, dropped flush stopped.
FlushFrom == flushed

\* One socket write of a flush, or the end of it.
Flush ==
    /\ pc = "flush"
    /\ \/ /\ FlushFrom < Len(wbio)
          /\ \E n \in 1 .. (Room - Len(sockOut)) :
                /\ FlushFrom + n <= Len(wbio)
                /\ sockOut' = sockOut \o SubSeq(wbio, FlushFrom + 1, FlushFrom + n)
                /\ flushed' = FlushFrom + n
          /\ UNCHANGED <<wbio, pc, then>>
       \/ /\ FlushFrom >= Len(wbio)
          /\ wbio' = <<>> /\ flushed' = 0
          /\ pc' = then /\ then' = None
          /\ UNCHANGED sockOut
    /\ UNCHANGED <<peerVars, rbio, established, produced, eof, frame, age, out, writes, delivered, result, quiet>>

\* receive: what the socket has, or the end of the stream.
Readable == sockIn # <<>> \/ peer.end # None
Receive(next, atEof) ==
    \/ /\ sockIn # <<>>
       /\ \E n \in {1, Len(sockIn)} :
             /\ rbio' = rbio \o Take(sockIn, n)
             /\ sockIn' = From(sockIn, n + 1)
       /\ pc' = next /\ UNCHANGED <<eof, result>>
    \/ /\ sockIn = <<>> /\ peer.end # None
       /\ eof' = TRUE
       /\ \/ atEof = None /\ pc' = next /\ UNCHANGED result
          \/ atEof # None /\ Dies(atEof)
       /\ UNCHANGED <<rbio, sockIn>>

\* handshake_with_timeout: process, flush, and receive until it is established.
Process ==
    /\ pc = "process"
    /\ IF rbio # <<>> /\ Head(rbio) = Hello
       THEN /\ established' = TRUE /\ rbio' = Tail(rbio)
            /\ wbio' = Append(wbio, Hello) /\ produced' = Append(produced, Hello)
            /\ then' = "select"
       ELSE then' = "hsrecv" /\ UNCHANGED tlsVars
    /\ pc' = "flush"
    /\ UNCHANGED <<peerVars, sockOut, flushed, eof, frame, age, out, writes, delivered, result, quiet>>
HandshakeReceive ==
    /\ pc = "hsrecv"
    /\ Receive("process", "eof in handshake")
    /\ UNCHANGED <<role, plan, peer, peerGot, sockOut, wbio, established, produced, flushed, frame, age, then, out, writes, delivered, quiet>>
HandshakeTimeout ==
    /\ ~established /\ ~Ended /\ Dies("handshake timeout")
    /\ UNCHANGED <<peerVars, sockOut, tlsVars, flushed, eof, frame, age, then, out, writes, delivered, quiet>>
-----------------------------------------------------------------------------
(* FrameReader::read and the read_some it calls *)

BeginRead ==
    /\ pc = "select" /\ pc' = "flush" /\ then' = "read"
    /\ UNCHANGED <<peerVars, sockOut, tlsVars, flushed, eof, frame, age, out, writes, delivered, result, quiet>>

\* The octets that TlsConnection::read can give: a run of data.
Plain == LET stops == {i \in DOMAIN rbio : ~IsData(rbio[i])}
         IN IF stops = {} THEN rbio ELSE Take(rbio, (CHOOSE i \in stops : \A j \in stops : i <= j) - 1)
Closed == eof \/ (rbio # <<>> /\ Head(rbio) = Notify)

\* TlsConnection::read meets a key update that asks for another: the answer is
\* put with the output.
ReadRekey ==
    /\ pc = "read" /\ rbio # <<>> /\ Head(rbio) = Rekey
    /\ rbio' = Tail(rbio)
    /\ wbio' = Append(wbio, Rekey) /\ produced' = Append(produced, Rekey)
    /\ UNCHANGED <<peerVars, sockOut, established, flushed, eof, frame, age, pc, then, out, writes, delivered, result, quiet>>

\* The server's request_key_update, before it selects.
RequestKeyUpdate ==
    /\ pc = "select" /\ role = "server" /\ writes < MaxWrites
    /\ writes' = writes + 1
    /\ wbio' = Append(wbio, Rekey) /\ produced' = Append(produced, Rekey)
    /\ UNCHANGED <<peerVars, sockOut, rbio, established, flushed, eof, frame, age, pc, then, out, delivered, result, quiet>>

GoodLength(n) == n \in MinFrame .. MaxFrame

\* The reader after it has the octets b of its frame.
Extended(b) ==
    IF Len(b) < frame.target THEN [do |-> "flush", frame |-> [frame EXCEPT !.buf = b]]
    ELSE IF frame.target = FrameHead /\ GoodLength(b[FrameHead])
    THEN [do |-> "flush", frame |-> [buf |-> b, target |-> b[FrameHead]]]
    ELSE IF frame.target = FrameHead THEN [do |-> "closing", frame |-> [buf |-> b, target |-> b[FrameHead]]]
    ELSE [do |-> "deliver", frame |-> EmptyFrame]

ReadPlain ==
    /\ pc = "read" /\ Plain # <<>>
    /\ \E n \in 1 .. Len(Plain) :
          /\ Len(frame.buf) + n <= frame.target
          /\ LET b == frame.buf \o Take(Plain, n)
                 x == Extended(b)
             IN /\ rbio' = From(rbio, n + 1)
                /\ frame' = x.frame
                /\ pc' = x.do
                /\ then' = IF x.do = "flush" THEN "read" ELSE None
                /\ delivered' = IF x.do = "deliver" THEN Append(delivered, b) ELSE delivered
                /\ result' = IF x.do = "closing" THEN "invalid length" ELSE None
    /\ age' = 0 /\ quiet' = 0
    /\ UNCHANGED <<peerVars, sockOut, wbio, established, produced, flushed, eof, out, writes>>

\* The connection has no plaintext, and no key update that is still to be read.
Starved == Plain = <<>> /\ (rbio # <<>> => Head(rbio) # Rekey)

\* The peer closed: between frames that is the end, within one an error.
ReadClosed ==
    /\ pc = "read" /\ Starved /\ Closed
    /\ Dies(IF frame.buf = <<>> THEN "closed" ELSE "closed mid-frame")
    /\ UNCHANGED <<peerVars, sockOut, tlsVars, flushed, eof, frame, age, then, out, writes, delivered, quiet>>

ReadMore ==
    /\ pc = "read" /\ Starved /\ ~Closed
    /\ pc' = "flush" /\ then' = "recv"
    /\ UNCHANGED <<peerVars, sockOut, tlsVars, flushed, eof, frame, age, out, writes, delivered, result, quiet>>

\* receive, then read_some's loop again, which begins with a flush.
ReadReceive ==
    /\ pc = "recv" /\ Receive("flush", None) /\ then' = "read"
    /\ UNCHANGED <<role, plan, peer, peerGot, sockOut, wbio, established, produced, flushed, frame, age, out, writes, delivered, quiet>>

\* A read, or a write of the client, is at an await.
InFlush(next) == pc = "flush" /\ then = next
Reading == pc = "recv" \/ InFlush("read") \/ InFlush("recv")
Writing == pc = "wrecv" \/ InFlush("write")
Blocked == \/ pc \in {"recv", "wrecv"} /\ ~Readable
           \/ pc = "flush" /\ FlushFrom < Len(wbio) /\ Len(sockOut) = Room

\* Mutant of IdleTimeout: only the wait for input has a deadline.
IdleTimeoutReceive ==
    /\ pc = "recv" /\ Blocked /\ age = Idle /\ Dies("idle timeout")
    /\ UNCHANGED <<peerVars, sockOut, tlsVars, flushed, eof, frame, age, then, out, writes, delivered, quiet>>

IdleTimeout ==
    /\ Reading /\ Blocked /\ age = Idle /\ Dies("idle timeout")
    /\ UNCHANGED <<peerVars, sockOut, tlsVars, flushed, eof, frame, age, then, out, writes, delivered, quiet>>

\* Mutant of Dropped: the partial frame goes with the future.
DroppedWhole == EmptyFrame

\* What is left of the frame when the read is dropped.
Dropped == frame

\* write_all, which begins with a flush: a reply to the frame just read, or a
\* command of the client's, for which the select drops the read.
MayWrite == pc = "deliver" \/ (role = "client" /\ Reading)
BeginWrite ==
    /\ MayWrite /\ writes < MaxWrites
    /\ writes' = writes + 1 /\ out' = Message
    /\ frame' = Dropped
    /\ pc' = "flush" /\ then' = "write"
    /\ UNCHANGED <<peerVars, sockOut, tlsVars, flushed, eof, age, delivered, result, quiet>>

\* The frame gets no reply.
NoReply ==
    /\ pc = "deliver" /\ pc' = "select"
    /\ UNCHANGED <<peerVars, sockOut, tlsVars, flushed, eof, frame, age, then, out, writes, delivered, result, quiet>>

\* TlsConnection::write takes some of the octets, or none while it waits for
\* the peer.
Write ==
    /\ pc = "write"
    /\ \/ out = <<>> /\ pc' = "select" /\ UNCHANGED <<wbio, produced, out, then>>
       \/ \E n \in 1 .. Len(out) :
             /\ wbio' = wbio \o Take(out, n) /\ produced' = produced \o Take(out, n)
             /\ out' = From(out, n + 1)
             /\ pc' = "flush" /\ then' = "write"
       \/ out # <<>> /\ pc' = "flush" /\ then' = "wrecv" /\ UNCHANGED <<wbio, produced, out>>
    /\ UNCHANGED <<peerVars, sockOut, rbio, established, flushed, eof, frame, age, writes, delivered, result, quiet>>
WriteReceive ==
    /\ pc = "wrecv" /\ Receive("write", "eof in write")
    /\ UNCHANGED <<role, plan, peer, peerGot, sockOut, wbio, established, produced, flushed, frame, age, then, out, writes, delivered, quiet>>

\* A client's write has a deadline; it ends the connection.
WriteTimeout ==
    /\ role = "client" /\ Writing /\ Blocked /\ Dies("write timeout")
    /\ UNCHANGED <<peerVars, sockOut, tlsVars, flushed, eof, frame, age, then, out, writes, delivered, quiet>>

\* The application closes the client, or the server revokes the connection.
Close ==
    /\ Reading /\ Dies("shut down")
    /\ UNCHANGED <<peerVars, sockOut, tlsVars, flushed, eof, frame, age, then, out, writes, delivered, quiet>>

\* shutdown_clean: a close_notify, flushed for at most a second.
ShutdownClean ==
    /\ pc = "closing" /\ pc' = "dead"
    /\ \E n \in 0 .. Room - Len(sockOut) :
          LET all == Append(wbio, Notify)
          IN /\ FlushFrom + n <= Len(all)
             /\ sockOut' = sockOut \o SubSeq(all, FlushFrom + 1, FlushFrom + n)
             /\ wbio' = all /\ flushed' = FlushFrom + n
    /\ produced' = Append(produced, Notify)
    /\ UNCHANGED <<peerVars, rbio, established, eof, frame, age, then, out, writes, delivered, result, quiet>>

Driver == \/ ReadRekey \/ Flush \/ Process \/ HandshakeReceive \/ BeginRead \/ ReadPlain \/ ReadClosed \/ ReadMore
          \/ ReadReceive \/ NoReply \/ IdleTimeout \/ Write \/ WriteReceive \/ WriteTimeout \/ ShutdownClean
Next == \/ Driver \/ HandshakeTimeout \/ BeginWrite \/ RequestKeyUpdate \/ Close
        \/ PeerSends \/ PeerEnds \/ PeerTakes \/ Tick
Spec == Init /\ [][Next]_vars
\* A task that can move is polled, a deadline that passed fires.
FairSpec == Spec /\ WF_vars(Driver) /\ WF_vars(Tick)
-----------------------------------------------------------------------------
TypeOK ==
    /\ role \in {"server", "client"} /\ plan \in Plans
    /\ peer \in [sent : 0 .. Len(plan), end : PeerEndings \cup {None}]
    /\ sockIn \in Seq(Items) /\ sockOut \in Seq(Items) /\ peerGot \in Seq(Items)
    /\ rbio \in Seq(Items) /\ wbio \in Seq(Items) /\ produced \in Seq(Items)
    /\ established \in BOOLEAN /\ eof \in BOOLEAN
    /\ flushed \in 0 .. Len(wbio) /\ Len(sockOut) <= Room
    /\ frame \in [buf : Seq(Nat), target : Nat]
    /\ ~Ended => Len(frame.buf) < frame.target /\ frame.target \in {FrameHead} \cup MinFrame .. MaxFrame
    /\ age \in 0 .. Idle /\ quiet \in Nat
    /\ pc \in {"process", "hsrecv", "select", "flush", "read", "recv", "deliver", "write", "wrecv",
               "closing", "dead"}
    /\ then \in AfterFlush \cup {None}
    /\ out \in Seq(Nat) /\ writes \in 0 .. MaxWrites
    /\ delivered \in Seq(Seq(Nat)) /\ result \in Results \cup {None}

\* No octet of the peer is lost, repeated or moved however often reads are
\* dropped for writes: the frames that were delivered, the partial frame, what
\* the TLS connection holds and what is in the socket are what the peer sent, in
\* order.
NothingLost ==
    FlattenSeq(delivered) \o frame.buf \o Data(rbio) \o Data(sockIn) = Data(Take(plan, peer.sent))

\* Every frame that is delivered has the length that it says it has, within the
\* limits of a RADIUS packet.
FramesWhole ==
    \A i \in DOMAIN delivered :
        /\ Len(delivered[i]) \in MinFrame .. MaxFrame
        /\ delivered[i][FrameHead] = Len(delivered[i])

\* What the peer receives is what the connection produced, in order and once,
\* although a flush may be dropped after part of it was written and more is
\* produced before the next.
OutputExact ==
    peerGot \o sockOut \o From(wbio, flushed + 1) = produced

\* The socket is waited for only when the connection has nothing that could be
\* read: a frame that came with the end of the handshake, with another frame or
\* during a write is not left lying until the peer sends more.
NoStarvation == pc = "recv" => Data(rbio) = <<>> /\ ~Closed

\* The stream ends as closed only between two frames, after all that was sent.
ClosedClean ==
    result = "closed" =>
        /\ FlattenSeq(delivered) = Data(Take(plan, peer.sent))
        /\ peer.end # None

\* Idle time is the time since the last octet, whatever was written in between.
IdleExact == ~Ended => age = quiet

\* However often reads are dropped for writes and flushes in their middle: no
\* octet of either direction is lost, repeated or moved, every frame has the
\* length that it says it has, the socket is waited for only when nothing is
\* left that could be read, the stream ends as closed only between two frames,
\* and idle time is the time since the last octet.
StreamIntact ==
    /\ TypeOK
    /\ NothingLost /\ OutputExact
    /\ FramesWhole
    /\ NoStarvation
    /\ ClosedClean
    /\ IdleExact

\* What the peer has sent, down to its last octet, is taken out of the socket and
\* of the TLS connection by the driver of a client, or the connection ends: none
\* of it lies there for ever.  (Once the peer has sent all, that is so for good,
\* and so is having taken it: then "again and again" is "in the end".)
AllSent == peer.sent = Len(plan)
Served == []<>(role = "client" /\ AllSent => Ended \/ Data(rbio \o sockIn) = <<>>)
=============================================================================
