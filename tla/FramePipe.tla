------------------------------ MODULE FramePipe ------------------------------
(***************************************************************************)
(* One direction of a TLS-EAP conversation: messages are cut by the        *)
(* Fragmenter, and beside it by the tunnel, and put together by the        *)
(* tunnel's Reassembler.  A peer that does not follow the protocol may     *)
(* send any type-data in between.  The first refused frame is the end: the *)
(* method fails and its session is dropped.                                *)
(***************************************************************************)
EXTENDS Framing

CONSTANTS Messages,   \* TLS messages to send
          Mtus,       \* values of frame_mtu
          Rogue,      \* type-data of a peer that does not follow the protocol
          MaxFrames   \* bound on frames

VARIABLES mtu,        \* frame_mtu
          frag,       \* the Fragmenter of the message being sent, or None
          tx,         \* pending_tx and tx_offset of a tunnel sending the same
          rx,         \* the receiver's Reassembler
          ended,      \* a frame was refused
          frames,     \* number of frames so far
          honest,     \* history: no rogue frame so far
          sent,       \* history: the messages sent completely, but for empty ones
          got,        \* history: the messages delivered
          since       \* history: the payloads since the last delivery

vars == <<mtu, frag, tx, rx, ended, frames, honest, sent, got, since>>

\* A length that fits the Length field, messages that the receiver is willing
\* to take, and a frame_mtu that is not zero.
FramePipeAssumption ==
    /\ MaxTotal \in Nat /\ MaxTotal \div 65536 < 65536
    /\ Messages \subseteq Seq(0 .. 255) /\ \A m \in Messages : Len(m) <= MaxTotal
    /\ Mtus \subseteq Nat \ {0} /\ Rogue \subseteq Seq(0 .. 255)
    /\ None \notin Nat \cup Seq(0 .. 255)
    /\ None \notin [bytes : Messages, offset : Nat, mtu : Mtus, extra : {0}, emitted : BOOLEAN]

NoTx == [bytes |-> <<>>, offset |-> 0]

Init ==
    /\ mtu \in Mtus
    /\ frag = None /\ tx = NoTx
    /\ rx = NewReassembler
    /\ ended = FALSE /\ frames = 0 /\ honest = TRUE
    /\ sent = <<>> /\ got = <<>> /\ since = <<>>

\* framing::fragmenter, and a tunnel whose output is the same message.
Begin(m) ==
    /\ frag = None /\ ~ended /\ frames < MaxFrames
    /\ frag' = NewFragmenter(m, mtu, 0)
    /\ tx' = [bytes |-> m, offset |-> 0]
    /\ UNCHANGED <<mtu, rx, ended, frames, honest, sent, got, since>>

Receive(td) ==
    LET in == Ingest(rx, td)
    IN /\ rx' = in.r
       /\ ended' = in.err
       /\ got' = IF in.msg = None THEN got ELSE Append(got, in.msg)
       /\ since' = IF in.err THEN since
                   ELSE IF in.msg # None THEN <<>> ELSE since \o Parse(td).payload

\* The next fragment goes out and arrives.
SendFragment ==
    /\ frag # None /\ ~ended
    /\ Receive(NextFragment(frag))
    /\ LET rest == Advance(frag)
       IN IF Exhausted(rest)
          THEN /\ frag' = None /\ tx' = NoTx
               /\ sent' = IF frag.bytes = <<>> THEN sent ELSE Append(sent, frag.bytes)
          ELSE frag' = rest /\ tx' = AfterEmit(tx, mtu) /\ UNCHANGED sent
    /\ frames' = frames + 1
    /\ UNCHANGED <<mtu, honest>>

SendRogue(td) ==
    /\ ~ended /\ frames < MaxFrames
    /\ Receive(td)
    /\ honest' = FALSE
    /\ frames' = frames + 1
    /\ UNCHANGED <<mtu, frag, tx, sent>>

Next ==
    \/ \E m \in Messages : Begin(m)
    \/ SendFragment
    \/ \E td \in Rogue : SendRogue(td)

Spec == Init /\ [][Next]_vars

-----------------------------------------------------------------------------
\* Without rogue frames nothing is refused, and every message that was sent
\* is delivered, whole, once and in order, whatever its length is in frames;
\* an empty one is never complete (Fragmenter::next, Reassembler::push).
RoundTrip == honest => ~ended /\ got = sent

\* The tunnel cuts a message exactly as the Fragmenter does
\* (emit_next_outbound_fragment, Fragmenter::next).
TunnelCutsAlike ==
    frag # None => EmitFrame(tx, mtu) = NextFragment(frag)

\* Whatever the peer sends, with and without L and M, the receiver never holds
\* more than the limit: the checks against the declared length and the one
\* against the limit leave no gap as long as a complete message is taken at
\* once, which ingest_peer_frame does (push).
BufferBounded ==
    /\ Len(rx.buf) <= MaxTotal
    /\ rx.expected # None => Len(rx.buf) < rx.expected \/ rx.buf = <<>>
    /\ rx.expected = None => rx.buf = <<>>

\* What is held back for a later delivery is what arrived since the last one:
\* nothing of an earlier message leaks into a later one (take, reset).
NothingLeaks == rx.buf = since
=============================================================================
