------------------------------- MODULE Framing -------------------------------
(***************************************************************************)
(* The TLS-EAP framing of EAP-TLS, PEAP and EAP-TTLS (framing.rs): the     *)
(* frame format, the Fragmenter that cuts a TLS message into frames, the   *)
(* Reassembler that puts one together again, and the sending half of       *)
(* TlsTunnel (tls_tunnel.rs), which cuts on its own.                       *)
(*                                                                         *)
(* Type-data is a sequence of bytes: the flags, a four-byte length if the  *)
(* L bit is set, and the payload, whose elements nothing looks at.         *)
(***************************************************************************)
EXTENDS Integers, Sequences, SequencesExt

CONSTANTS None,      \* no value
          MaxTotal   \* Reassembler::max_total_length (64 KiB by default)

FramingAssumption == MaxTotal \in Nat

LBit == 128
MBit == 64
SBit == 32
HasBit(flags, bit) == (flags \div bit) % 2 = 1
SetBit(flags, bit) == IF HasBit(flags, bit) THEN flags ELSE flags + bit
ClearBit(flags, bit) == IF HasBit(flags, bit) THEN flags - bit ELSE flags

\* u32, big endian.
ToBE32(n) == <<(n \div 16777216) % 256, (n \div 65536) % 256, (n \div 256) % 256, n % 256>>
FromBE32(b) == ((b[1] * 256 + b[2]) * 256 + b[3]) * 256 + b[4]

Drop(s, n) == SubSeq(s, n + 1, Len(s))

Malformed == [flags |-> None, total |-> None, payload |-> <<>>]

\* Frame::parse
Parse(td) ==
    IF td = <<>> THEN Malformed
    ELSE LET flags == td[1]
             rest == Tail(td)
         IN IF ~HasBit(flags, LBit) THEN [flags |-> flags, total |-> None, payload |-> rest]
            ELSE IF Len(rest) < 4 THEN Malformed
            ELSE [flags |-> flags, total |-> FromBE32(rest), payload |-> Drop(rest, 4)]

\* framing::encode: the L bit follows the presence of a length.
Encode(flags, total, payload) ==
    <<IF total = None THEN ClearBit(flags, LBit) ELSE SetBit(flags, LBit)>>
        \o (IF total = None THEN <<>> ELSE ToBE32(total)) \o payload

-----------------------------------------------------------------------------
(* Reassembler *)

NewReassembler == [buf |-> <<>>, expected |-> None, single |-> FALSE]

IsComplete(r) ==
    IF r.expected # None THEN Len(r.buf) = r.expected ELSE r.buf # <<>> /\ r.single

\* Mutant of Overflows: fragments are not held against the declared length.
OverflowsDeclaredOnly(r, total, f) ==
    IF total # None THEN total > MaxTotal ELSE Len(f.payload) > MaxTotal

\* The length checks of push; total is the length declared for the message.
Overflows(r, total, f) ==
    IF total # None
    THEN total > MaxTotal \/ Len(r.buf) + Len(f.payload) > total
    ELSE Len(f.payload) > MaxTotal

\* Reassembler::push of a frame that it accepts, and the frames it refuses.
Refuses(r, f) ==
    LET already == r.expected # None \/ r.buf # <<>>
        lbit == HasBit(f.flags, LBit)
    IN \/ lbit /\ already
       \/ ~lbit /\ HasBit(f.flags, MBit) /\ ~already
       \/ Overflows(r, IF lbit THEN f.total ELSE r.expected, f)

Push(r, f) ==
    LET expected == IF HasBit(f.flags, LBit) THEN f.total ELSE r.expected
    IN [buf |-> r.buf \o f.payload, expected |-> expected,
        single |-> r.single \/ (expected = None /\ ~HasBit(f.flags, MBit))]

\* TlsTunnel::ingest_peer_frame: the reassembler after a peer's type-data, the
\* message it completes, and whether it is refused.
Ingest(r, td) ==
    LET f == Parse(td)
        q == Push(r, f)
    IN IF td = <<>> THEN [r |-> r, msg |-> None, err |-> FALSE]
       ELSE IF f = Malformed \/ Refuses(r, f) THEN [r |-> r, msg |-> None, err |-> TRUE]
       ELSE IF IsComplete(q) THEN [r |-> NewReassembler, msg |-> q.buf, err |-> FALSE]
       ELSE [r |-> q, msg |-> None, err |-> FALSE]

-----------------------------------------------------------------------------
(* Fragmenter *)

NewFragmenter(bytes, mtu, extra) ==
    [bytes |-> bytes, offset |-> 0, mtu |-> mtu, extra |-> extra, emitted |-> FALSE]

Exhausted(g) == g.offset >= Len(g.bytes) /\ g.emitted

AtMost(a, b) == IF a < b THEN a ELSE b

\* Fragmenter::next, encoded.
NextFragment(g) ==
    LET take == AtMost(Len(g.bytes) - g.offset, g.mtu)
        more == g.offset + take < Len(g.bytes)
        first == IF g.emitted THEN 0 ELSE g.extra
        total == IF ~g.emitted /\ Len(g.bytes) > g.mtu THEN Len(g.bytes) ELSE None
    IN Encode(IF more THEN SetBit(first, MBit) ELSE first, total,
              SubSeq(g.bytes, g.offset + 1, g.offset + take))

Advance(g) ==
    [g EXCEPT !.offset = @ + AtMost(Len(g.bytes) - g.offset, g.mtu), !.emitted = TRUE]

-----------------------------------------------------------------------------
(* The sending half of TlsTunnel: pending_tx and tx_offset. *)

\* emit_next_outbound_fragment: the frame it returns, and what it leaves.
EmitFrame(tx, mtu) ==
    LET take == AtMost(Len(tx.bytes) - tx.offset, mtu)
        total == IF tx.offset = 0 /\ Len(tx.bytes) > mtu THEN Len(tx.bytes) ELSE None
    IN Encode(IF tx.offset + take < Len(tx.bytes) THEN MBit ELSE 0, total,
              SubSeq(tx.bytes, tx.offset + 1, tx.offset + take))

\* Mutant of AfterEmit: the offset is set, not advanced.
AfterEmitSets(tx, mtu) ==
    LET take == AtMost(Len(tx.bytes) - tx.offset, mtu)
    IN IF tx.offset + take < Len(tx.bytes)
       THEN [tx EXCEPT !.offset = take]
       ELSE [bytes |-> <<>>, offset |-> 0]

AfterEmit(tx, mtu) ==
    LET take == AtMost(Len(tx.bytes) - tx.offset, mtu)
    IN IF tx.offset + take < Len(tx.bytes)
       THEN [tx EXCEPT !.offset = @ + take]
       ELSE [bytes |-> <<>>, offset |-> 0]

HasPending(tx) == tx.offset < Len(tx.bytes)
=============================================================================
