---------------------------- MODULE TunnelMethods ----------------------------
(***************************************************************************)
(* The methods on top of TlsTunnel: EAP-TLS (eap_tls.rs), EAP-TTLS with    *)
(* PAP (eap_ttls.rs) and PEAP with MSCHAPv2 (peap.rs).  A call of step is  *)
(* the sequence of actions from Receive to one that returns an outcome;    *)
(* the numbers in the comments are those of the comments in the code.      *)
(*                                                                         *)
(* A byte of application data from the peer stands for what it carries:    *)
(* PeerAvps[b], a list of AVPs, or PeerPackets[b], an inner EAP packet     *)
(* with its form: full, or compressed to type and data.                    *)
(***************************************************************************)
EXTENDS Framing

(***************************************************************************)
(* TlsTunnel (tls_tunnel.rs): a TLS engine between the frames of an EAP    *)
(* conversation, as operators on the record t of a method:                 *)
(*                                                                         *)
(*   re    the Reassembler             tx    pending_tx and tx_offset      *)
(*   done  handshake_done              msg   the message the last frame    *)
(*   mtu   frame_mtu                         completed, or None            *)
(*   err   an error was returned: the step ends, the session is dropped    *)
(*   tls   the engine                                                      *)
(*                                                                         *)
(* The engine is external.  Its handshake is a fixed exchange of flights,  *)
(* flight k of the peer being PeerLen[k] bytes that all are k; what it     *)
(* writes are the bytes 1, 2, 3, ... of one stream, so that order and      *)
(* repetition can be seen.  A record of application data from the peer is  *)
(* one byte above AppBase.                                                 *)
(***************************************************************************)
CONSTANTS PeerLen,     \* lengths of the peer's handshake flights
          ServerLen,   \* version -> lengths of the server's handshake flights
          RecordLen,   \* length of a record of application data from the server
          AppBase      \* smallest byte that is application data

TunnelAssumption ==
    /\ PeerLen \in Seq(Nat \ {0})
    /\ \A v \in DOMAIN ServerLen : ServerLen[v] \in Seq(Nat) /\ Len(ServerLen[v]) = Len(PeerLen)
    /\ RecordLen \in Nat \ {0} /\ AppBase > Len(PeerLen)

-----------------------------------------------------------------------------
(* The TLS engine: radius_tokio::tls::TlsConnection. *)

NewTls(v) == [v |-> v, k |-> 0, in |-> <<>>, out |-> <<>>, written |-> 0]

Established(tls) == tls.k = Len(PeerLen)

Write(tls, n) ==
    [tls EXCEPT !.out = @ \o [i \in 1 .. n |-> tls.written + i], !.written = @ + n]

\* A wrong byte in a handshake is a fatal alert.
Fatal(tls) ==
    /\ ~Established(tls)
    /\ \E i \in 1 .. AtMost(Len(tls.in), PeerLen[tls.k + 1]) : tls.in[i] # tls.k + 1

\* process: a complete flight of the peer is answered with one of the server.
Process(tls) ==
    IF Established(tls) \/ Len(tls.in) < PeerLen[tls.k + 1] THEN tls
    ELSE Write([tls EXCEPT !.k = @ + 1, !.in = Drop(@, PeerLen[tls.k + 1])],
               ServerLen[tls.v][tls.k + 1])

-----------------------------------------------------------------------------
(* The tunnel. *)

NewTunnel(v, mtu) ==
    [tls |-> NewTls(v), re |-> NewReassembler, tx |-> [bytes |-> <<>>, offset |-> 0],
     mtu |-> mtu, done |-> FALSE, msg |-> None, err |-> FALSE]

Failed(t) == [t EXCEPT !.err = TRUE]

\* ingest_peer_frame
IngestPeerFrame(t, td) ==
    LET in == Ingest(t.re, td)
    IN [t EXCEPT !.re = in.r, !.msg = in.msg, !.err = in.err]

\* feed_tls and drive_handshake, of a message that was completed.
FeedAndDrive(t) ==
    IF t.err \/ t.msg = None THEN t
    ELSE LET fed == [t.tls EXCEPT !.in = @ \o t.msg]
         IN IF t.done THEN [t EXCEPT !.tls = fed]
            ELSE IF Fatal(fed) THEN Failed(t)
            ELSE [t EXCEPT !.tls = Process(fed), !.done = Established(Process(fed))]

\* drain_decrypted: what read returns, until it returns nothing; a byte that is
\* not application data does not decrypt.
Decrypted(t) == t.tls.in
Undecryptable(t) == \E i \in DOMAIN t.tls.in : t.tls.in[i] < AppBase
Drained(t) == IF Undecryptable(t) THEN Failed(t) ELSE [t EXCEPT !.tls.in = <<>>]

\* write_app_data, write_tls13_commitment
WriteAppData(t, n) == [t EXCEPT !.tls = Write(@, n)]

\* refill_pending_tx: the offset starts again, whatever was sent before.
RefillPendingTx(t) ==
    [t EXCEPT !.tx = [bytes |-> t.tx.bytes \o t.tls.out, offset |-> 0], !.tls.out = <<>>]

HasPendingTx(t) == HasPending(t.tx)

\* emit_next_outbound_fragment
Fragment(t) == EmitFrame(t.tx, t.mtu)
Emitted(t) == [t EXCEPT !.tx = AfterEmit(@, t.mtu)]

StartFrame == <<SBit>>
AckFrame   == <<0>>

-----------------------------------------------------------------------------
CONSTANTS Garbled, Secrets, IdCount,  \* as in PasswordMethods
          PeerAvps, PeerPackets

INSTANCE PasswordMethods

VARIABLES kind,  \* "TLS", "TTLS" or "PEAP"
          t,     \* the tunnel
          m,     \* the rest of the method's state
          pc,    \* "idle" between two calls of step, or the next stage of one
          out    \* the outcome of the last call

methodVars == <<kind, t, m, pc, out>>

NewMethod ==
    [st |-> "Handshaking",                                      \* EapTls::state
     rx |-> <<>>, term |-> None, authed |-> None,               \* EapTtls and Peap
     inner |-> NewInner, started |-> FALSE,                     \* Peap from here on
     peerId |-> 0, reqId |-> 0, awaiting |-> FALSE, tlvId |-> 0,
     last |-> None]                                             \* the last inner message written

\* A new method, after start.
MethodInit(k, v, mtu) ==
    /\ kind = k
    /\ t = NewTunnel(v, mtu)
    /\ m = NewMethod
    /\ pc = "idle"
    /\ out = Continue(StartFrame)

Return(o) == pc' = "idle" /\ out' = o
Proceed(stage) == pc' = stage /\ UNCHANGED out
Ship(u) == t' = Emitted(u) /\ Return(Continue(Fragment(u)))

-----------------------------------------------------------------------------
(* What the methods have in common. *)

AwaitsAck == kind = "TLS" /\ m.st \in {"AwaitingFragmentAck", "AwaitingFinalAck"}

\* 1: ingest_peer_frame.
Receive(td) ==
    /\ pc = "idle" /\ out.k = "continue" /\ ~AwaitsAck
    /\ LET u == IngestPeerFrame(t, td)
       IN IF u.err THEN Return(Error) /\ UNCHANGED t
          ELSE t' = u /\ Proceed("drive")
    /\ UNCHANGED <<kind, m>>

\* 1: feed_tls, drive_handshake, and the commitment of TLS 1.3, which EAP-TTLS
\* does without.  In EAP-TLS application data is an error (check_peer_records).
Drive ==
    /\ pc = "drive"
    /\ LET u == FeedAndDrive(t)
           justDone == u.done /\ ~t.done
       IN IF u.err \/ (kind = "TLS" /\ justDone /\ u.tls.in # <<>>)
          THEN Return(Error) /\ UNCHANGED t
          ELSE /\ t' = IF justDone /\ kind # "TTLS" /\ t.tls.v = "1.3"
                       THEN WriteAppData(u, RecordLen) ELSE u
               /\ Proceed(IF kind = "TLS" THEN "flush" ELSE "drain")
    /\ UNCHANGED <<kind, m>>

\* 2: drain_decrypted, once the handshake is done.
Drain ==
    /\ pc = "drain"
    /\ IF t.done /\ Undecryptable(t)
       THEN Return(Error) /\ UNCHANGED <<t, m>>
       ELSE /\ t' = IF t.done THEN Drained(t) ELSE t
            /\ m' = IF t.done THEN [m EXCEPT !.rx = @ \o Decrypted(t)] ELSE m
            /\ Proceed("flush")
    /\ UNCHANGED kind

\* Mutant of EapTlsState: a done handshake is awaited to be acknowledged before
\* its last fragment is out.
EapTlsStateEager(u) ==
    IF u.done THEN "AwaitingFinalAck"
    ELSE IF HasPendingTx(u) THEN "AwaitingFragmentAck" ELSE "Handshaking"

\* What EAP-TLS awaits after a fragment.
EapTlsState(u) ==
    IF HasPendingTx(u) THEN "AwaitingFragmentAck"
    ELSE IF u.done THEN "AwaitingFinalAck" ELSE "Handshaking"

\* 3: the engine's output is fetched, by EAP-TLS only after a message, and has
\* precedence over anything else.
Flush ==
    /\ pc = "flush"
    /\ LET u == IF kind = "TLS" /\ t.msg = None THEN t ELSE RefillPendingTx(t)
       IN IF HasPendingTx(u)
          THEN /\ Ship(u)
               /\ m' = IF kind = "TLS" THEN [m EXCEPT !.st = EapTlsState(Emitted(u))] ELSE m
          ELSE /\ t' = u
               /\ IF kind = "TLS" THEN Return(Continue(AckFrame)) ELSE Proceed("inner")
               /\ UNCHANGED m
    /\ UNCHANGED kind

-----------------------------------------------------------------------------
(* EAP-TLS *)

IsAck(f) == f.payload = <<>> /\ \A bit \in {LBit, MBit, SBit} : ~HasBit(f.flags, bit)

\* process_response in AwaitingFragmentAck and AwaitingFinalAck; any end is
\* final.
EapTlsAck(td) ==
    /\ pc = "idle" /\ out.k = "continue" /\ AwaitsAck
    /\ LET f == Parse(td)
           end == IF f = Malformed THEN Error
                  ELSE IF ~IsAck(f) THEN Failure
                  ELSE IF t.tls.in # <<>> THEN Error ELSE Success
       IN IF f # Malformed /\ IsAck(f) /\ m.st = "AwaitingFragmentAck"
          THEN Ship(t) /\ m' = [m EXCEPT !.st = EapTlsState(Emitted(t))]
          ELSE Return(end) /\ m' = [m EXCEPT !.st = "Finished"] /\ UNCHANGED t
    /\ UNCHANGED kind

-----------------------------------------------------------------------------
(* EAP-TTLS *)

\* 4: the AVPs that arrived are judged, once.
JudgeAvps ==
    /\ pc = "inner" /\ kind = "TTLS"
    /\ LET lists == [i \in DOMAIN m.rx |-> PeerAvps[m.rx[i]]]
           verdict == PapProcess(FlattenSeq(lists))
       IN IF ~t.done \/ m.term # None \/ m.rx = <<>> THEN Proceed("conclude") /\ UNCHANGED m
          ELSE IF \E i \in DOMAIN lists : lists[i] = Garbled THEN Return(Error) /\ UNCHANGED m
          ELSE /\ m' = [m EXCEPT !.rx = <<>>, !.term = verdict.out.k, !.authed = verdict.authed]
               /\ Proceed("conclude")
    /\ UNCHANGED <<kind, t>>

-----------------------------------------------------------------------------
(* PEAP *)

\* write_inner
WriteInner(n, msg) ==
    /\ t' = WriteAppData(t, RecordLen)
    /\ m' = [n EXCEPT !.reqId = msg.id, !.last = msg]

\* 4: the inner method starts, when the handshake's records are out.
StartInner ==
    /\ pc = "inner" /\ kind = "PEAP" /\ t.done /\ ~m.started
    /\ LET r == InnerStart(m.inner)
       IN WriteInner([m EXCEPT !.started = TRUE, !.inner = r.m], r.out.msg)
    /\ UNCHANGED <<kind, pc, out>>

\* try_extract_inner_packet: a full packet, or else everything there is as the
\* data of one response to the last request.
Packet ==
    LET p == PeerPackets[Head(m.rx)]
        full == p.form = "full"
    IN [code |-> IF full THEN p.code ELSE "Response",
        id |-> IF full /\ p.id = "other" THEN NextId(NextId(m.reqId)) ELSE m.reqId,
        typ |-> p.typ, op |-> p.op,
        body |-> IF ~full /\ p.typ = "Identity" /\ Len(m.rx) > 1 THEN Garbled ELSE p.body]
Unread == IF PeerPackets[Head(m.rx)].form = "full" THEN Tail(m.rx) ELSE <<>>

\* send_result_tlv
SendResultTlv(n, term) ==
    LET id == NextId(n.peerId)
    IN WriteInner([n EXCEPT !.term = term, !.tlvId = id, !.awaiting = TRUE],
                  [id |-> id, typ |-> "TLV", op |-> None, chal |-> None])

\* Mutant of ResultAcked: there is no such response.
ResultAckedNever(pkt) == FALSE

\* is_result_tlv_response
ResultAcked(pkt) == pkt.code = "Response" /\ pkt.id = m.tlvId /\ pkt.typ = "TLV"

\* 5: one inner packet.  While the result is to be acknowledged, and after the
\* end of the inner method, a packet ends the loop.
InnerPacket ==
    /\ pc = "inner" /\ kind = "PEAP" /\ (t.done => m.started) /\ m.rx # <<>>
    /\ LET n == [m EXCEPT !.rx = Unread, !.peerId = Packet.id]
           r == InnerStep(m.inner, Packet, 1)
           o == [n EXCEPT !.inner = r.m, !.authed = r.m.authed]
       IN \/ /\ m.awaiting
             /\ m' = [n EXCEPT !.awaiting = ~ResultAcked(Packet)]
             /\ Proceed("conclude") /\ UNCHANGED t
          \/ /\ ~m.awaiting /\ m.term # None
             /\ m' = n
             /\ Proceed("conclude") /\ UNCHANGED t
          \/ /\ ~m.awaiting /\ m.term = None /\ r.out.k = "error"
             /\ Return(Error) /\ UNCHANGED <<t, m>>
          \/ /\ ~m.awaiting /\ m.term = None /\ r.out.k # "error"
             /\ IF r.out.k = "continue" THEN WriteInner(o, r.out.msg) ELSE SendResultTlv(o, r.out.k)
             /\ UNCHANGED <<pc, out>>
    /\ UNCHANGED kind

InnerIdle ==
    /\ pc = "inner" /\ kind = "PEAP" /\ (t.done => m.started) /\ m.rx = <<>>
    /\ Proceed("conclude")
    /\ UNCHANGED <<kind, t, m>>

-----------------------------------------------------------------------------
\* 5 to 7 of EAP-TTLS, 6 to 8 of PEAP: ship what the inner method wrote, or
\* conclude, or acknowledge.
Conclude ==
    /\ pc = "conclude"
    /\ LET u == RefillPendingTx(t)
       IN IF HasPendingTx(u) THEN Ship(u)
          ELSE /\ t' = u
               /\ Return(IF m.term = None \/ m.awaiting THEN Continue(AckFrame)
                         ELSE IF m.term = "success" THEN Success ELSE Failure)
    /\ UNCHANGED <<kind, m>>

Stage == Drive \/ Drain \/ Flush \/ JudgeAvps \/ StartInner \/ InnerPacket \/ InnerIdle \/ Conclude

-----------------------------------------------------------------------------
(* A conversation with a peer, round by round.  The peer follows the       *)
(* protocol, with or without the right credentials, or answers with any    *)
(* type-data of a given set; in the tunnel it may send whatever it likes   *)
(* once its handshake is through.                                          *)
CONSTANTS Kinds, Mtus,   \* methods and values of frame_mtu
          Modes,         \* peers: "good" and "bad" follow the protocol, "free" does not
          PeerMtu,       \* the peer's frame size
          Free,          \* type-data of a free peer
          Answers,       \* good, bad -> method -> its credentials, or what it answers
                         \* to an inner request
          MaxRounds      \* bound on rounds with a free peer

\* with_frame_mtu asserts that a frame holds something.
ConversationAssumption ==
    /\ Kinds \subseteq {"TLS", "TTLS", "PEAP"} /\ Mtus \subseteq Nat \ {0}
    /\ None \notin {"success", "failure"}

VARIABLES peer,      \* the peer's state
          rounds,    \* rounds so far, counted for a free peer
          got,       \* history: bytes of the tunnel's stream received in order
          exact,     \* history: no byte was sent twice or out of order
          finished   \* history: length of the stream when the handshake was done

vars == <<methodVars, peer, rounds, got, exact, finished>>

Init ==
    /\ \E k \in Kinds, v \in DOMAIN ServerLen, mtu \in Mtus : MethodInit(k, v, mtu)
    /\ \E mode \in Modes :
        peer = [mode |-> mode, flights |-> 0, frag |-> NewFragmenter(<<>>, PeerMtu, 0),
                seen |-> 0, creds |-> FALSE]
    /\ rounds = 0 /\ got = 0 /\ exact = TRUE /\ finished = 0

-----------------------------------------------------------------------------
(* A peer that follows the protocol. *)

Sending == peer.frag.offset < Len(peer.frag.bytes)

\* A new message of the peer: its handshake, then what the method asks for.
\* A peer without credentials fails the client authentication of EAP-TLS.
Message ==
    LET k == peer.flights + 1
    IN CASE k <= Len(PeerLen) ->
                [i \in 1 .. PeerLen[k] |->
                    IF kind = "TLS" /\ k = Len(PeerLen) /\ peer.mode = "bad" THEN AppBase ELSE k]
         [] kind = "TTLS" /\ k > Len(PeerLen) /\ ~peer.creds -> <<Answers[peer.mode].TTLS>>
         [] kind = "PEAP" /\ k > Len(PeerLen) /\ m.last # None /\ t.tls.written > peer.seen ->
                <<Answers[peer.mode].PEAP[<<m.last.typ, m.last.op>>]>>
         [] OTHER -> <<>>

\* It acknowledges fragments, goes on with its own, and sends its next message
\* when one of the server's is complete.
Acknowledges == HasBit(Parse(out.msg).flags, MBit) \/ (~Sending /\ Message = <<>>)

PeerSends(td) == IF AwaitsAck THEN EapTlsAck(td) ELSE Receive(td)

Fragments(g) ==
    /\ PeerSends(NextFragment(g))
    /\ peer' = [peer EXCEPT !.frag = Advance(g),
                  !.flights = IF Sending \/ @ >= Len(PeerLen) THEN @ ELSE @ + 1,
                  !.creds = @ \/ (peer.flights >= Len(PeerLen) /\ kind = "TTLS"),
                  !.seen = t.tls.written]

Honest ==
    /\ pc = "idle" /\ out.k = "continue" /\ peer.mode # "free"
    /\ IF Acknowledges THEN PeerSends(AckFrame) /\ UNCHANGED peer
       ELSE Fragments(IF Sending THEN peer.frag ELSE NewFragmenter(Message, PeerMtu, 0))
    /\ UNCHANGED rounds

FreeRound ==
    /\ pc = "idle" /\ out.k = "continue" /\ peer.mode = "free" /\ rounds < MaxRounds
    /\ \E td \in Free : PeerSends(td)
    /\ rounds' = rounds + 1
    /\ UNCHANGED peer

Serve == Stage /\ UNCHANGED <<peer, rounds>>

\* The history follows the bytes that a call of step sends.
Observe ==
    LET payload == Parse(out'.msg).payload
        inOrder == payload = [i \in 1 .. Len(payload) |-> got + i]
    IN /\ IF pc' = "idle" /\ out'.k = "continue"
          THEN /\ exact' = (exact /\ inOrder)
               /\ got' = IF inOrder THEN got + Len(payload) ELSE got
          ELSE UNCHANGED <<exact, got>>
       /\ finished' = IF t'.done /\ ~t.done THEN t'.tls.written ELSE finished

Next == (Honest \/ FreeRound \/ Serve) /\ Observe

\* The server runs, and a peer that follows the protocol answers.
Protocol == (Honest \/ Serve) /\ Observe
Spec == Init /\ [][Next]_vars /\ WF_vars(Protocol)

-----------------------------------------------------------------------------
(* Properties. *)

\* The bytes of the TLS stream go out once and in order, over all the
\* fragments, acknowledgements and refills of a conversation
\* (refill_pending_tx, emit_next_outbound_fragment).
StreamExact == exact

\* A conversation succeeds only when the handshake is done, everything the
\* engine wrote has been sent, and the peer has proved who it is: in EAP-TLS
\* by its certificate, in the others by a password that the inner method has
\* verified and whose user is the identity exposed; in PEAP that is the user
\* of the inner method that succeeded (step of all three).
SuccessEarned ==
    out.k = "success" =>
        /\ t.done /\ ~HasPendingTx(t) /\ t.tls.out = <<>> /\ got = t.tls.written
        /\ peer.mode # "bad"
        /\ kind # "TLS" => m.term = "success" /\ SecretOf(m.authed) # None
        /\ kind = "PEAP" => m.inner.state = "AwaitingSuccessAck" /\ m.authed = m.inner.authed

\* "We MUST drain the handshake completion records before queueing the first
\* inner EAP-Request": no flight mixes bytes of the handshake with inner data
\* (peap.rs, step 3).
NotPiggybacked ==
    LET flight == (IF out.k = "continue" THEN Parse(out.msg).payload ELSE <<>>) \o t.tx.bytes
    IN t.done => \/ \A i \in DOMAIN flight : flight[i] <= finished
                 \/ \A i \in DOMAIN flight : flight[i] > finished

\* With a peer that follows the protocol every conversation ends, with success
\* if and only if its credentials are right (step of all three).
HonestEnds ==
    /\ peer.mode = "good" ~> out.k = "success"
    /\ peer.mode = "bad" ~> out.k \in {"failure", "error"}

=============================================================================
