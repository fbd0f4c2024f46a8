----------------------------- MODULE MCOverTls -----------------------------
(* Instances for TLC of what speaks TLS: the RADIUS/TLS client, with three *)
(* calls, and EAP framing and methods. A behaviour is one of them; the     *)
(* client is then in its initial state, and the others are idle.           *)
EXTENDS RadsecClient, TLC

CONSTANTS Garbled, Parts

VARIABLES part,  \* the part that this behaviour is about
          mtu, frag, tx, rx, ended, frames, honest, sent, delivered, since,
          conv, drawn, computed,
          kind, t, m, at, out, peer, rounds, got, exact, finished

Frame == INSTANCE Framing WITH MaxTotal <- 5
Secrets == "alice" :> "right"
Password == INSTANCE PasswordMethods WITH IdCount <- 4

\* Rogue frames with every combination of L and M.
Payloads == {<<>>, <<7>>, <<7, 8, 9>>, <<7, 8, 9, 7, 8, 9>>}
Rogue == {<<>>, <<128, 0, 0>>} \cup
         {Frame!Encode(flags, total, p) : flags \in {0, 64, 32}, total \in {None, 0, 1, 3, 6}, p \in Payloads}

\* TLS 1.2 ends with a flight of the server, TLS 1.3 with one of the peer.
PeerLen == <<2, 1>>
OneFrame == [v \in {"1.2", "1.3"} |-> IF v = "1.2" THEN <<2, 1>> ELSE <<2, 0>>]
SomeFrames == [v \in {"1.2", "1.3"} |-> IF v = "1.2" THEN <<3, 2>> ELSE <<4, 0>>]

Avp(code, data) == [code |-> code, vendor |-> None, mandatory |-> TRUE, data |-> data]
Pass(text) == Avp("User-Password", [text |-> text])
PeerAvps ==
    (10 :> <<Avp("User-Name", "alice"), Pass("right")>>) @@
    (11 :> <<Avp("User-Name", "alice"), Pass("wrong")>>) @@
    (12 :> <<Avp("User-Name", "bob")>>) @@ (13 :> <<Pass("right")>>) @@
    (14 :> Garbled) @@ (15 :> <<Avp("EAP-Message", "alice")>>) @@ (16 :> <<>>)

Pkt(form, id, typ, op, body) ==
    [form |-> form, code |-> "Response", id |-> id, typ |-> typ, op |-> op, body |-> body]
Nt(secret) == [peer |-> 0, nt |-> Password!NtResponse(1, 0, "alice", secret)]
PeerPackets ==
    (10 :> Pkt("short", "same", "Identity", None, "alice")) @@
    (11 :> Pkt("short", "same", "MSCHAPv2", 2, Nt("right"))) @@
    (12 :> Pkt("short", "same", "MSCHAPv2", 2, Nt("wrong"))) @@
    (13 :> Pkt("full", "same", "MSCHAPv2", 3, None)) @@
    (14 :> Pkt("full", "other", "TLV", None, None)) @@
    (15 :> Pkt("full", "same", "TLV", None, None)) @@
    (16 :> Pkt("short", "same", "MSCHAPv2", 4, None))

Replies(response) ==
    (<<"Identity", None>> :> 10) @@ (<<"MSCHAPv2", 1>> :> response) @@
    (<<"MSCHAPv2", 3>> :> 13) @@ (<<"MSCHAPv2", 4>> :> 16) @@ (<<"TLV", None>> :> 15)
Answers == [good |-> [TTLS |-> 10, PEAP |-> Replies(11)], bad |-> [TTLS |-> 11, PEAP |-> Replies(12)]]

Free ==
    {<<>>, <<0>>, <<0, 1, 1>>, <<0, 2>>, <<192, 0, 0, 0, 2, 1>>, <<0, 1>>, <<64, 1>>}
    \cup {<<0, b>> : b \in 10 .. 16} \cup {<<0, 2, 10>>, <<0, 12, 13>>, <<0, 10, 11>>}

\* Messages of up to four bytes in frames of one to four, with a limit of
\* five.
Pipe == INSTANCE FramePipe WITH
    MaxTotal <- 5, Messages <- {<<>>, <<1>>, <<1, 2>>, <<1, 2, 3>>, <<1, 2, 3, 4>>},
    Mtus <- 1 .. 4, Rogue <- Rogue, MaxFrames <- 3, got <- delivered
ASSUME Pipe!FramingAssumption /\ Pipe!FramePipeAssumption

\* Two conversations, a known and an unknown user, a right and a wrong
\* password.
Rounds == INSTANCE PasswordRounds WITH
    IdCount <- 3, Convs <- {1, 2}, Users <- {"alice", "bob"},
    Passwords <- {"right", "wrong"}, MaxDrawn <- 3
ASSUME Rounds!PasswordAssumption /\ Rounds!RoundsAssumption

\* EAP-TTLS and PEAP, whose flights fit a frame.
Inner == INSTANCE TunnelMethods WITH
    MaxTotal <- 4, PeerLen <- PeerLen, ServerLen <- OneFrame, RecordLen <- 2, AppBase <- 10,
    IdCount <- 4, PeerAvps <- PeerAvps, PeerPackets <- PeerPackets,
    Kinds <- {"TTLS", "PEAP"}, Mtus <- {10}, PeerMtu <- 1, Free <- Free,
    Modes <- {"good", "bad", "free"}, Answers <- Answers, MaxRounds <- 8, pc <- at
ASSUME Inner!FramingAssumption /\ Inner!TunnelAssumption /\ Inner!ConversationAssumption

\* EAP-TLS with flights of several fragments in both directions.
Outer == INSTANCE TunnelMethods WITH
    MaxTotal <- 4, PeerLen <- PeerLen, ServerLen <- SomeFrames, RecordLen <- 2,
    AppBase <- 10, IdCount <- 4, PeerAvps <- PeerAvps, PeerPackets <- PeerPackets,
    Kinds <- {"TLS"}, Mtus <- 1 .. 3, PeerMtu <- 1, Free <- Free,
    Modes <- {"good", "bad", "free"}, Answers <- Answers, MaxRounds <- 9, pc <- at
ASSUME Outer!TunnelAssumption /\ Outer!ConversationAssumption

\* EAP-TTLS and PEAP with flights of several fragments.
Refill == INSTANCE TunnelMethods WITH
    MaxTotal <- 4, PeerLen <- PeerLen, ServerLen <- SomeFrames, RecordLen <- 2,
    AppBase <- 10, IdCount <- 4, PeerAvps <- PeerAvps, PeerPackets <- PeerPackets,
    Kinds <- {"TTLS", "PEAP"}, Mtus <- {2}, PeerMtu <- 1, Free <- Free, Modes <- {"good"},
    Answers <- Answers, MaxRounds <- 6, pc <- at
ASSUME Refill!TunnelAssumption /\ Refill!ConversationAssumption

framesVars == <<mtu, frag, tx, rx, ended, frames, honest, sent, delivered, since>>
framesIdle == /\ mtu = None /\ frag = None /\ tx = None /\ rx = None /\ ended = None
              /\ frames = None /\ honest = None /\ sent = None /\ delivered = None
              /\ since = None
passwordsVars == <<conv, drawn, computed>>
passwordsIdle == /\ conv = None /\ drawn = None /\ computed = None
tunnelVars == <<kind, t, m, at, out, peer, rounds, got, exact, finished>>
tunnelIdle == /\ kind = None /\ t = None /\ m = None /\ at = None /\ out = [k |-> None]
              /\ peer = [mode |-> None] /\ rounds = None /\ got = None /\ exact = None
              /\ finished = None
-----------------------------------------------------------------------------
MCInit ==
    /\ part \in Parts /\ Init
    /\ IF part = "frames" THEN Pipe!Init ELSE framesIdle
    /\ IF part = "passwords" THEN Rounds!Init ELSE passwordsIdle
    /\ IF part = "inner" THEN Inner!Init
       ELSE IF part = "tls" THEN Outer!Init
       ELSE IF part = "refill" THEN Refill!Init ELSE tunnelIdle

ClientOthers == UNCHANGED <<part, framesVars, passwordsVars, tunnelVars>>
ClientNext == part = "radsec" /\ Next /\ ClientOthers
PipeOthers == UNCHANGED <<part, vars, passwordsVars, tunnelVars>>
PipeNext == part = "frames" /\ Pipe!Next /\ PipeOthers
RoundsOthers == UNCHANGED <<part, vars, framesVars, tunnelVars>>
RoundsNext == part = "passwords" /\ Rounds!Next /\ RoundsOthers
TunnelOthers == UNCHANGED <<part, vars, framesVars, passwordsVars>>
InnerNext == part = "inner" /\ Inner!Next /\ TunnelOthers
OuterNext == part = "tls" /\ Outer!Next /\ TunnelOthers
RefillNext == part = "refill" /\ Refill!Next /\ TunnelOthers

MCNext == ClientNext \/ PipeNext \/ RoundsNext \/ InnerNext \/ OuterNext

allVars == <<part, vars, framesVars, passwordsVars, tunnelVars>>

RefillSpec == MCInit /\ [][RefillNext]_allVars

\* A peer that follows the protocol answers, and the server serves it.
MCSpec == /\ MCInit /\ [][MCNext]_allVars
          /\ WF_allVars(part = "inner" /\ Inner!Protocol /\ TunnelOthers)
          /\ WF_allVars(part = "tls" /\ Outer!Protocol /\ TunnelOthers)

-----------------------------------------------------------------------------
\* Without rogue frames every message is delivered whole, once and in order,
\* and the tunnel cuts it exactly as the Fragmenter does; whatever the peer
\* sends, the receiver never holds more than the limit and nothing of an
\* earlier message leaks into a later one.
FramesExact ==
    part = "frames" => /\ Pipe!RoundTrip
                       /\ Pipe!TunnelCutsAlike
                       /\ Pipe!BufferBounded
                       /\ Pipe!NothingLeaks

\* The bytes of the TLS stream go out once and in order: in the messages of
\* EAP-TLS, and in the ones of EAP-TTLS and PEAP that fit a frame (see
\* tunnel.rs refill_pending_tx for those that do not).
StreamExact ==
    /\ part = "tls" => Outer!StreamExact
    /\ part = "inner" => Inner!StreamExact
    /\ part = "refill" => Refill!StreamExact

\* A conversation succeeds only when the handshake is done, all of it sent
\* and not mixed with inner data, and the peer has answered this
\* conversation's own last challenge with the secret of the user whose
\* identity it exposes, at the first try; MSCHAPv2 announces the verdict
\* before it.
OnlyEarnedSuccess ==
    /\ part = "passwords" => /\ Rounds!AcceptsFreshProof
                             /\ Rounds!AnnouncedFirst
                             /\ Rounds!OneTry
    /\ part = "inner" => Inner!SuccessEarned /\ Inner!NotPiggybacked
    /\ part = "tls" => Outer!SuccessEarned

\* With a peer that follows the protocol every conversation ends, with
\* success if and only if its credentials are right (EAP-TLS too, which has
\* the same variables).
HonestEnds == Inner!HonestEnds
=============================================================================
