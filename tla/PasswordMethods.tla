--------------------------- MODULE PasswordMethods ---------------------------
(***************************************************************************)
(* The methods that prove the knowledge of a password: EAP-MSCHAPv2 inside *)
(* a tunnel (MsChapV2Server) and on its own (EapMsChapV2), EAP-MD5, and    *)
(* PAP inside EAP-TTLS (PapInner with parse_avps).                         *)
(*                                                                         *)
(* Each step is an operator from the method's state and what arrived to    *)
(* the new state and an outcome.  A digest is the record of what it is     *)
(* computed from, so that two are equal exactly if their inputs are.       *)
(***************************************************************************)
EXTENDS Integers, Sequences, SequencesExt

CONSTANTS
    None,      \* no value
    Garbled,   \* bytes that do not parse
    Secrets,   \* what the credential store knows: user -> secret, or None
    IdCount    \* values of an identifier (256 in the code)

PasswordAssumption == IdCount \in Nat \ {0}

OpChallenge == 1
OpResponse  == 2
OpSuccess   == 3
OpFailure   == 4

NextId(i) == (i + 1) % IdCount

\* Credentials::lookup
SecretOf(user) == IF user \in DOMAIN Secrets THEN Secrets[user] ELSE None

Continue(msg) == [k |-> "continue", msg |-> msg]
Success == [k |-> "success", msg |-> None]
Failure == [k |-> "failure", msg |-> None]
Error   == [k |-> "error", msg |-> None]

Result(m, out) == [m |-> m, out |-> out]

\* mschap::v2_nt_response
NtResponse(chal, peer, user, secret) ==
    [chal |-> chal, peer |-> peer, user |-> user, secret |-> secret]

\* The response proves the secret of the user over the challenge.
Proves(user, chal, body) ==
    /\ SecretOf(user) # None
    /\ body.nt = NtResponse(chal, body.peer, user, SecretOf(user))

-----------------------------------------------------------------------------
(* MsChapV2Server: a packet is [code, id, typ, op, body], an Identity's body  *)
(* being the name and a Response's [peer, nt].                                *)

NewInner == [state |-> "AwaitingIdentity", user |-> None, chal |-> None, id |-> 1, authed |-> None]

\* InnerEap::start: an Identity request.
InnerStart(m) ==
    Result([m EXCEPT !.id = NextId(@)], Continue([id |-> m.id, typ |-> "Identity", op |-> None, chal |-> None]))

\* build_challenge, build_success, build_failure
Mschap(m, op, chal) == Continue([id |-> m.id, typ |-> "MSCHAPv2", op |-> op, chal |-> chal])

\* The response to a challenge: a Success or a Failure message goes out.
InnerVerify(m, pkt) ==
    IF pkt.op # OpResponse \/ pkt.body = Garbled THEN Result(m, Error)
    ELSE IF Proves(m.user, m.chal, pkt.body)
    THEN Result([m EXCEPT !.state = "AwaitingSuccessAck", !.id = NextId(@), !.authed = m.user],
                Mschap(m, OpSuccess, None))
    ELSE Result([m EXCEPT !.state = "AwaitingFailureAck", !.id = NextId(@)],
                Mschap(m, OpFailure, None))

\* The acknowledgement of a Success or Failure message.
InnerAck(m, pkt) ==
    Result(m, IF m.state = "AwaitingFailureAck" THEN Failure
              ELSE IF pkt.op = None THEN Error
              ELSE IF pkt.op = OpSuccess THEN Success ELSE Failure)

\* InnerEap::step; fresh is the random challenge.
InnerStep(m, pkt, fresh) ==
    IF pkt = Garbled \/ pkt.code # "Response" THEN Result(m, Error)
    ELSE CASE m.state = "AwaitingIdentity" /\ pkt.typ = "Identity" ->
                Result([m EXCEPT !.state = "AwaitingChallengeResponse", !.user = pkt.body,
                                 !.chal = fresh, !.id = NextId(@)],
                       Mschap(m, OpChallenge, fresh))
           [] m.state = "AwaitingChallengeResponse" /\ pkt.typ = "MSCHAPv2" -> InnerVerify(m, pkt)
           [] m.state \in {"AwaitingSuccessAck", "AwaitingFailureAck"} /\ pkt.typ = "MSCHAPv2" ->
                InnerAck(m, pkt)
           [] OTHER -> Result(m, Error)

-----------------------------------------------------------------------------
(* EapMsChapV2 and EapMd5: the handler owns identity and identifiers. *)

NewNative(kind) == [kind |-> kind, state |-> "Init", user |-> None, chal |-> None, reqid |-> None]

\* notify_peer_identity: only the first identity sticks.
NotifyPeerIdentity(m, name) == IF m.user = None THEN [m EXCEPT !.user = name] ELSE m

\* EapMethod::start
NativeStart(m, fresh) ==
    IF m.state # "Init" THEN Result(m, Error)
    ELSE Result([m EXCEPT !.state = "AwaitingResponse", !.chal = fresh],
                Continue([op |-> OpChallenge, chal |-> fresh]))

\* notify_request_id, of interest to EAP-MD5.
NotifyRequestId(m, id) ==
    IF m.kind = "MD5" /\ m.state = "AwaitingResponse" THEN [m EXCEPT !.reqid = id] ELSE m

\* EapMsChapV2::step
NativeStep(m, pkt) ==
    CASE pkt.op = None \/ m.state = "Init" -> Result(m, Error)
      [] m.state = "AwaitingResponse" ->
            IF pkt.op # OpResponse \/ pkt.body = Garbled THEN Result(m, Error)
            ELSE IF Proves(m.user, m.chal, pkt.body)
            THEN Result([m EXCEPT !.state = "AwaitingSuccessAck"], Continue([op |-> OpSuccess, chal |-> None]))
            ELSE Result([m EXCEPT !.state = "AwaitingFailureAck"], Continue([op |-> OpFailure, chal |-> None]))
      [] m.state = "AwaitingSuccessAck" -> Result(m, IF pkt.op = OpSuccess THEN Success ELSE Failure)
      [] OTHER -> Result(m, Failure)

\* primitives::verify_response: MD5 over identifier, password and challenge.
Md5Response(id, secret, chal) == [id |-> id, secret |-> secret, chal |-> chal]

\* EapMd5::step
Md5Step(m, pkt) ==
    CASE m.state = "Init" \/ m.reqid = None \/ pkt.body = Garbled -> Result(m, Error)
      [] SecretOf(m.user) = None -> Result(m, Failure)
      [] OTHER -> Result(m, IF pkt.body = Md5Response(m.reqid, SecretOf(m.user), m.chal)
                            THEN Success ELSE Failure)

-----------------------------------------------------------------------------
(* PAP in EAP-TTLS.  An AVP is [code, vendor, mandatory, data].             *)

\* PapInner::process: exactly one User-Name and one User-Password, nothing else
\* that is mandatory, and a password that is right once its padding is gone.
\* text is the password without its trailing NULs.
PapProcess(avps) ==
    LET Of(code) == SelectSeq(avps, LAMBDA a : a.vendor = None /\ a.code = code)
        users == Of("User-Name")
        passes == Of("User-Password")
        foreign == {i \in DOMAIN avps : avps[i].mandatory /\
                        ~(avps[i].vendor = None /\ avps[i].code \in {"User-Name", "User-Password"})}
        ok == /\ foreign = {} /\ Len(users) = 1 /\ Len(passes) = 1
              /\ SecretOf(users[1].data) # None
              /\ SecretOf(users[1].data) = passes[1].data.text
    IN [authed |-> IF ok THEN users[1].data ELSE None, out |-> IF ok THEN Success ELSE Failure]
=============================================================================
