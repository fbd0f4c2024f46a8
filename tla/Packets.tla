------------------------------- MODULE Packets -------------------------------
(***************************************************************************)
(* Building, sealing and verifying packets: PacketBuffer and TlvWriter     *)
(* (codec/mod.rs), Reply (encode.rs), Request (request.rs), Response       *)
(* (response.rs), the two authenticators and server validation.            *)
(*                                                                         *)
(* A packet is its header fields and the octets of its attributes.  What   *)
(* cryptography computes is a term: `opaque` says at which offset of the   *)
(* attribute octets (which are 0 there) which term lies.                   *)
(***************************************************************************)
EXTENDS Attributes

CONSTANTS MaxValue,     \* MAX_ATTRIBUTE_VALUE_LEN (253)
          Block,        \* octets of a cipher block (16)
          SaltLen,      \* octets of a salt (2)
          MaxHidden,    \* TUNNEL_PASSWORD_MAX_LEN, MS_MPPE_KEY_MAX_LEN (239)
          MaxPassword,  \* longest User-Password (128)
          MsVendor      \* Microsoft's enterprise number (311)

Blocks(n) == ((n + Block - 1) \div Block) * Block

PacketsAssumption ==
    /\ MaxValue + TlvHeader < Base
    /\ HeaderLen + MaTlvLen <= MaxPacket
    /\ PenLen + 2 + SaltLen + Blocks(1 + MaxHidden) <= MaxValue
    /\ Blocks(MaxPassword) <= MaxValue

\* Authenticator fields: zeros, random octets, or an MD5 term.
ZeroAuth == [random |-> 0]
RandomAuth(n) == [random |-> n]

NoTerms == [i \in {} |-> ZeroAuth]
Zeros(n) == [i \in 1 .. n |-> 0]

\* PacketBuffer::with_capacity and reset
EmptyBuffer(code, id) ==
    [code |-> code, id |-> id, length |-> HeaderLen, auth |-> ZeroAuth, attrs |-> <<>>, opaque |-> NoTerms]
PacketLen(b) == HeaderLen + Len(b.attrs)

Ok(b) == [buf |-> b, err |-> None]
Fail(b, e) == [buf |-> b, err |-> e]

\* An attribute is put after the others; terms lie at offsets of its value.
Append1(b, typ, val, terms) ==
    LET at == Len(b.attrs) + TlvHeader
        moved == [i \in {at + j : j \in DOMAIN terms} |-> terms[i - at]]
    IN [b EXCEPT !.attrs = @ \o <<typ, Len(val) + TlvHeader>> \o val,
                 !.opaque = [i \in DOMAIN @ \cup DOMAIN moved |-> IF i \in DOMAIN moved THEN moved[i] ELSE @[i]]]

\* PacketBuffer::add_attribute
AddTerms(b, typ, val, terms) ==
    IF Len(val) > MaxValue THEN Fail(b, "AttributeValueTooLong")
    ELSE IF PacketLen(b) + TlvHeader + Len(val) > MaxPacket THEN Fail(b, "PacketTooLarge")
    ELSE Ok(Append1(b, typ, val, terms))
AddAttribute(b, typ, val) == AddTerms(b, typ, val, NoTerms)

\* PacketBuffer::add_attribute_with, and add: the closure writes val.
AddAttributeWith(b, typ, val) ==
    IF PacketLen(b) + TlvHeader > MaxPacket THEN Fail(b, "PacketTooLarge")
    ELSE IF Len(val) > MaxValue THEN Fail(b, "AttributeValueTooLong")
    ELSE IF PacketLen(b) + TlvHeader + Len(val) > MaxPacket THEN Fail(b, "PacketTooLarge")
    ELSE Ok(Append1(b, typ, val, NoTerms))

AtMost(a, n) == IF a < n THEN a ELSE n
Envelope(pen, vtype, val) == ToBE(pen, PenLen) \o <<vtype, AtMost(Len(val) + 2, Base - 1)>> \o val
AddVsa(b, pen, vtype, val) == AddAttributeWith(b, VendorSpecific, Envelope(pen, vtype, val))

\* TlvWriter: children that a closure adds, and the error it returns.  A closure
\* that heeds errors ends at the first; one that does not goes on without the child.
WriteChild(w, kid, heed) ==
    IF w.err # None THEN w
    ELSE IF Len(kid.val) > MaxValue
         THEN [w EXCEPT !.err = IF heed THEN "AttributeValueTooLong" ELSE None]
    ELSE [w EXCEPT !.out = @ \o <<kid.sub, Len(kid.val) + TlvHeader>> \o kid.val]
Children(kids, heed) ==
    FoldLeft(LAMBDA w, k : WriteChild(w, k, heed), [out |-> <<>>, err |-> None], kids)


\* The end of add_tlv and add_vsa_tlv: a child's error undoes the attribute.
Nested(b, w, r) ==
    IF r.err # None THEN r ELSE IF w.err # None THEN Fail(b, w.err) ELSE r
AddTlv(b, parent, kids, heed) ==
    LET w == Children(kids, heed) IN Nested(b, w, AddAttributeWith(b, parent, w.out))
AddVsaTlv(b, pen, vtype, kids, heed) ==
    LET w == Children(kids, heed) IN Nested(b, w, AddVsa(b, pen, vtype, w.out))

\* The chunks(253) of an EAP packet.
Chunks(eap) ==
    [i \in 1 .. (Len(eap) + MaxValue - 1) \div MaxValue |->
        SubSeq(eap, (i - 1) * MaxValue + 1, AtMost(i * MaxValue, Len(eap)))]
AddChunk(r, chunk) == IF r.err # None THEN r ELSE AddAttribute(r.buf, EapMessage, chunk)

\* Reply::add_eap_message: chunks that were added before an error stay.
ReplyAddEap(b, eap) == FoldLeft(AddChunk, Ok(b), Chunks(eap))

\* Mutant of RequestAddEap: as Reply does it.
RequestAddEapKeeps(b, eap) == ReplyAddEap(b, eap)

\* Request::add_eap_message: an error rolls back all of them.
RequestAddEap(b, eap) ==
    LET r == FoldLeft(AddChunk, Ok(b), Chunks(eap))
    IN IF r.err # None THEN Fail(b, r.err) ELSE r

\* add_eap_success and add_eap_failure: a packet of a code, an identifier and
\* a length.
EapResult(success, id) == <<IF success THEN 3 ELSE 4, id, 0, 4>>

\* Request::check_attribute
Reserved(typ) == typ \in {UserPassword, MessageAuthenticator}
-----------------------------------------------------------------------------
(* Hidden values: User-Password, Tunnel-Password and the MPPE keys.        *)

Hides(plain, secret, auth, salt) ==
    [hides |-> plain, secret |-> secret, auth |-> auth, salt |-> salt]

\* unique_salt: salts that a Tunnel-Password or an MPPE key of the packet has.
UsedSalts(b) ==
    LET slots == Slots(b.attrs)
        Tunnel(s) == TypeOf(s) = TunnelPassword /\ Len(ValueOf(s)) >= 1 + SaltLen
        Mppe(s) == LET v == ValueOf(s)
                   IN /\ TypeOf(s) = VendorSpecific /\ Len(v) >= PenLen + 2 + SaltLen
                      /\ FromBE(Take(v, PenLen)) = MsVendor /\ v[PenLen + 1] \in {16, 17}
    IN {SubSeq(ValueOf(slots[i]), 2, 1 + SaltLen) : i \in {j \in DOMAIN slots : Tunnel(slots[j])}}
       \cup {SubSeq(ValueOf(slots[i]), PenLen + 3, PenLen + 2 + SaltLen) :
                i \in {j \in DOMAIN slots : Mppe(slots[j])}}

At1(i, term) == [j \in {i} |-> term]

\* Reply::add_tunnel_password, with the salt that unique_salt settles on.
AddTunnelPassword(b, tag, plain, auth, secret, salt) ==
    IF b.code # "ACCESS_ACCEPT" THEN Fail(b, "WrongPacketType")
    ELSE IF Len(plain) > MaxHidden THEN Fail(b, "AttributeValueTooLong")
    ELSE AddTerms(b, TunnelPassword, <<tag>> \o salt \o Zeros(Blocks(1 + Len(plain))),
                  At1(SaltLen + 2, Hides(plain, secret, auth, salt)))

\* Reply::write_mppe_key
WriteMppeKey(b, vtype, key, auth, secret, salt) ==
    IF Len(key) > MaxHidden THEN Fail(b, "AttributeValueTooLong")
    ELSE AddTerms(b, VendorSpecific,
                  Envelope(MsVendor, vtype, salt \o Zeros(Blocks(1 + Len(key)))),
                  At1(PenLen + 2 + SaltLen + 1, Hides(key, secret, auth, salt)))

\* Reply::add_mppe_keys: a Send-Key that was written stays when the Recv-Key fails.
AddMppeKeys(b, send, recv, auth, secret, salt1, salt2) ==
    IF b.code # "ACCESS_ACCEPT" THEN Fail(b, "WrongPacketType")
    ELSE LET r == WriteMppeKey(b, 16, send, auth, secret, salt1)
         IN IF r.err # None THEN r ELSE WriteMppeKey(r.buf, 17, recv, auth, secret, salt2)
-----------------------------------------------------------------------------
(* message_authenticator.rs and authenticator.rs *)

AppendSlot(b) == AddAttribute(b, MessageAuthenticator, Zeros(TagLen))
SlotOffset(b) == Len(b.attrs) + TlvHeader + 1

Outside(terms, at) == [i \in DOMAIN terms \ at |-> terms[i]]

\* compute: the header with the authenticator that stands in for the field, and
\* the attributes with every tag zeroed.
Hmac(p, substitute, secret) ==
    [hmac |-> secret, code |-> p.code, id |-> p.id, length |-> p.length, auth |-> substitute,
     attrs |-> HmacInput(p.attrs), opaque |-> Outside(p.opaque, TagOffsets(p.attrs))]

\* md5_with_substitute
Md5(p, substitute, secret) ==
    [md5 |-> secret, code |-> p.code, id |-> p.id, length |-> p.length, auth |-> substitute,
     attrs |-> p.attrs, opaque |-> p.opaque]

PatchTag(p, at, tag) == [p EXCEPT !.opaque = [i \in DOMAIN @ \cup {at} |-> IF i = at THEN tag ELSE @[i]]]
PatchLength(p) == [p EXCEPT !.length = PacketLen(p)]

\* message_authenticator::verify
VerifyTag(p, substitute, secret) ==
    LET v == VerifyOffset(p.attrs)
    IN IF v.verdict # "Present" THEN v.verdict
       ELSE IF v.at \in DOMAIN p.opaque /\ p.opaque[v.at] = Hmac(p, substitute, secret)
       THEN "Valid" ELSE "Invalid"

DigestRequests == {"ACCOUNTING_REQUEST", "COA_REQUEST", "DISCONNECT_REQUEST"}

\* Reply::seal_for
SealReply(b, at, reqAuth, secret) ==
    LET p == PatchLength(b)
        q == IF at = None THEN p ELSE PatchTag(p, at, Hmac(p, reqAuth, secret))
    IN [q EXCEPT !.auth = Md5(q, reqAuth, secret)]

\* Mutant of SealRequest: the password is hidden under an authenticator of its own.
SealRequestOwn(b, id, password, random, secret) ==
    LET named == [b EXCEPT !.id = id]
        auth == IF b.code \in DigestRequests THEN ZeroAuth ELSE random
        r == IF password = None THEN Ok(named)
             ELSE AddTerms(named, UserPassword, Zeros(Blocks(Max({1, Len(password)}))),
                           At1(1, Hides(password, secret, b.auth, <<>>)))
        p == PatchLength(r.buf)
        q == PatchTag(p, 3, Hmac(p, auth, secret))
    IN IF r.err # None THEN r
       ELSE Ok([q EXCEPT !.auth = IF b.code \in DigestRequests THEN Md5(q, ZeroAuth, secret) ELSE auth])

\* Request::seal: the tag lies at a fixed place, the first slot.
SealRequest(b, id, password, random, secret) ==
    LET named == [b EXCEPT !.id = id]
        auth == IF b.code \in DigestRequests THEN ZeroAuth ELSE random
        r == IF password = None THEN Ok(named)
             ELSE AddTerms(named, UserPassword, Zeros(Blocks(Max({1, Len(password)}))),
                           At1(1, Hides(password, secret, auth, <<>>)))
        p == PatchLength(r.buf)
        q == PatchTag(p, 3, Hmac(p, auth, secret))
    IN IF r.err # None THEN r
       ELSE Ok([q EXCEPT !.auth = IF b.code \in DigestRequests THEN Md5(q, ZeroAuth, secret) ELSE auth])

\* PacketBuffer::seal_as_zeroed_request
SealZeroed(b, secret) ==
    LET p == PatchLength(b) IN [p EXCEPT !.auth = Md5(p, ZeroAuth, secret)]

\* PacketBuffer::seal_as_random_authenticator_request
SealRandom(b, auth, secret) ==
    LET r == AppendSlot([b EXCEPT !.auth = auth])
        p == PatchLength(r.buf)
    IN IF r.err # None THEN r ELSE Ok(PatchTag(p, SlotOffset(b), Hmac(p, auth, secret)))

\* authenticator::verify_response and verify_zeroed_request
VerifyResponse(p, reqAuth, secret) == p.auth = Md5(p, reqAuth, secret)
VerifyZeroed(p, secret) == p.auth = Md5(p, ZeroAuth, secret)

\* pipeline::validate of the octets of one packet.
ServerAccepts(p, secret, strict) ==
    LET substitute == IF p.code \in DigestRequests THEN ZeroAuth ELSE p.auth
        v == VerifyTag(p, substitute, secret)
        required == \/ p.code = "STATUS_SERVER"
                    \/ p.code = "ACCESS_REQUEST" /\ (strict \/ ContainsRaw(p.attrs, EapMessage))
    IN /\ p.code \in DigestRequests => VerifyZeroed(p, secret)
       /\ v = "Valid" \/ (v = "Absent" /\ ~required)

\* response::matches_reply
MatchesReply(request, response) ==
    response \in CASE request = "ACCESS_REQUEST" -> {"ACCESS_ACCEPT", "ACCESS_REJECT", "ACCESS_CHALLENGE"}
                   [] request = "ACCOUNTING_REQUEST" -> {"ACCOUNTING_RESPONSE"}
                   [] request = "STATUS_SERVER" -> {"ACCESS_ACCEPT", "ACCOUNTING_RESPONSE"}
                   [] request = "COA_REQUEST" -> {"COA_ACK", "COA_NAK"}
                   [] request = "DISCONNECT_REQUEST" -> {"DISCONNECT_ACK", "DISCONNECT_NAK"}
                   [] OTHER -> {}

\* Response::verify
ClientAccepts(p, request, id, reqAuth, secret) ==
    LET v == VerifyTag(p, reqAuth, secret)
    IN /\ p.id = id /\ MatchesReply(request, p.code)
       /\ ResponseSlotsOk(p.attrs)
       /\ VerifyResponse(p, reqAuth, secret)
       /\ v = "Valid" \/ (v = "Absent" /\ request = "ACCOUNTING_REQUEST")
=============================================================================
