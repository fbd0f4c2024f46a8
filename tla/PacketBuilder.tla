---------------------------- MODULE PacketBuilder ----------------------------
(***************************************************************************)
(* One packet from its builder to its receiver.  A handler, an application *)
(* or the CoA originator adds attributes through Reply, Request or         *)
(* PacketBuffer in any order, some of which do not fit; the packet is      *)
(* sealed, somebody may alter it on the way, and the other side verifies   *)
(* it.                                                                     *)
(***************************************************************************)
EXTENDS Packets

CONSTANTS Starts,     \* [kind, code]: "reply", "request", "coa" or "raw" (PacketBuffer)
          RawTypes, RawValues,    \* add_attribute and add
          VsaValues,              \* payloads of add_vsa
          KidLists,               \* what closures of add_tlv add
          EapPackets,             \* what add_eap_message is given
          Hidden,                 \* plaintexts of Tunnel-Password and MPPE keys
          Passwords,              \* plaintexts of User-Password
          Salts,                  \* what generate_salt may return
          MaxOps                  \* operations before the packet is sealed

VARIABLES kind,      \* which builder
          buf,       \* its PacketBuffer
          ma,        \* Reply::ma_value_offset (or the place of the slot)
          password,  \* Request::password
          asked,     \* ghost: the attributes that were added, as they were given
          eap,       \* ghost: the EAP packets that were given, and whether they went in
          emptied,   \* ghost: how much of asked and eap there was at the opt-out
          last,      \* ghost: the last operation and its error
          ops,       \* operations so far
          phase,     \* "build", "sealed", "refused" (sealing failed) or "altered"
          wire       \* the packet on its way

vars == <<kind, buf, ma, password, asked, eap, emptied, last, ops, phase, wire>>

Vendor == 9
VendorType == 1
TlvParent == 40
PeerId == 7                     \* the identifier of the exchange
ReqAuth == RandomAuth(1)        \* the authenticator of the request a reply answers
Secret == "secret"

\* Reply::with_capacity and from_buffer, Request::new, CoaOriginator::send_request
\* reserve the first slot for the tag; PacketBuffer::new does not.
Init == \E s \in Starts :
          LET b == EmptyBuffer(s.code, IF s.kind = "reply" THEN PeerId ELSE 0)
          IN /\ kind = s.kind
             /\ buf = IF s.kind = "raw" THEN b ELSE AppendSlot(b).buf
             /\ ma = IF s.kind = "raw" THEN None ELSE SlotOffset(b)
             /\ password = None /\ asked = <<>> /\ eap = <<>>
             /\ emptied = [asked |-> 0, eap |-> 0]
             /\ last = [op |-> "new", err |-> None] /\ ops = 0
             /\ phase = "build" /\ wire = None

CanAdd == phase = "build" /\ ops < MaxOps

\* An operation ended with r; what, read back in its own way, is what it promised.
Did(op, r, how, what) ==
    /\ buf' = r.buf
    /\ last' = [op |-> op, err |-> r.err]
    /\ asked' = IF r.err = None THEN Append(asked, [how |-> how, what |-> what]) ELSE asked
    /\ ops' = ops + 1
    /\ UNCHANGED <<kind, ma, password, eap, emptied, phase, wire>>

Checked(typ, r) ==
    IF kind = "request" /\ Reserved(typ) THEN Fail(buf, "ReservedAttribute") ELSE r

AddRaw == \E typ \in RawTypes, val \in RawValues :
    CanAdd /\ Did("add_attribute", Checked(typ, AddAttribute(buf, typ, val)), "value", <<typ>> \o val)

AddTyped == \E typ \in RawTypes, val \in RawValues :
    CanAdd /\ Did("add", Checked(typ, AddAttributeWith(buf, typ, val)), "value", <<typ>> \o val)

AddVsaOp == \E val \in VsaValues :
    CanAdd /\ Did("add_vsa", AddVsa(buf, Vendor, VendorType, val), "vsa", val)

\* The children that fit a sub-attribute, framed.
Framed(kids) ==
    LET fit == SelectSeq(kids, LAMBDA k : Len(k.val) <= MaxValue)
    IN [i \in DOMAIN fit |-> <<fit[i].sub, Len(fit[i].val) + TlvHeader>> \o fit[i].val]

AddTlvOp == \E kids \in KidLists, heed \in BOOLEAN :
    CanAdd /\ Did("add_tlv", Checked(TlvParent, AddTlv(buf, TlvParent, kids, heed)), "tlv", Framed(kids))

AddVsaTlvOp == \E kids \in KidLists, heed \in BOOLEAN :
    /\ CanAdd /\ kind # "request"
    /\ Did("add_vsa_tlv", AddVsaTlv(buf, Vendor, VendorType, kids, heed), "vsatlv", Framed(kids))

AddStateOp == \E val \in RawValues :
    /\ CanAdd /\ kind \in {"reply", "request"}
    /\ Did("add_state", AddAttribute(buf, State, val), "value", <<State>> \o val)

AddEapOp == \E e \in EapPackets \cup {EapResult(TRUE, PeerId), EapResult(FALSE, PeerId)} :
    /\ CanAdd /\ kind \in {"reply", "request"}
    /\ \E r \in {IF kind = "reply" THEN ReplyAddEap(buf, e) ELSE RequestAddEap(buf, e)} :
          /\ buf' = r.buf
          /\ last' = [op |-> "add_eap_message", err |-> r.err]
          /\ eap' = Append(eap, [octets |-> e, whole |-> r.err = None])
          /\ ops' = ops + 1
          /\ UNCHANGED <<kind, ma, password, asked, emptied, phase, wire>>

FreeSalts == Salts \ UsedSalts(buf)

AddTunnelOp == \E plain \in Hidden, salt \in FreeSalts :
    /\ CanAdd /\ kind = "reply"
    /\ Did("add_tunnel_password", AddTunnelPassword(buf, 0, plain, ReqAuth, Secret, salt), "hidden", plain)

\* The second salt is drawn after the first key is in the packet.
AddMppeOp == \E send, recv \in Hidden, salt1 \in FreeSalts :
    /\ CanAdd /\ kind = "reply"
    /\ \E salt2 \in Salts \ UsedSalts(WriteMppeKey(buf, 16, send, ReqAuth, Secret, salt1).buf) :
          Did("add_mppe_keys", AddMppeKeys(buf, send, recv, ReqAuth, Secret, salt1, salt2), "hidden", send \o recv)

\* Reply::without_message_authenticator empties the attribute region, whatever
\* is in it besides the placeholder.
OptOut ==
    /\ CanAdd /\ kind = "reply" /\ ma # None
    /\ buf' = [buf EXCEPT !.attrs = <<>>, !.opaque = NoTerms]
    /\ ma' = None
    /\ emptied' = [asked |-> Len(asked), eap |-> Len(eap)]
    /\ last' = [op |-> "without_message_authenticator", err |-> None]
    /\ ops' = ops + 1
    /\ UNCHANGED <<kind, password, asked, eap, phase, wire>>

\* Request::user_password
SetPassword == \E plain \in Passwords :
    /\ CanAdd /\ kind = "request"
    /\ \E e \in {IF buf.code # "ACCESS_REQUEST" THEN "WrongPacketType"
                 ELSE IF Len(plain) > MaxPassword THEN "PasswordTooLong" ELSE None} :
          /\ password' = IF e = None THEN plain ELSE password
          /\ last' = [op |-> "user_password", err |-> e]
    /\ ops' = ops + 1
    /\ UNCHANGED <<kind, buf, ma, asked, eap, emptied, phase, wire>>

Sealed == CASE kind = "reply" -> Ok(SealReply(buf, ma, ReqAuth, Secret))
            [] kind \in {"request", "coa"} -> SealRequest(buf, PeerId, password, RandomAuth(2), Secret)
            [] buf.code \in DigestRequests -> Ok(SealZeroed(buf, Secret))
            [] OTHER -> SealRandom(buf, RandomAuth(2), Secret)

Seal == /\ phase = "build"
        /\ \E r \in {Sealed} :
              /\ wire' = IF r.err = None THEN r.buf ELSE None
              /\ phase' = IF r.err = None THEN "sealed" ELSE "refused"
              /\ last' = [op |-> "seal", err |-> r.err]
        /\ UNCHANGED <<kind, buf, ma, password, asked, eap, emptied, ops>>

\* Somebody without the secret alters one thing.
Alterations(p) ==
    {[p EXCEPT !.id = 8], [p EXCEPT !.auth = RandomAuth(3)]}
    \cup {[p EXCEPT !.code = c] : c \in {"ACCESS_ACCEPT", "ACCESS_REJECT", "ACCOUNTING_REQUEST", "ACCESS_REQUEST"}}
    \cup {[p EXCEPT !.attrs[i] = o] : i \in DOMAIN p.attrs \ DOMAIN p.opaque, o \in {0, 2, 80}}
    \cup {[p EXCEPT !.opaque = Outside(@, {i})] : i \in DOMAIN p.opaque}
    \cup {PatchLength(Append1(p, MessageAuthenticator, Zeros(TagLen), NoTerms))}
    \cup {LET n == Len(p.attrs) - MaTlvLen
          IN PatchLength([p EXCEPT !.attrs = Take(@, n), !.opaque = Outside(@, n + 1 .. n + MaTlvLen)])
             : x \in {y \in {1} : Len(p.attrs) >= MaTlvLen}}

Alter == /\ phase = "sealed"
         /\ \E p \in Alterations(wire) : p # wire /\ wire' = p
         /\ phase' = "altered"
         /\ UNCHANGED <<kind, buf, ma, password, asked, eap, emptied, last, ops>>

Next == \/ AddRaw \/ AddTyped \/ AddVsaOp \/ AddTlvOp \/ AddVsaTlvOp \/ AddStateOp \/ AddEapOp
        \/ AddTunnelOp \/ AddMppeOp \/ OptOut \/ SetPassword \/ Seal \/ Alter
Spec == Init /\ [][Next]_vars
-----------------------------------------------------------------------------
TypeOK == /\ kind \in {"reply", "request", "coa", "raw"}
          /\ PacketLen(buf) <= MaxPacket
          /\ \A i \in DOMAIN buf.attrs : buf.attrs[i] \in Octet
          /\ ops \in 0 .. MaxOps

slots == Slots(buf.attrs)
placeholder == IF ma = None THEN 0 ELSE 1
isHidden(s) == TypeOf(s) = TunnelPassword
               \/ (TypeOf(s) = VendorSpecific /\ FromBE(SubSeq(s, 3, PenLen + 2)) = MsVendor)
\* The slots that asked is about: neither the tag, nor EAP, nor hidden values.
plain == SelectSeq(From(slots, placeholder + 1), LAMBDA s : TypeOf(s) # EapMessage /\ ~isHidden(s))
ShownOf(A) == SelectSeq(A, LAMBDA a : a.how # "hidden")
ReadAs(how, s) ==
    CASE how = "value" -> <<TypeOf(s)>> \o ValueOf(s)
      [] how = "vsa" -> VsaData(s, Vendor, VendorType)
      [] how = "tlv" -> Slots(ValueOf(s))
      [] how = "vsatlv" -> Slots(VsaData(s, Vendor, VendorType))

\* What a call of add_eap_message may have put in the packet: all of it, or,
\* when it failed, whole attributes of the front.
LeftOf(e) == IF e.whole THEN {e.octets}
             ELSE {<<>>} \cup {Take(e.octets, k * MaxValue) : k \in 0 .. (Len(e.octets) - 1) \div MaxValue}
LeftOfAll(E) == FoldLeft(LAMBDA acc, e : {a \o x : a \in acc, x \in LeftOf(e)}, {<<>>}, E)

\* The packet has the attributes A and the EAP packets E, in their order.
Holds(A, E) ==
    /\ Len(plain) = Len(ShownOf(A))
    /\ \A i \in DOMAIN plain : ReadAs(ShownOf(A)[i].how, plain[i]) = ShownOf(A)[i].what
    /\ Reassemble(buf.attrs) \in LeftOfAll(E)

shown == ShownOf(From(asked, emptied.asked + 1))

\* What was added since the packet was empty is what the receiver's iterator and
\* accessors find, in order: every attribute has the value it was given, every
\* vendor attribute its payload, every TLV its children, EAP-Message attributes
\* give the packets back, and of an EAP packet that did not fit there is nothing
\* but whole attributes of its front.
ReadsBack ==
    /\ WalkError(buf.attrs) = None
    /\ Holds(From(asked, emptied.asked + 1), From(eap, emptied.eap + 1))

\* As documented for without_message_authenticator (codec/encode.rs), which
\* discards "the reserved placeholder": what was added before the call is still
\* in the packet after it.
OptOutKeepsAttributes == Holds(asked, eap)

\* A step property.  An operation that fails leaves the buffer as it was, as PacketBuffer and
\* Request promise; one of Reply's that adds several attributes may leave some of
\* them, whole and behind what was there: EAP-Message, or the first of two keys.
FailureLeavesNothing ==
    (last'.err # None /\ phase' = "build" /\ ops' # ops) =>
        LET grown == Slots(From(buf'.attrs, Len(buf.attrs) + 1))
        IN \/ buf' = buf
           \/ /\ kind = "reply"
              /\ IsPrefix(buf.attrs, buf'.attrs) /\ WalkError(buf'.attrs) = None
              /\ \A i \in DOMAIN buf.opaque : buf'.opaque[i] = buf.opaque[i]
              /\ \/ last'.op = "add_eap_message" /\ \A i \in DOMAIN grown : TypeOf(grown[i]) = EapMessage
                 \/ last'.op = "add_mppe_keys" /\ Len(grown) = 1 /\ isHidden(grown[1])

\* The caller put a Message-Authenticator of his own next to the builder's.
OwnTag == \E i \in DOMAIN shown : shown[i].how = "value" /\ Head(shown[i].what) = MessageAuthenticator

Answers(code) == IF code = "ACCOUNTING_RESPONSE" THEN "ACCOUNTING_REQUEST" ELSE "ACCESS_REQUEST"
\* validate checks no digest of other codes; the role filter drops those.
ServedCodes == DigestRequests \cup {"ACCESS_REQUEST", "STATUS_SERVER"}
Accepted(p) ==
    IF kind = "reply" THEN ClientAccepts(p, Answers(buf.code), PeerId, ReqAuth, Secret)
    ELSE p.code \in ServedCodes /\ ServerAccepts(p, Secret, TRUE)

\* What is sealed verifies at the other side: Request::seal and the CoA
\* originator against pipeline::validate under the strict policy, Reply::seal_for
\* against Response::verify, whatever was added before, unless the caller added
\* a Message-Authenticator himself or opted out of it (which only the answer to
\* an Accounting-Request survives).
SealedVerifies ==
    (phase = "sealed" /\ ~OwnTag) =>
        (Accepted(wire) <=> (kind = "reply" /\ ma = None => buf.code = "ACCOUNTING_RESPONSE"))

\* A password in a sealed request is hidden under the authenticator that the
\* packet carries, which is the one its receiver decrypts with.
PasswordReadable ==
    (phase = "sealed" /\ password # None) =>
        \E i \in DOMAIN wire.opaque :
            wire.opaque[i] = Hides(password, Secret, wire.auth, <<>>)

\* Nothing else is accepted: a packet that differs from the sealed one in its
\* code, identifier, authenticator, any octet or any computed value, or that
\* lost or gained a tag, is refused.
AlteredRefused == phase = "altered" => ~Accepted(wire)

\* The salts of the hidden values of one packet differ (unique_salt), although
\* two keys and any number of passwords are drawn one after the other.
SaltsDiffer ==
    LET salted == {i \in DOMAIN buf.opaque : "hides" \in DOMAIN buf.opaque[i]}
    IN \A i, j \in salted : buf.opaque[i].salt = buf.opaque[j].salt => i = j

=============================================================================
