----------------------------- MODULE Attributes ------------------------------
(***************************************************************************)
(* Reading a received packet: Header::parse (header.rs), the attribute     *)
(* iterator and every accessor built on it (attributes.rs), the walks that *)
(* message_authenticator.rs makes on its own, and EAP-Message reassembly   *)
(* (eap.rs).  An attribute region is a sequence of octets.                 *)
(***************************************************************************)
EXTENDS WireTypes, FiniteSetsExt

CONSTANTS HeaderLen,  \* MIN_PACKET_LEN (20)
          MaxPacket,  \* MAX_PACKET_LEN (4096)
          PenLen,     \* octets of a Vendor-Id (4)
          TagLen      \* octets of a Message-Authenticator (16)

AttributesAssumption ==
    /\ HeaderLen \in Nat /\ MaxPacket \in Nat /\ HeaderLen <= MaxPacket
    /\ PenLen \in Nat \ {0} /\ TagLen \in Nat \ {0}

UserName == 1
UserPassword == 2
State == 24
VendorSpecific == 26
TunnelPassword == 69
EapMessage == 79
MessageAuthenticator == 80
TlvHeader == 2                       \* MIN_ATTRIBUTE_LEN
MaTlvLen == TlvHeader + TagLen       \* message_authenticator::TLV_LEN

From(s, i) == SubSeq(s, i, Len(s))
Take(s, n) == SubSeq(s, 1, n)
-----------------------------------------------------------------------------
(* Header::parse.  A datagram is the number of octets received, the Length *)
(* field and the octets after the header.                                  *)

HeaderError(d) ==
    CASE d.got < HeaderLen -> "TooShort"
      [] d.length < HeaderLen -> "LengthUnderflow"
      [] d.length > MaxPacket -> "LengthOverflow"
      [] d.length > d.got -> "LengthExceedsBuffer"
      [] OTHER -> None

\* The attribute region: what the Length field covers; padding is dropped.
AttrsOf(d) == Take(d.body, d.length - HeaderLen)
-----------------------------------------------------------------------------
(* AttributesIter *)

Iter(attrs) == [rest |-> attrs, halted |-> FALSE]

\* What is wrong with the slot at the head of a non-empty region.
SlotError(rest) ==
    CASE Len(rest) < TlvHeader -> "TruncatedHeader"
      [] rest[2] < TlvHeader -> "LengthUnderflow"
      [] rest[2] > Len(rest) -> "LengthExceedsRemaining"
      [] OTHER -> None

\* AttributesIter::next: the iterator after the call, and what it yields.
IterNext(it) ==
    IF it.halted \/ it.rest = <<>> THEN [it |-> it, item |-> None]
    ELSE LET e == SlotError(it.rest)
         IN IF e # None THEN [it |-> [it EXCEPT !.halted = TRUE], item |-> [err |-> e]]
            ELSE [it |-> [it EXCEPT !.rest = From(it.rest, it.rest[2] + 1)],
                  item |-> [slot |-> Take(it.rest, it.rest[2])]]

\* A whole `for slot in iter(attrs)`: the slots before the end or the error.
Walk(attrs) ==
    LET w[i \in 1 .. Len(attrs) + 1] ==
            IF i > Len(attrs) THEN [slots |-> <<>>, err |-> None]
            ELSE LET rest == From(attrs, i)
                     e == SlotError(rest)
                 IN IF e # None THEN [slots |-> <<>>, err |-> e]
                    ELSE LET tail == w[i + rest[2]]
                         IN [tail EXCEPT !.slots = <<Take(rest, rest[2])>> \o @]
    IN w[1]
Slots(attrs) == Walk(attrs).slots
WalkError(attrs) == Walk(attrs).err
-----------------------------------------------------------------------------
(* RawAttribute *)

TypeOf(slot) == slot[1]
WireLen(slot) == slot[2]
ValueOf(slot) == From(slot, TlvHeader + 1)

\* The first of the results that a search over slots gives before it ends.
FirstSome(slots, Get(_)) ==
    LET hits == {i \in DOMAIN slots : Get(slots[i]) # None}
    IN IF hits = {} THEN None ELSE Get(slots[Min(hits)])
SomeSlot(slots, Matches(_)) == \E i \in DOMAIN slots : Matches(slots[i])

Get(slot, h) == IF TypeOf(slot) = h.code THEN Decode(h.wire, ValueOf(slot)) ELSE None
MatchesAttr(slot, h) == TypeOf(slot) = h.code

\* vsa_tlv_children, before the walk: the vendor's data in a type 26 slot.
VsaData(slot, pen, vtype) ==
    LET val == ValueOf(slot)
        data == From(val, PenLen + 3)
        n == val[PenLen + 2] - 2
    IN IF /\ TypeOf(slot) = VendorSpecific
          /\ Len(val) >= PenLen + 2
          /\ FromBE(Take(val, PenLen)) = pen
          /\ val[PenLen + 1] = vtype
          /\ n \in 0 .. Len(data)
       THEN Take(data, n) ELSE None

GetVsa(slot, h) ==
    LET data == VsaData(slot, h.vendor, h.vtype)
    IN IF data = None THEN None ELSE Decode(h.wire, data)

MatchesVsa(slot, h) ==
    LET val == ValueOf(slot)
    IN /\ TypeOf(slot) = VendorSpecific
       /\ Len(val) >= PenLen + 2
       /\ FromBE(Take(val, PenLen)) = h.vendor
       /\ val[PenLen + 1] = h.vtype
       /\ val[PenLen + 2] >= 2
       /\ Len(val) - PenLen - 2 >= val[PenLen + 2] - 2

\* The loops of get_tlv and get_vsa_tlv decide on the first child of the
\* type; a malformed child before it ends them.
ChildView(region, h) ==
    LET kids == Slots(region)
        hits == {i \in DOMAIN kids : TypeOf(kids[i]) = h.child}
    IN IF hits = {} THEN None ELSE Decode(h.wire, ValueOf(kids[Min(hits)]))
HasChild(region, h) == SomeSlot(Slots(region), LAMBDA k : TypeOf(k) = h.child)

GetTlv(slot, h) == IF TypeOf(slot) = h.parent THEN ChildView(ValueOf(slot), h) ELSE None
MatchesTlv(slot, h) == TypeOf(slot) = h.parent /\ HasChild(ValueOf(slot), h)

GetVsaTlv(slot, h) ==
    LET data == VsaData(slot, h.vendor, h.parent)
    IN IF data = None THEN None ELSE ChildView(data, h)
MatchesVsaTlv(slot, h) ==
    LET data == VsaData(slot, h.vendor, h.parent)
    IN data # None /\ HasChild(data, h)
-----------------------------------------------------------------------------
(* The free functions and AttributesView *)

First(attrs, h) == FirstSome(Slots(attrs), LAMBDA s : Get(s, h))
FirstVsa(attrs, h) == FirstSome(Slots(attrs), LAMBDA s : GetVsa(s, h))
FirstTlv(attrs, h) == FirstSome(Slots(attrs), LAMBDA s : GetTlv(s, h))
FirstVsaTlv(attrs, h) == FirstSome(Slots(attrs), LAMBDA s : GetVsaTlv(s, h))

ContainsAttr(attrs, h) == SomeSlot(Slots(attrs), LAMBDA s : MatchesAttr(s, h))
ContainsVsa(attrs, h) == SomeSlot(Slots(attrs), LAMBDA s : MatchesVsa(s, h))
ContainsTlv(attrs, h) == SomeSlot(Slots(attrs), LAMBDA s : MatchesTlv(s, h))
ContainsVsaTlv(attrs, h) == SomeSlot(Slots(attrs), LAMBDA s : MatchesVsaTlv(s, h))

\* first_raw: the slot, None, or the error that came first.
FirstRaw(attrs, typ) ==
    LET slot == FirstSome(Slots(attrs), LAMBDA s : IF TypeOf(s) = typ THEN s ELSE None)
    IN [slot |-> slot, err |-> IF slot = None THEN WalkError(attrs) ELSE None]
ContainsRaw(attrs, typ) == SomeSlot(Slots(attrs), LAMBDA s : TypeOf(s) = typ)

ValueOrNone(slot) == IF slot = None THEN None ELSE ValueOf(slot)
UserNameOf(attrs) == ValueOrNone(FirstRaw(attrs, UserName).slot)

\* The octets '@', '\' and '%'.
At == 64
Backslash == 92
Percent == 37

Positions(s, o) == {i \in DOMAIN s : s[i] = o}

\* user_name_realm
UserRealm(user, realm) == [user |-> user, realm |-> realm]

UserNameRealm(name) ==
    LET at == Positions(name, At)
        bs == Positions(name, Backslash)
        pc == Positions(name, Percent)
    IN IF at # {} THEN UserRealm(Take(name, Max(at) - 1), From(name, Max(at) + 1))
       ELSE IF bs # {} THEN UserRealm(From(name, Min(bs) + 1), Take(name, Min(bs) - 1))
       ELSE IF pc # {} THEN UserRealm(Take(name, Min(pc) - 1), From(name, Min(pc) + 1))
       ELSE UserRealm(name, None)
-----------------------------------------------------------------------------
(* eap.rs *)

Concat(seqs) == FoldLeft(LAMBDA acc, s : acc \o s, <<>>, seqs)

\* fragments: the EAP-Message values before the first malformed slot.
EapFragments(attrs) ==
    LET eap == SelectSeq(Slots(attrs), LAMBDA s : TypeOf(s) = EapMessage)
    IN [i \in DOMAIN eap |-> ValueOf(eap[i])]
Reassemble(attrs) == Concat(EapFragments(attrs))
-----------------------------------------------------------------------------
(* The walks of message_authenticator.rs, over the attribute region *)

\* Offsets (of values, in the region) of the slots whose type and length octets
\* are those of a Message-Authenticator: find_value_offset and
\* count_value_offsets step through the octets themselves.
TagOffsets(attrs) ==
    LET w[i \in 1 .. Len(attrs) + 1] ==
            IF i > Len(attrs) \/ Len(attrs) - i + 1 < 2 THEN {}
            ELSE LET n == attrs[i + 1]
                 IN IF n < 2 \/ n > Len(attrs) - i + 1 THEN {}
                    ELSE w[i + n] \cup
                         (IF attrs[i] = MessageAuthenticator /\ n = MaTlvLen
                          THEN {i + TlvHeader} ELSE {})
    IN w[1]
FindValueOffset(attrs) == IF TagOffsets(attrs) = {} THEN None ELSE Min(TagOffsets(attrs))
CountValueOffsets(attrs) == Cardinality(TagOffsets(attrs))

\* compute: the attribute octets that go into the HMAC.  Tags are zeroed, and
\* a malformed tail goes in as it is.
HmacInput(attrs) ==
    LET slots == Slots(attrs)
        Fed(s) == IF TypeOf(s) = MessageAuthenticator /\ Len(s) = MaTlvLen
                  THEN Take(s, TlvHeader) \o [i \in 1 .. TagLen |-> 0] ELSE s
        done == Len(Concat(slots))
    IN Concat([i \in DOMAIN slots |-> Fed(slots[i])]) \o From(attrs, done + 1)

\* Mutant of VerifyOffset: the first of several tags is taken.
VerifyOffsetFirst(attrs) ==
    LET slots == Slots(attrs)
        tags == {i \in DOMAIN slots : TypeOf(slots[i]) = MessageAuthenticator}
    IN IF WalkError(attrs) # None \/ \E i \in tags : WireLen(slots[i]) # MaTlvLen
       THEN [verdict |-> "Invalid", at |-> None]
       ELSE IF tags = {} THEN [verdict |-> "Absent", at |-> None]
       ELSE [verdict |-> "Present", at |-> Len(Concat(Take(slots, Min(tags) - 1))) + TlvHeader + 1]

\* verify, up to the comparison: the verdict so far and the place of the tag.
VerifyOffset(attrs) ==
    LET slots == Slots(attrs)
        tags == {i \in DOMAIN slots : TypeOf(slots[i]) = MessageAuthenticator}
    IN IF \/ WalkError(attrs) # None
          \/ \E i \in tags : WireLen(slots[i]) # MaTlvLen
          \/ Cardinality(tags) > 1 THEN [verdict |-> "Invalid", at |-> None]
       ELSE IF tags = {} THEN [verdict |-> "Absent", at |-> None]
       ELSE [verdict |-> "Present", at |-> Len(Concat(Take(slots, Min(tags) - 1))) + TlvHeader + 1]

\* The walk of Response::verify before its authenticator checks.
ResponseSlotsOk(attrs) ==
    /\ WalkError(attrs) = None
    /\ ~SomeSlot(Slots(attrs), LAMBDA s : TypeOf(s) = MessageAuthenticator /\ Len(ValueOf(s)) # TagLen)
=============================================================================
