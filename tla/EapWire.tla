------------------------------- MODULE EapWire -------------------------------
(***************************************************************************)
(* An EAP packet between two methods: written by write_request,            *)
(* write_response, write_success or write_failure (codec/eap.rs), split    *)
(* over EAP-Message attributes between other attributes, put together and  *)
(* parsed.                                                                 *)
(***************************************************************************)
EXTENDS Packets

CONSTANTS EapLenLen,   \* octets of the Length field (2)
          TypeDatas,   \* what methods write
          Between,     \* attributes that may stand before, between or after
          Strays,      \* octets that no writer wrote
          MaxOthers    \* other attributes in the packet

EapHead == 2 + EapLenLen
EapCap == Base ^ EapLenLen - 1
Terminal == {3, 4}     \* Code::SUCCESS, Code::FAILURE

\* write_with_type
WriteWithType(code, id, typ, data) ==
    LET total == EapHead + 1 + Len(data)
    IN IF total > EapCap THEN [out |-> <<>>, err |-> "PayloadTooLong"]
       ELSE [out |-> <<code, id>> \o ToBE(total, EapLenLen) \o <<typ>> \o data, err |-> None]

\* write_terminal
WriteTerminal(code, id) == [out |-> <<code, id>> \o ToBE(EapHead, EapLenLen), err |-> None]

EapLength(b) == FromBE(SubSeq(b, 3, EapHead))
EapError(b) ==
    IF Len(b) < EapHead THEN "ShortHeader"
    ELSE IF EapLength(b) < EapHead THEN "LengthTooSmall"
    ELSE IF EapLength(b) > Len(b) THEN "LengthExceedsBuffer" ELSE None

\* Packet::parse; octets behind the Length are ignored.
ParseEap(b) ==
    IF EapError(b) # None THEN [err |-> EapError(b)]
    ELSE [err |-> None, code |-> b[1], id |-> b[2], payload |-> SubSeq(b, EapHead + 1, EapLength(b))]

\* Packet::typ and type_data
Typ(p) == IF p.payload = <<>> THEN None ELSE Head(p.payload)
TypeData(p) == IF p.payload = <<>> THEN <<>> ELSE Tail(p.payload)
EapPacketLen(p) == EapHead + Len(p.payload)
-----------------------------------------------------------------------------
VARIABLES wrote,   \* ghost: what the method asked for, None if it was a stray
          out,     \* the writer's buffer
          attrs,   \* the attribute region of the packet
          todo,    \* chunks that are not in the packet yet
          others,  \* other attributes so far
          got      \* what the other side parsed

eapVars == <<wrote, out, attrs, todo, others, got>>

Init == /\ wrote = None /\ out = None /\ attrs = <<>> /\ todo = None /\ others = 0 /\ got = None

Wrote(r, w) == /\ out' = r.out
               /\ wrote' = [err |-> r.err, code |-> w.code, id |-> w.id, typ |-> w.typ, data |-> w.data]
               /\ todo' = Chunks(r.out)
               /\ UNCHANGED <<attrs, others, got>>

WriteTyped == \E code \in {1, 2}, data \in TypeDatas :
    /\ out = None
    /\ Wrote(WriteWithType(code, 7, 25, data), [code |-> code, id |-> 7, typ |-> 25, data |-> data])

WriteEnd == \E code \in Terminal :
    /\ out = None
    /\ Wrote(WriteTerminal(code, 7), [code |-> code, id |-> 7, typ |-> None, data |-> <<>>])

\* A peer sends octets of its own.
WriteStray == \E s \in Strays :
    /\ out = None /\ out' = s /\ todo' = Chunks(s)
    /\ UNCHANGED <<wrote, attrs, others, got>>

\* Attributes are added in order, with others in between.
PutChunk == /\ out # None /\ got = None /\ todo # <<>>
            /\ attrs' = attrs \o <<EapMessage, Len(Head(todo)) + TlvHeader>> \o Head(todo)
            /\ todo' = Tail(todo)
            /\ UNCHANGED <<wrote, out, others, got>>
PutOther == /\ out # None /\ got = None /\ others < MaxOthers
            /\ \E s \in Between : attrs' = attrs \o s
            /\ others' = others + 1
            /\ UNCHANGED <<wrote, out, todo, got>>

\* The other side: AttributesView::eap_message, then Packet::parse.
Receive == /\ out # None /\ todo = <<>> /\ got = None
           /\ got' = ParseEap(Reassemble(attrs))
           /\ UNCHANGED <<wrote, out, attrs, todo, others>>

Next == WriteTyped \/ WriteEnd \/ WriteStray \/ PutChunk \/ PutOther \/ Receive
Spec == Init /\ [][Next]_eapVars
-----------------------------------------------------------------------------
\* A packet that a writer wrote is the packet that the other side parses, code,
\* identifier, type and data, however it was split; what does not fit the Length
\* field is refused and writes nothing.
EapThrough ==
    (got # None /\ wrote # None) =>
        IF wrote.err # None THEN got.err = "ShortHeader"
        ELSE /\ got.err = None
             /\ got.code = wrote.code /\ got.id = wrote.id
             /\ Typ(got) = wrote.typ /\ TypeData(got) = wrote.data

\* Whatever octets arrive, a packet that parses is a prefix of them: its length
\* is the one its header has, and no octet behind it is taken for data.
ParsedIsPrefix ==
    (got # None /\ got.err = None) =>
        /\ EapPacketLen(got) = EapLength(out)
        /\ SubSeq(out, EapHead + 1, EapLength(out)) = got.payload

=============================================================================
