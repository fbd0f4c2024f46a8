------------------------------ MODULE WireTypes ------------------------------
(***************************************************************************)
(* The wire types of dictionary attributes (radius-tokio-dict/typed.rs):   *)
(* how value octets decode into a view and how a value is written.  A view *)
(* of a fixed-width integer is a number, every other view is the octets    *)
(* themselves, and a tagged view is a tag and a value.                     *)
(***************************************************************************)
EXTENDS Integers, Sequences, SequencesExt

CONSTANTS None,      \* no value
          Base,      \* values of an octet (256)
          TagMax,    \* largest tag (0x1F)
          NotText    \* octets that no UTF-8 text contains

WireAssumption == /\ Base \in Nat /\ TagMax \in Nat
                         /\ Base % 2 = 0 /\ TagMax + 1 < Base

Octet == 0 .. Base - 1

\* Octets of the fixed-width types.
Width == [byte |-> 1, short |-> 2, integer |-> 4, signed |-> 4, integer64 |-> 8,
          ipaddr |-> 4, ipv6addr |-> 16, ether |-> 6, ifid |-> 8]
Unsigned == {"byte", "short", "integer", "integer64"}
Fixed == DOMAIN Width

FromBE(b) == FoldLeft(LAMBDA acc, o : acc * Base + o, 0, b)
ToBE(n, w) == [i \in 1 .. w |-> (n \div Base ^ (w - i)) % Base]

\* i32: the top half of the octets' range stands for the negative numbers.
FromBESigned(b) ==
    IF b[1] < Base \div 2 THEN FromBE(b) ELSE FromBE(b) - Base ^ Len(b)

Utf8(b) == \A i \in DOMAIN b : b[i] \notin NotText

\* split_tag
IsTag(b) == b # <<>> /\ Head(b) <= TagMax
Tagged(t, v) == [tag |-> t, value |-> v]

DecodeTaggedInteger(b) ==
    IF Len(b) # 4 THEN None
    ELSE IF IsTag(b) THEN Tagged(b[1], FromBE(Tail(b)))
    ELSE Tagged(None, FromBE(b))

\* Mutant of DecodeTaggedText: tag 0 is taken off the text and not reported.
DecodeTaggedTextZero(b) ==
    LET rest == IF IsTag(b) THEN Tail(b) ELSE b
    IN IF Utf8(rest) THEN Tagged(IF IsTag(b) /\ b[1] # 0 THEN b[1] ELSE None, rest) ELSE None

DecodeTaggedText(b) ==
    LET rest == IF IsTag(b) THEN Tail(b) ELSE b
    IN IF Utf8(rest) THEN Tagged(IF IsTag(b) THEN b[1] ELSE None, rest) ELSE None

DecodeFixed(w, b) ==
    IF Len(b) # Width[w] THEN None
    ELSE IF w \in Unsigned THEN FromBE(b)
    ELSE IF w = "signed" THEN FromBESigned(b)
    ELSE b

\* WireType::decode: None for octets that are no value of the type.
Decode(w, b) ==
    CASE w = "octets" -> b
      [] w = "text" -> IF Utf8(b) THEN b ELSE None
      [] w = "taggedText" -> DecodeTaggedText(b)
      [] w = "taggedInteger" -> DecodeTaggedInteger(b)
      [] OTHER -> DecodeFixed(w, b)

\* Tagged::new and the encoders keep the low bits of a tag.
MaskTag(t) == t % (TagMax + 1)

\* The tag, if there is one, and what follows it.
WriteTagged(v, whole, low) ==
    IF v.tag = None THEN whole ELSE <<MaskTag(v.tag)>> \o low

\* IntoWire::write_value
WriteValue(w, v) ==
    CASE w = "taggedText" -> WriteTagged(v, v.value, v.value)
      [] w = "taggedInteger" -> WriteTagged(v, ToBE(v.value, 4), Tail(ToBE(v.value, 4)))
      [] w \in Unsigned \cup {"signed"} -> ToBE(v, Width[w])
      [] OTHER -> v
=============================================================================
