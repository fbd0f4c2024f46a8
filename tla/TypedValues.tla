----------------------------- MODULE TypedValues -----------------------------
(***************************************************************************)
(* A typed value on its way through an attribute: written by the sender    *)
(* and decoded by the receiver under the same wire type, or octets that    *)
(* somebody else wrote, decoded and written again (a proxy).               *)
(***************************************************************************)
EXTENDS WireTypes

CONSTANTS Kinds,      \* wire types to look at
          Values(_),  \* values of a wire type that a sender writes
          Words       \* octet strings that arrive from elsewhere

VARIABLES kind,    \* the wire type of the handle
          value,   \* the value the sender writes, None for foreign octets
          octets,  \* the value octets on the wire, None before they are written
          view,    \* what the receiver decodes
          again,   \* what the receiver writes when it passes the view on
          step

vars == <<kind, value, octets, view, again, step>>

Init == /\ kind \in Kinds
        /\ \/ value \in Values(kind) /\ octets = None /\ step = "write"
           \/ value = None /\ octets \in Words /\ step = "decode"
        /\ view = None /\ again = None

Write == /\ step = "write"
         /\ octets' = WriteValue(kind, value)
         /\ step' = "decode"
         /\ UNCHANGED <<kind, value, view, again>>

Read == /\ step = "decode"
        /\ view' = Decode(kind, octets)
        /\ step' = IF view' = None THEN "done" ELSE "forward"
        /\ UNCHANGED <<kind, value, octets, again>>

Forward == /\ step = "forward"
           /\ again' = WriteValue(kind, view)
           /\ step' = "done"
           /\ UNCHANGED <<kind, value, octets, view>>

Next == Write \/ Read \/ Forward
Spec == Init /\ [][Next]_vars
-----------------------------------------------------------------------------
\* What a receiver must see of a value: tags in their five bits, and the
\* low three octets of a tagged integer.
Expected ==
    CASE kind = "taggedText" /\ value.tag # None -> Tagged(MaskTag(value.tag), value.value)
      [] kind = "taggedInteger" /\ value.tag # None ->
            Tagged(MaskTag(value.tag), value.value % Base ^ 3)
      [] OTHER -> value

\* An untagged value whose first octet lies in the range of tags: typed.rs
\* leaves it to the caller not to send one.
ReadsAsTagged ==
    /\ kind \in {"taggedText", "taggedInteger"} /\ value.tag = None
    /\ IsTag(WriteValue(kind, value))

\* What one side writes under a handle, the other decodes under it: the two
\* halves of typed.rs, WireType::decode and IntoWire::write_value, agree on
\* widths, sign, byte order and tags.
RoundTrip ==
    (value # None /\ step \in {"forward", "done"} /\ ~ReadsAsTagged) => view = Expected

\* Octets that decode are written back as they were: a decoded view has no
\* second encoding, so that a proxy that decodes and adds again does not alter
\* the attribute.
Canonical == again # None => again = octets

=============================================================================
