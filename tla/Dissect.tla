------------------------------- MODULE Dissect -------------------------------
(***************************************************************************)
(* The dissector (codec/dissect.rs) over one datagram.  Its loops and its  *)
(* recursion are a stack of cursors, one item of the topmost is rendered   *)
(* in a step.  A line of output is its mark, its level of indentation and  *)
(* the octets of the attribute region that it stands for; wording, number  *)
(* formats and the length at which a hex dump is cut are left out.         *)
(***************************************************************************)
EXTENDS Attributes

CONSTANTS Datagrams,            \* what may be dissected
          Attr, Vsa, TlvChild   \* the dictionary: type, <<vendor, type>> or
                                \* <<parent, child>> to [kind, encrypted]

VARIABLES datagram,  \* the packet
          stack,     \* cursors, the innermost last
          lines,     \* what is written
          phase      \* "start", "walk" or "done"

vars == <<datagram, stack, lines, phase>>

region == AttrsOf(datagram)
Lookup(table, key) == IF key \in DOMAIN table THEN table[key] ELSE None

\* The n octets of the region from at on.
Line(mark, level, at, n) == [mark |-> mark, level |-> level, at |-> at, n |-> n]
Octets(l) == SubSeq(region, l.at, l.at + l.n - 1)

\* write_raw_hex writes no line for no octets.
RawHex(level, at, n) == IF n = 0 THEN <<>> ELSE <<Line("hex", level, at, n)>>

\* A cursor: what it walks, the octets it has left, and for a TLV where it
\* began and whether a child was in the dictionary.
Cursor(walks, key, level, at, end) ==
    [walks |-> walks, key |-> key, level |-> level, at |-> at, end |-> end, begin |-> at, known |-> FALSE]
Left(c) == c.end - c.at + 1

Init == /\ datagram \in Datagrams
        /\ stack = <<>> /\ lines = <<>> /\ phase = "start"

\* Display for PacketDissect: the header, or what is wrong with it.
Start ==
    /\ phase = "start"
    /\ \/ /\ HeaderError(datagram) # None
          /\ lines' = <<Line("malformed header", 1, 1, 0)>> \o RawHex(1, 1, datagram.got)
          /\ phase' = "done" /\ UNCHANGED stack
       \/ /\ HeaderError(datagram) = None
          /\ stack' = <<Cursor("attributes", None, 2, 1, Len(region))>>
          /\ phase' = "walk" /\ UNCHANGED lines
    /\ UNCHANGED datagram
-----------------------------------------------------------------------------
(* write_value *)

\* write_ip_prefix takes a reserved octet, a prefix length and part of an address.
PrefixWidth == [ipv4prefix |-> 4, ipv6prefix |-> 16]

\* How a value that has no parts is shown.  Of a "bad" one only the length is
\* printed; "hex", "encrypted" and "non-utf8" are followed by a hex dump.
ValueMark(entry, val) ==
    CASE entry = None -> "hex"
      [] entry.encrypted -> "encrypted"
      [] entry.kind = "text" -> IF Utf8(val) THEN "value" ELSE "non-utf8"
      [] entry.kind \in Fixed -> IF Len(val) = Width[entry.kind] THEN "value" ELSE "bad"
      [] entry.kind = "date" -> IF Len(val) = 4 THEN "value" ELSE "bad"
      [] entry.kind \in DOMAIN PrefixWidth ->
            IF Len(val) \in 2 .. 2 + PrefixWidth[entry.kind] THEN "value" ELSE "bad"
      [] OTHER -> "hex"

\* write_evs: vendor, vendor type, and the rest in hex.
EvsLines(level, at, n) ==
    IF n < PenLen + 1 THEN <<Line("truncated", level, at, 0)>> \o RawHex(level, at, n)
    ELSE <<Line("EVS", level, at, PenLen + 1)>> \o RawHex(level + 1, at + PenLen + 1, n - PenLen - 1)

\* write_extended: an extended type, in the long form flags, and the rest.
ExtendedLines(level, at, n, long) ==
    LET head == IF long THEN 2 ELSE 1
    IN IF n < head THEN <<Line("truncated", level, at, 0)>> \o RawHex(level + 1, at, n)
       ELSE <<Line("extended", level, at, head)>>
            \o IF region[at] = VendorSpecific THEN EvsLines(level + 1, at + head, n - head)
               ELSE RawHex(level + 1, at + head, n - head)

\* Lines and cursors of a value whose octets are at .. at + n - 1.
WriteValue1(level, code, entry, at, n) ==
    LET val == SubSeq(region, at, at + n - 1)
        kind == IF entry = None \/ ValueMark(entry, val) = "encrypted" THEN None ELSE entry.kind
        Shows(l) == [lines |-> l, push |-> <<>>]
    IN CASE kind = "tlv" -> [lines |-> <<>>, push |-> <<Cursor("tlv", code, level + 1, at, at + n - 1)>>]
         [] kind = "extended" -> Shows(ExtendedLines(level, at, n, FALSE))
         [] kind = "longextended" -> Shows(ExtendedLines(level, at, n, TRUE))
         [] kind = "evs" -> Shows(EvsLines(level + 1, at, n))
         [] kind \in {"vsa", "struct"} -> Shows(RawHex(level + 1, at, n))
         [] OTHER -> Shows(<<Line(ValueMark(entry, val), level, at, n)>>)
-----------------------------------------------------------------------------
top == stack[Len(stack)]
Replace(c) == [stack EXCEPT ![Len(stack)] = c]
Pop == SubSeq(stack, 1, Len(stack) - 1)
rest == SubSeq(region, top.at, top.end)

Writes(ls) == lines' = lines \o ls
Ends(ls) == Writes(ls) /\ stack' = Pop

\* An item of n octets: a line for its header of h octets, then its value.
Item(mark, code, entry, h, n, known) ==
    LET w == WriteValue1(top.level, code, entry, top.at + h, n - h)
    IN /\ Writes(<<Line(mark, top.level, top.at, h)>> \o w.lines)
       /\ stack' = Replace([top EXCEPT !.at = @ + n, !.known = @ \/ known]) \o w.push

\* The top-level loop and write_attribute.
StepAttributes ==
    /\ top.walks = "attributes"
    /\ \/ Left(top) = 0 /\ Ends(<<>>)
       \/ /\ Left(top) > 0 /\ SlotError(rest) # None
          /\ Ends(<<Line("malformed attribute", top.level, top.at, 0)>>)
       \/ /\ Left(top) > 0 /\ SlotError(rest) = None
          /\ \/ /\ rest[1] # VendorSpecific
                /\ Item("AVP", rest[1], Lookup(Attr, rest[1]), TlvHeader, rest[2], FALSE)
             \/ /\ rest[1] = VendorSpecific /\ rest[2] - TlvHeader < PenLen
                /\ Writes(<<Line("truncated VSA", top.level, top.at, TlvHeader)>>
                          \o RawHex(top.level, top.at + TlvHeader, rest[2] - TlvHeader))
                /\ stack' = Replace([top EXCEPT !.at = @ + rest[2]])
             \/ /\ rest[1] = VendorSpecific /\ rest[2] - TlvHeader >= PenLen
                /\ Writes(<<Line("AVP", top.level, top.at, TlvHeader + PenLen)>>)
                /\ stack' = Replace([top EXCEPT !.at = @ + rest[2]])
                            \o <<Cursor("vsa", FromBE(SubSeq(rest, 3, PenLen + 2)), top.level + 1,
                                        top.at + TlvHeader + PenLen, top.at + rest[2] - 1)>>

\* The check of the vendor and TLV loops.
BadLength(r) == r[2] < 2 \/ r[2] > Len(r)

\* write_vsa's loop over the vendor's TLVs.
StepVsa ==
    /\ top.walks = "vsa"
    /\ \/ Left(top) = 0 /\ Ends(<<>>)
       \/ Left(top) = 1 /\ Ends(<<Line("trailing", top.level, top.at, 0)>> \o RawHex(top.level, top.at, 1))
       \/ /\ Left(top) >= 2 /\ BadLength(rest)
          /\ Ends(<<Line("malformed", top.level, top.at, 0)>> \o RawHex(top.level, top.at, Left(top)))
       \/ /\ Left(top) >= 2 /\ ~BadLength(rest)
          /\ Item("VSA", rest[1], Lookup(Vsa, <<top.key, rest[1]>>), TlvHeader, rest[2], FALSE)

\* After the loop over children: all of a value in which nothing parsed, or the rest.
TlvTail(c) ==
    IF ~c.known /\ c.at = c.begin THEN RawHex(c.level, c.begin, c.end - c.begin + 1)
    ELSE IF Left(c) > 0 THEN <<Line("trailing", c.level, c.at, 0)>> \o RawHex(c.level, c.at, Left(c))
    ELSE <<>>

\* The Tlv arm of write_value.
StepTlv ==
    /\ top.walks = "tlv"
    /\ \/ Left(top) < 2 /\ Ends(TlvTail(top))
       \/ /\ Left(top) >= 2 /\ BadLength(rest)
          /\ Ends(<<Line("malformed", top.level, top.at, 0)>> \o TlvTail(top))
       \/ /\ Left(top) >= 2 /\ ~BadLength(rest)
          /\ LET entry == Lookup(TlvChild, <<top.key, rest[1]>>)
             IN Item("TLV", rest[1], entry, TlvHeader, rest[2], entry # None)

Step == /\ phase = "walk" /\ stack # <<>>
        /\ StepAttributes \/ StepVsa \/ StepTlv
        /\ UNCHANGED <<datagram, phase>>

Finish == /\ phase = "walk" /\ stack = <<>>
          /\ phase' = "done" /\ UNCHANGED <<datagram, stack, lines>>

Next == Start \/ Step \/ Finish
Spec == Init /\ [][Next]_vars
-----------------------------------------------------------------------------
\* Where the lines so far end.
Covered == IF lines = <<>> THEN 1 ELSE lines[Len(lines)].at + lines[Len(lines)].n

\* No octet falls between two lines or belongs to two of them, at whatever level
\* of vendor attributes, TLVs and extended attributes it lies: each line of the
\* dissection stands for the octets that begin where those of the line before it
\* ended, and at the end every well-formed top-level attribute has its lines.
Tiles ==
    HeaderError(datagram) = None =>
        /\ \A i \in DOMAIN lines : lines[i].at = IF i = 1 THEN 1 ELSE lines[i - 1].at + lines[i - 1].n
        /\ Covered <= Len(region) + 1
        /\ phase = "done" => Covered > Len(Concat(Slots(region)))

\* The dissector and the typed accessors agree on which values are good: what
\* is shown as a value of a type is what Attr::decode of that type returns, and
\* what is shown as bad or not UTF-8 is what it refuses.  Encrypted values are
\* marked.
AgreesWithDecode ==
    \A i \in DOMAIN lines : i > 1 /\ lines[i - 1].mark = "AVP" /\ lines[i - 1].n = TlvHeader =>
        LET entry == Lookup(Attr, region[lines[i - 1].at])
        IN entry # None /\ lines[i].mark \in {"value", "bad", "non-utf8", "encrypted"} =>
              /\ (lines[i].mark = "encrypted") = entry.encrypted
              /\ ~entry.encrypted /\ entry.kind \in Fixed \cup {"text"} =>
                    (lines[i].mark \in {"bad", "non-utf8"}) = (Decode(entry.kind, Octets(lines[i])) = None)

\* A step property.  Every dissection ends, whatever lengths the packet holds: each step of the
\* loops closes the innermost cursor or moves it on, so that no length of 0 keeps
\* Display writing for ever.
CursorsMove ==
    stack # <<>> => Len(stack') < Len(stack) \/ stack'[Len(stack)].at > top.at

=============================================================================
