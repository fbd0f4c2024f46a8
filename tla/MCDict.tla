------------------------------- MODULE MCDict -------------------------------
(* Instances for TLC of the dictionary parser, the tables it gives and the *)
(* build script. A behaviour is one of them; the others are idle.          *)
EXTENDS Integers, SequencesExt

CONSTANTS None, Absent, Parts

VARIABLES part,  \* the part that this behaviour is about
          files, frames, dict, vendor_stack, outcome, error, trail,
          source, manifest, enabled, out, mods, todo, program, phase, dirty, edits

\* Small dictionary trees: every short text over the directives that steer the
\* parser, and one line with every kind of token.
E == <<"dir", "entry">>
B == <<"dir", "sub", "b">>
L(op, fields) == [op |-> op, fields |-> fields]
N(n) == [n |-> n, hex |-> FALSE]
H(n) == [n |-> n, hex |-> TRUE]
T(name) == [name |-> name, n |-> N(None), closed |-> FALSE]
Fixed(n, closed) == [name |-> "octets[", n |-> n, closed |-> closed]
F(name) == [name |-> name, n |-> N(None)]
Encrypt(n) == [name |-> "encrypt=", n |-> n]
Rel(path) == [absolute |-> FALSE, path |-> path]

Head0 == <<L("VENDOR", <<"v", N(1)>>), L("VENDOR", <<"v", N(2)>>)>>
Control ==
    <<L("ATTRIBUTE", <<"a", <<N(1)>>, T("string")>>),
      L("BEGIN-VENDOR", <<"v">>), L("BEGIN-VENDOR", <<"w">>),
      L("END-VENDOR", <<"v">>), L("END-VENDOR", <<"w">>),
      L("VENDOR", <<"w", N(3)>>), L("blank", <<>>)>>
EntryLines == Control \o <<L("$INCLUDE", <<Rel(<<"sub", "b">>)>>), L("$INCLUDE", <<Rel(<<"b">>)>>)>>
SubLines == Control \o <<L("$INCLUDE", <<Rel(<<"b">>)>>)>>
Texts(lines, max) == UNION {[1 .. n -> DOMAIN lines] : n \in 0 .. max}
Picked(lines, s) == [i \in DOMAIN s |-> lines[s[i]]]

Numbers == <<N(None), N(-5), N(-4), N(0), N(1), N(2), N(3), N(4), H(3), H(4), N(5), H(7), N(8)>>
Tokens ==
    [i \in DOMAIN Numbers |-> L("VALUE", <<"a", "n", Numbers[i]>>)]
    \o [i \in DOMAIN Numbers |-> L("VENDOR", <<"x", Numbers[i]>>)]
    \o [i \in DOMAIN Numbers |-> L("ATTRIBUTE", <<"a", <<N(1), Numbers[i]>>, T("tlv")>>)]
    \o [i \in DOMAIN Numbers |-> L("ATTRIBUTE", <<"a", <<N(1)>>, Fixed(Numbers[i], TRUE)>>)]
    \o [i \in DOMAIN Numbers |-> L("ATTRIBUTE", <<"a", <<N(1)>>, T("byte"), F("has_tag"), Encrypt(Numbers[i]), Encrypt(N(0))>>)]
    \o [i \in DOMAIN Numbers |->
          L("VENDOR", <<"x", N(1), [prefix |-> TRUE, parts |-> <<N(0), Numbers[i]>>, third |-> "c"]>>)]
    \o <<L("ATTRIBUTE", <<"a", <<N(1)>>>>), L("ATTRIBUTE", <<"a", <<>>, T("byte")>>),
         L("ATTRIBUTE", <<"a", <<N(1)>>, T("word")>>), L("ATTRIBUTE", <<"a", <<N(1)>>, Fixed(N(1), FALSE)>>),
         L("ATTRIBUTE", <<"a", <<N(1)>>, T("byte"), F("concat"), F("loud")>>),
         L("VALUE", <<"a", "n">>), L("VENDOR", <<"x">>),
         L("VENDOR", <<"x", N(1), [prefix |-> FALSE, parts |-> <<>>, third |-> None]>>),
         L("VENDOR", <<"x", N(1), [prefix |-> TRUE, parts |-> <<N(1)>>, third |-> None]>>),
         L("VENDOR", <<"x", N(1), [prefix |-> TRUE, parts |-> <<N(1), N(1)>>, third |-> "d"]>>),
         L("BEGIN-VENDOR", <<>>), L("END-VENDOR", <<"v", "v">>), L("$INCLUDE", <<>>),
         L("other", <<>>)>>

Trees ==
    {(E :> (Head0 \o Picked(EntryLines, s))) @@ (B :> Picked(SubLines, t)) :
        s \in Texts(EntryLines, 3), t \in Texts(SubLines, 2)}
    \cup {E :> <<Tokens[i]>> : i \in DOMAIN Tokens}
    \cup {B :> <<>>}

\* Dictionaries of few attributes and values.
Plain == [encrypt |-> None, set |-> {}]
Tag == [encrypt |-> None, set |-> {"has_tag"}]
Hidden == [encrypt |-> 1, set |-> {}]
A(name, oid, vendor, typ, flags) == [name |-> name, oid |-> oid, vendor |-> vendor, typ |-> typ, flags |-> flags]
V(attr, name, n) == [attribute |-> attr, name |-> name, number |-> n]
D(attrs, vals) == [attributes |-> attrs, values |-> vals,
                   vendors |-> IF vals = <<>> THEN <<>> ELSE <<[name |-> "v", id |-> 9], [name |-> "w", id |-> 9]>>]
Nothing == D(<<>>, <<>>)

\* "a" and "A" are spelled alike in Rust.
Ident == [a |-> "A", A |-> "A", b |-> "B", c |-> "C", d |-> "D", e |-> "E", f |-> "F", g |-> "G",
            x |-> "X", y |-> "Y", z |-> "Z"]
Modulus == [u8 |-> 4, u16 |-> 8, u32 |-> 16, u64 |-> 32, i32 |-> 16]

Attrs == <<A("a", <<1>>, None, "string", Plain), A("b", <<1>>, None, "integer", Plain),
           A("c", <<2>>, None, "tlv", Plain), A("d", <<2, 1>>, None, "byte", Plain),
           A("e", <<2>>, None, "extended", Plain), A("a", <<5>>, None, "integer", Plain),
           A("b", <<3>>, 9, "signed", Plain), A("A", <<2, 5>>, None, "byte", Plain)>>
Vals == <<V("b", "x", 1), V("b", "y", 17), V("d", "x", 1), V("d", "z", 5), V("b", "x", -15)>>
Seqs(s, max) == UNION {{[i \in DOMAIN f |-> s[f[i]]] : f \in [1 .. n -> DOMAIN s]} : n \in 0 .. max}

Types == {"string", "octets", "fixed octets", "ipaddr", "ipv6addr", "ipv4prefix", "ipv6prefix", "byte",
          "short", "integer", "integer64", "signed", "date", "ifid", "ether", "abinary", "tlv", "vsa",
          "evs", "extended", "long-extended", "struct", "uint32"}
Typed == {D(<<A("f", <<1>>, None, t, fl)>>, <<V("f", "x", 3), V("f", "y", 19)>>) :
            t \in Types, fl \in {Plain, Tag, Hidden}}

Cisco == {Nothing,
          D(<<A("b", <<1>>, None, "byte", Plain), A("g", <<3>>, 9, "tlv", Plain)>>, <<V("b", "y", 2)>>),
          D(<<A("c", <<2, 1>>, None, "string", Plain), A("f", <<3>>, 9, "tlv", Plain),
              A("d", <<3, 1>>, 9, "integer", Tag)>>, <<V("d", "x", 1), V("b", "z", 5)>>)}
Air == D(<<A("e", <<3>>, 9, "string", Plain)>>, <<>>)

Group(rfc, air, cisco) == [rfc |-> rfc, air |-> air, cisco |-> cisco, odd |-> Absent]
TableSources ==
    {Group(r, Air, c) : r \in {D(s, <<>>) : s \in Seqs(Attrs, 3)}
                                 \cup {D(s, v) : s \in Seqs(Attrs, 2), v \in Seqs(Vals, 2)}
                                 \cup Typed, c \in Cisco}
Vendors == <<"air", "cisco", "odd">>
Registered == <<"rfc", "cisco">>
Every == {{"air", "cisco", "odd"}}

D1 == D(<<Attrs[1]>>, <<>>)
D2 == D(<<Attrs[2]>>, <<Vals[1]>>)
Broken == D(<<Attrs[1], Attrs[6], A("A", <<2>>, None, "byte", Plain)>>, <<>>)
BuildSources == {Group(r, a, c) : r \in {D1, None}, a \in {D1, Absent}, c \in {D2, Absent}}
BuildEdits == {"rfc"} \X {D1, D2, Broken, None} \cup {"cisco"} \X {D1, Absent, None} \cup {"air"} \X {D2, Absent} \cup {"odd"} \X {D1, Absent}
Manifests == {{"air", "cisco", "odd"}, {"cisco"}}
Roots == {{"air", "cisco", "odd"}, {"air"}, None}
SomeOn == {{"rfc", "cisco"}, {"rfc", "air", "cisco"}, {"cisco"}, {}}

\* The parser over every short tree of two files.
Parser == INSTANCE DictParser WITH
    Entry <- E, Trees <- Trees, MaxIncludeDepth <- 2, U8 <- 2, U16 <- 3, U32 <- 4, I64 <- 5,
    U64 <- 8
ASSUME Parser!WidthAssumption /\ Parser!DepthAssumption

\* The tables of every small dictionary, built once.
Tables == INSTANCE DictBuild WITH
    U8 <- 4, Modulus <- Modulus, ConstIdent <- Ident, PascalIdent <- Ident,
    ValueIdent <- Ident, Sources <- TableSources, Edits <- {}, MaxEdits <- 0, Rfc <- "rfc",
    Vendors <- Vendors, BadName <- {"odd"}, Registered <- Registered, Pkg <- Every,
    Root <- Every, Features <- {{"rfc", "air", "cisco"}}
ASSUME Tables!TableAssumption /\ Tables!BuildAssumption

\* Builds one after the other, with edits, broken files and missing features.
Builds == INSTANCE DictBuild WITH
    U8 <- 4, Modulus <- Modulus, ConstIdent <- Ident, PascalIdent <- Ident,
    ValueIdent <- Ident, Sources <- BuildSources, Edits <- BuildEdits, MaxEdits <- 2,
    Rfc <- "rfc", Vendors <- Vendors, BadName <- {"odd"}, Registered <- Registered,
    Pkg <- Manifests, Root <- Roots, Features <- SomeOn
ASSUME Builds!TableAssumption /\ Builds!BuildAssumption

parserVars == <<files, frames, dict, vendor_stack, outcome, error, trail>>
parserIdle == /\ files = None /\ frames = None /\ dict = None /\ vendor_stack = None
              /\ outcome = None /\ error = None /\ trail = None
tablesVars == <<source, manifest, enabled, out, mods, todo, program, phase, dirty, edits>>
tablesIdle == /\ source = None /\ manifest = None /\ enabled = None /\ out = None
              /\ mods = None /\ todo = None /\ program = None /\ phase = None
              /\ dirty = None /\ edits = None
-----------------------------------------------------------------------------
Init ==
    /\ part \in Parts
    /\ IF part = "parser" THEN Parser!Init ELSE parserIdle
    /\ IF part = "tables" THEN Tables!Init
       ELSE IF part = "builds" THEN Builds!Init ELSE tablesIdle

ParserOthers == UNCHANGED <<part, tablesVars>>
ParserNext == part = "parser" /\ Parser!Next /\ ParserOthers
TablesOthers == UNCHANGED <<part, parserVars>>
TablesNext == part = "tables" /\ Tables!Next /\ TablesOthers
BuildsOthers == UNCHANGED <<part, parserVars>>
BuildsNext == part = "builds" /\ Builds!Next /\ BuildsOthers

Next == ParserNext \/ TablesNext \/ BuildsNext

vars == <<part, parserVars, tablesVars>>

Spec == Init /\ [][Next]_vars

\* parse is a function that runs until it returns.
FairSpec == Spec /\ WF_vars(ParserNext)

-----------------------------------------------------------------------------
\* parse reads the text with every $INCLUDE replaced by its file: it fails
\* for depth or a missing file where the expansion does, an attribute belongs
\* to the vendor of the block around its line whatever file opened the block,
\* and an error names the line that failed or one by which it was included.
ParseExact ==
    part = "parser" => /\ Parser!TypeOK
                       /\ Parser!InclusionIsTextual
                       /\ Parser!OwnedByItsBlock
                       /\ Parser!ErrorNamesItsPlace

\* A lookup gives the first statement of its key in all registered groups; the
\* handle of an attribute without a tag reads it as what the dissector prints,
\* and a sub-attribute has one only if its parent's last statement is a tlv;
\* every enumerator has a name for its number, and the number of a name is the
\* same scalar on the wire.
TablesExact ==
    part = "tables" => /\ Tables!LookupIsFirst
                       /\ Tables!ReadsAsShown
                       /\ Tables!HandleParents
                       /\ Tables!ValueNamesRoundTrip

\* A program that cargo says is up to date has the tables of the files as
\* they are, and it is built only when every vendor on disk has its features.
BuildsFresh ==
    part = "builds" => Builds!TypeOK /\ Builds!Fresh /\ Builds!EveryVendorHasFeatures

\* Parsing ends, for include cycles too.
Ends == part = "parser" => Parser!Ends

\* registry.rs says of its cascade that it searches every enabled group.
EveryGroupSearched ==
    part = "tables" => Tables!EveryGroupSearched
=============================================================================
