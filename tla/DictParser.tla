----------------------------- MODULE DictParser -----------------------------
(***************************************************************************)
(* The parser of FreeRADIUS dictionary files                               *)
(* (radius-tokio-dict-codegen: parser.rs, model.rs).  Its recursion over   *)
(* $INCLUDE is the stack of files being read, one line of the innermost is *)
(* handled in a step.  A path is a sequence of names, a line is [op,       *)
(* fields], a token of a line what its characters say: a number is [n,     *)
(* hex] with n = None when it is none.                                     *)
(***************************************************************************)
EXTENDS Integers, SequencesExt

CONSTANTS Trees,              \* the file systems to parse, path to lines
          Entry,              \* the path given to parse
          None,
          MaxIncludeDepth,    \* MAX_INCLUDE_DEPTH
          U8, U16, U32, I64, U64   \* one more than the largest of the type

WidthAssumption == 0 < U8 /\ U8 < U16 /\ U16 < U32 /\ U32 < I64 /\ I64 < U64
DepthAssumption == MaxIncludeDepth \in Nat

VARIABLES files,         \* the file system
          frames,        \* files being read: [path, at], the innermost last
          dict,          \* State::dict
          vendor_stack,  \* State::vendor_stack, <<name, id>>
          outcome,       \* "begin", "run", "ok" or "error"
          error,         \* Error: [kind, file, line]
          trail          \* history: the lines handled, <<path, number>>

vars == <<files, frames, dict, vendor_stack, outcome, error, trail>>

NoError == [kind |-> None, file |-> None, line |-> 0]
Failure(kind, file, line) == [kind |-> kind, file |-> file, line |-> line]

Init == /\ files \in Trees
        /\ frames = <<>> /\ vendor_stack = <<>> /\ trail = <<>>
        /\ dict = [attributes |-> <<>>, values |-> <<>>, vendors |-> <<>>]
        /\ outcome = "begin" /\ error = NoError
-----------------------------------------------------------------------------
(* Tokens.  Each has what is wrong with it, None for nothing, and its value. *)

Decimal(t, width) == t.n # None /\ ~t.hex /\ t.n \in 0 .. width - 1

\* parse_unsigned, parse_signed: the digits of a hexadecimal have no sign.
UnsignedError(t) == IF t.n # None /\ t.n \in 0 .. U64 - 1 THEN None ELSE "BadInteger"
SignedError(t) ==
    IF t.n # None /\ t.n < I64 /\ t.n >= (IF t.hex THEN 0 ELSE -I64) THEN None ELSE "BadInteger"

\* parse_oid
OidError(t) == IF t # <<>> /\ \A i \in DOMAIN t : Decimal(t[i], U32) THEN None ELSE "BadOid"
OidOf(t) == [i \in DOMAIN t |-> t[i].n]

TypeNames == {"string", "octets", "ipaddr", "ipv6addr", "ipv4prefix", "ipv6prefix", "byte",
              "short", "integer", "integer64", "signed", "date", "ifid", "ether", "abinary",
              "tlv", "vsa", "evs", "extended", "long-extended", "struct", "uint32"}

\* Type::parse: [name, n, closed], the last two for octets[N] only.
TypeError(t) ==
    IF t.name = "octets["
    THEN IF ~t.closed THEN "UnknownType"
         ELSE IF Decimal(t.n, U16) THEN None ELSE "BadInteger"
    ELSE IF t.name \in TypeNames THEN None ELSE "UnknownType"
TypeOf(t) == IF t.name = "octets[" THEN "fixed octets" ELSE t.name

FlagNames == {"has_tag", "concat", "array", "virtual", "internal", "secret"}

\* apply_flag for one piece [name, n].
FlagError(p) ==
    IF p.name = "encrypt=" THEN IF Decimal(p.n, U8) THEN None ELSE "BadInteger"
    ELSE IF p.name \in FlagNames THEN None ELSE "UnknownFlag"

\* parse_flags: the first bad piece; the last encrypt= counts.
FlagsError(ps) ==
    LET bad == SelectInSeq(ps, LAMBDA p : FlagError(p) # None)
    IN IF bad = 0 THEN None ELSE FlagError(ps[bad])
FlagsOf(ps) ==
    LET enc == SelectLastInSeq(ps, LAMBDA p : p.name = "encrypt=")
    IN [encrypt |-> IF enc = 0 THEN None ELSE ps[enc].n.n,
        set |-> {ps[i].name : i \in DOMAIN ps} \ {"encrypt="}]

\* parse_small_u8; what is absent is the empty string.
SmallError(ts, i) == IF i \in DOMAIN ts /\ Decimal(ts[i], U8) THEN None ELSE "BadInteger"

\* The optional format=t,l[,c] of a VENDOR: [prefix, parts, third].
FormatError(f) ==
    IF ~f.prefix THEN "UnknownFlag"
    ELSE IF SmallError(f.parts, 1) # None THEN SmallError(f.parts, 1)
    ELSE IF SmallError(f.parts, 2) # None THEN SmallError(f.parts, 2)
    ELSE IF f.third \in {None, "c"} THEN None ELSE "UnknownFlag"
FormatOf(f) == [type_len |-> f.parts[1].n, length_len |-> f.parts[2].n, has_continuation |-> f.third = "c"]
DefaultFormat == [type_len |-> 1, length_len |-> 1, has_continuation |-> FALSE]
-----------------------------------------------------------------------------
(* parse_one *)

\* Loader::load resolves a relative target against the including file.
Resolve(from, target) ==
    IF from # None /\ ~target.absolute THEN Front(from) \o target.path ELSE target.path

\* The file is opened at the given depth, or why it is not.
Open(from, target, depth) ==
    LET path == Resolve(from, target)
        why  == IF depth > MaxIncludeDepth THEN "IncludeTooDeep"
                ELSE IF path \notin DOMAIN files THEN "Io" ELSE None
    IN IF why = None
       THEN /\ frames' = Append(frames, [path |-> path, at |-> 1])
            /\ outcome' = "run" /\ UNCHANGED error
       ELSE /\ error' = Failure(why, from, 0)
            /\ outcome' = "error" /\ UNCHANGED frames

\* Parser::parse
Parse ==
    /\ outcome = "begin"
    /\ Open(None, [absolute |-> TRUE, path |-> Entry], 0)
    /\ UNCHANGED <<files, dict, vendor_stack, trail>>

frame == Last(frames)
current_line == files[frame.path][frame.at]
AtLine(op) ==
    /\ outcome = "run"
    /\ frame.at <= Len(files[frame.path])
    /\ current_line.op = op

Advance(fs) == [fs EXCEPT ![Len(fs)].at = @ + 1]

\* The line is done, or it fails with kind: the innermost frame names it.
Done(kind) ==
    /\ trail' = Append(trail, <<frame.path, frame.at>>)
    /\ IF kind = None THEN frames' = Advance(frames) /\ UNCHANGED <<outcome, error>>
       ELSE /\ outcome' = "error" /\ error' = Failure(kind, frame.path, frame.at)
            /\ UNCHANGED frames

\* Comments and blank lines.
Blank ==
    /\ AtLine("blank")
    /\ Done(None) /\ UNCHANGED <<files, dict, vendor_stack>>

\* Mutant of EndOfFile: an included file that ends is not left.
EndOfFileStays ==
    /\ outcome = "run" /\ frame.at > Len(files[frame.path]) /\ Len(frames) = 1
    /\ frames' = <<>> /\ outcome' = "ok"
    /\ UNCHANGED <<files, dict, vendor_stack, error, trail>>

\* A file that ends gives the line after its $INCLUDE to the includer; a block
\* that it leaves open stays open.
EndOfFile ==
    /\ outcome = "run" /\ frame.at > Len(files[frame.path])
    /\ frames' = IF Len(frames) = 1 THEN <<>> ELSE Advance(Front(frames))
    /\ outcome' = IF Len(frames) = 1 THEN "ok" ELSE "run"
    /\ UNCHANGED <<files, dict, vendor_stack, error, trail>>

\* An error leaves the files being read one by one; each includer keeps the
\* kind and names its own line.
Unwind ==
    /\ outcome = "error" /\ frames # <<>>
    /\ error' = Failure(error.kind, frame.path, frame.at)
    /\ frames' = Front(frames)
    /\ UNCHANGED <<files, dict, vendor_stack, outcome, trail>>
-----------------------------------------------------------------------------
(* handle_line *)

current_vendor == IF vendor_stack = <<>> THEN None ELSE Last(vendor_stack)[2]

AttributeError(f) ==
    IF Len(f) < 3 THEN "BadArity"
    ELSE IF OidError(f[2]) # None THEN OidError(f[2])
    ELSE IF TypeError(f[3]) # None THEN TypeError(f[3])
    ELSE FlagsError(SubSeq(f, 4, Len(f)))

\* parse_attribute
ParseAttribute ==
    /\ AtLine("ATTRIBUTE")
    /\ \E f \in {current_line.fields} : \E bad \in {AttributeError(f)} :
          /\ Done(bad)
          /\ dict' = IF bad # None THEN dict
                     ELSE [dict EXCEPT !.attributes = Append(@,
                             [name |-> f[1], oid |-> OidOf(f[2]), vendor |-> current_vendor,
                              typ |-> TypeOf(f[3]), flags |-> FlagsOf(SubSeq(f, 4, Len(f)))])]
    /\ UNCHANGED <<files, vendor_stack>>

\* parse_value
ParseValue ==
    /\ AtLine("VALUE")
    /\ \E f \in {current_line.fields} :
       \E bad \in {IF Len(f) < 3 THEN "BadArity" ELSE SignedError(f[3])} :
          /\ Done(bad)
          /\ dict' = IF bad # None THEN dict
                     ELSE [dict EXCEPT !.values = Append(@,
                             [attribute |-> f[1], name |-> f[2], number |-> f[3].n])]
    /\ UNCHANGED <<files, vendor_stack>>

VendorError(f) ==
    IF Len(f) < 2 THEN "BadArity"
    ELSE IF UnsignedError(f[2]) # None THEN UnsignedError(f[2])
    ELSE IF f[2].n >= U32 THEN "BadInteger"
    ELSE IF Len(f) > 2 THEN FormatError(f[3]) ELSE None

\* parse_vendor
ParseVendor ==
    /\ AtLine("VENDOR")
    /\ \E f \in {current_line.fields} : \E bad \in {VendorError(f)} :
          /\ Done(bad)
          /\ dict' = IF bad # None THEN dict
                     ELSE [dict EXCEPT !.vendors = Append(@,
                             [name |-> f[1], id |-> f[2].n,
                              format |-> IF Len(f) > 2 THEN FormatOf(f[3]) ELSE DefaultFormat])]
    /\ UNCHANGED <<files, vendor_stack>>

\* The first vendor of that name, 0 for none.
VendorNamed(name) == SelectInSeq(dict.vendors, LAMBDA v : v.name = name)

\* parse_begin_vendor
BeginVendor ==
    /\ AtLine("BEGIN-VENDOR")
    /\ \E f \in {current_line.fields} :
       \E bad \in {IF Len(f) # 1 THEN "BadArity"
                   ELSE IF VendorNamed(f[1]) = 0 THEN "UnknownVendor" ELSE None} :
          /\ Done(bad)
          /\ vendor_stack' = IF bad # None THEN vendor_stack
                ELSE Append(vendor_stack, <<f[1], dict.vendors[VendorNamed(f[1])].id>>)
    /\ UNCHANGED <<files, dict>>

\* parse_end_vendor
EndVendor ==
    /\ AtLine("END-VENDOR")
    /\ \E f \in {current_line.fields} :
          /\ Done(IF Len(f) # 1 THEN "BadArity"
                  ELSE IF vendor_stack = <<>> THEN "UnmatchedEndVendor"
                  ELSE IF Last(vendor_stack)[1] # f[1] THEN "VendorMismatch" ELSE None)
          /\ vendor_stack' = IF Len(f) # 1 \/ vendor_stack = <<>> THEN vendor_stack
                             ELSE Front(vendor_stack)
    /\ UNCHANGED <<files, dict>>

\* Mutant of Include: the depth is that of the includer.
IncludeSameDepth ==
    /\ AtLine("$INCLUDE")
    /\ \E f \in {current_line.fields} :
          \/ Len(f) # 1 /\ Done("BadArity")
          \/ /\ Len(f) = 1 /\ trail' = Append(trail, <<frame.path, frame.at>>)
             /\ Open(frame.path, f[1], 0)
    /\ UNCHANGED <<files, dict, vendor_stack>>

\* $INCLUDE: the includer waits at this line.
Include ==
    /\ AtLine("$INCLUDE")
    /\ \E f \in {current_line.fields} :
          \/ Len(f) # 1 /\ Done("BadArity")
          \/ /\ Len(f) = 1 /\ trail' = Append(trail, <<frame.path, frame.at>>)
             /\ Open(frame.path, f[1], Len(frames))
    /\ UNCHANGED <<files, dict, vendor_stack>>

UnknownDirective ==
    /\ AtLine("other")
    /\ Done("UnknownDirective") /\ UNCHANGED <<files, dict, vendor_stack>>

Next == \/ Parse \/ Blank \/ EndOfFile \/ Unwind \/ ParseAttribute \/ ParseValue \/ ParseVendor
        \/ BeginVendor \/ EndVendor \/ Include \/ UnknownDirective

Spec == Init /\ [][Next]_vars

\* parse is a function that runs until it returns.
FairSpec == Spec /\ WF_vars(Next)
-----------------------------------------------------------------------------
(* Properties *)

\* Types; the stack of files fits the depth, and an error has a kind.
TypeOK ==
    /\ outcome \in {"begin", "run", "ok", "error"}
    /\ Len(frames) <= MaxIncludeDepth + 1
    /\ (outcome = "error") = (error.kind # None)
    /\ \A i \in DOMAIN dict.attributes : dict.attributes[i].vendor \in {None} \cup 0 .. U32 - 1
    /\ \A i \in DOMAIN dict.vendors : dict.vendors[i].id \in 0 .. U32 - 1
    /\ \A i \in DOMAIN dict.values : dict.values[i].number \in -I64 .. I64 - 1

\* The line of the i-th step of the history.
Read(i) == files[trail[i][1]][trail[i][2]]
Count(op, a, b) == Cardinality({i \in a .. b : Read(i).op = op})
\* How many blocks are open before step i; the BEGIN-VENDOR of the innermost.
Nesting(i) == Count("BEGIN-VENDOR", 1, i - 1) - Count("END-VENDOR", 1, i - 1)
Opener(i) == CHOOSE j \in 1 .. i - 1 :
                /\ Read(j).op = "BEGIN-VENDOR" /\ Nesting(j + 1) = Nesting(i)
                /\ \A k \in j + 1 .. i - 1 : Nesting(k + 1) >= Nesting(i)
\* The id that name was first given.
FirstId(name) == LET i == CHOOSE i \in DOMAIN trail :
                             /\ Read(i).op = "VENDOR" /\ Read(i).fields[1] = name
                             /\ \A j \in 1 .. i - 1 : ~(Read(j).op = "VENDOR" /\ Read(j).fields[1] = name)
                 IN Read(i).fields[2].n
Owner(i) == IF Nesting(i) = 0 THEN None ELSE FirstId(Read(Opener(i)).fields[1])
Steps(op) == SelectSeq([i \in DOMAIN trail |-> i], LAMBDA i : Read(i).op = op)

\* Every attribute belongs to the vendor of the block around its line in the
\* text as included, whatever file opened the block, and to the number which
\* that vendor's name was first given (parse_attribute, parse_begin_vendor).
OwnedByItsBlock ==
    \A k \in DOMAIN dict.attributes :
        LET i == Steps("ATTRIBUTE")[k]
        IN dict.attributes[k].name = Read(i).fields[1] /\ dict.attributes[k].vendor = Owner(i)

\* The text with every $INCLUDE replaced by its file: the lines, and "deep"
\* or "missing" where a file is not opened.
RECURSIVE Expand(_, _), ExpandFrom(_, _, _)
ExpandFrom(path, at, depth) ==
    IF at > Len(files[path]) THEN <<>>
    ELSE LET l == files[path][at]
             inner == IF l.op = "$INCLUDE" /\ Len(l.fields) = 1
                      THEN Expand(Resolve(path, l.fields[1]), depth + 1) ELSE <<>>
         IN <<<<path, at>>>> \o inner \o ExpandFrom(path, at + 1, depth)
Expand(path, depth) ==
    IF depth > MaxIncludeDepth THEN <<<<"deep", 0>>>>
    ELSE IF path \notin DOMAIN files THEN <<<<"missing", 0>>>>
    ELSE ExpandFrom(path, 1, depth)

\* Inclusion is textual: what parse_one has read is a prefix of the expanded
\* text, all of it when parse succeeds, and parse fails for depth or for a
\* missing file at exactly the place where the expansion does.
InclusionIsTextual ==
    \E text \in {Expand(Entry, 0)} :
        /\ IsPrefix(trail, text)
        /\ outcome = "ok" => trail = text
        /\ outcome = "error" /\ error.kind = "IncludeTooDeep" => text[Len(trail) + 1] = <<"deep", 0>>
        /\ outcome = "error" /\ error.kind = "Io" => text[Len(trail) + 1] = <<"missing", 0>>

\* The line k of the history is the last one, or an $INCLUDE whose file holds all
\* that was read after it.
Encloses(k) ==
    \/ k = Len(trail)
    \/ /\ Read(k).op = "$INCLUDE" /\ Len(Read(k).fields) = 1
       /\ \E depth \in 1 .. MaxIncludeDepth :
             IsPrefix(SubSeq(trail, k + 1, Len(trail)), Expand(Resolve(trail[k][1], Read(k).fields[1]), depth))

\* The error that parse returns names a line that was read, the one that failed
\* or one by which its file was included, so that an error of a file which
\* includes none names exactly its line; and no file when the entry is missing.
ErrorNamesItsPlace ==
    outcome = "error" /\ frames = <<>> =>
        IF trail = <<>> THEN error.file = None /\ error.line = 0
        ELSE \E k \in DOMAIN trail : trail[k] = <<error.file, error.line>> /\ Encloses(k)

\* Parsing ends, for include cycles too.
Ends == <>(outcome \in {"ok", "error"} /\ frames = <<>>)
=============================================================================
