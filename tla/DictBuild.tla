------------------------------ MODULE DictBuild ------------------------------
(***************************************************************************)
(* Building the dictionary crate (radius-tokio-dict: build.rs, the modules *)
(* of generated.rs, the registry's list of groups).  Cargo runs the script *)
(* when something it watches has changed; the script finds the vendor      *)
(* files, compares them with the manifests, renders the enabled groups     *)
(* into OUT_DIR one after the other, and rustc compiles what is there.     *)
(* source[g] is the dictionary that the files of group g parse to, None    *)
(* when they do not.                                                       *)
(***************************************************************************)
EXTENDS Integers, SequencesExt

(***************************************************************************)
(* What the code generator (radius-tokio-dict-codegen: codegen.rs) makes   *)
(* of a parsed dictionary: typed handles, lookup functions and enumerator  *)
(* newtypes; and the registry (radius-tokio-dict: registry.rs) that asks   *)
(* one group after the other.  The Rust text is left out, and with it the  *)
(* spelling of identifiers: two names may be spelled alike.                *)
(***************************************************************************)
CONSTANTS None,
          U8,           \* one more than the largest u8
          Modulus,      \* of u8, u16, u32, u64 and i32, 2^w
          ConstIdent,   \* const_ident: how an attribute's name is spelled as a constant,
          PascalIdent,  \* pascal_ident: as a type,
          ValueIdent    \* value_const_ident: and an enumerator's as a constant

TableAssumption ==
    /\ U8 \in Nat \ {0}
    /\ \A t \in {"u8", "u16", "u32", "u64", "i32"} : Modulus[t] \in Nat \ {0}

FirstWith(s, Test(_)) == LET i == SelectInSeq(s, Test) IN IF i = 0 THEN None ELSE s[i]
LastWith(s, Test(_)) == LET i == SelectLastInSeq(s, Test) IN IF i = 0 THEN None ELSE s[i]
-----------------------------------------------------------------------------
(* Types *)

\* attr_kind_literal, with AttrKind
AttrKind(t) ==
    CASE t \in {"fixed octets", "abinary"} -> "octets"
      [] t = "uint32" -> "integer"
      [] OTHER -> t

Words == {"integer", "uint32", "date"}

\* wire_marker
WireMarker(t, flags) ==
    IF flags.encrypt # None THEN "WBytes"
    ELSE IF "has_tag" \in flags.set
    THEN CASE t = "string" -> "WTaggedText" [] t \in Words -> "WTaggedInteger" [] OTHER -> "WBytes"
    ELSE CASE t = "string" -> "WText"
           [] t = "byte" -> "WByte"
           [] t = "short" -> "WShort"
           [] t \in Words -> "WInteger"
           [] t = "integer64" -> "WInteger64"
           [] t = "signed" -> "WSigned"
           [] t = "ipaddr" -> "WIpv4"
           [] t = "ipv6addr" -> "WIpv6"
           [] t = "ether" -> "WEther"
           [] t = "ifid" -> "WIfid"
           [] OTHER -> "WBytes"

Shape(inner, marker, tagged) == [inner |-> inner, marker |-> marker, tagged |-> tagged]

\* value_shape
ValueShape(t, flags) ==
    IF flags.encrypt # None THEN None
    ELSE IF "has_tag" \in flags.set
    THEN IF t \in Words THEN Shape("u32", "WTaggedInteger", TRUE) ELSE None
    ELSE CASE t = "byte" -> Shape("u8", "WByte", FALSE)
           [] t = "short" -> Shape("u16", "WShort", FALSE)
           [] t \in Words -> Shape("u32", "WInteger", FALSE)
           [] t = "integer64" -> Shape("u64", "WInteger64", FALSE)
           [] t = "signed" -> Shape("i32", "WSigned", FALSE)
           [] OTHER -> None

\* scalar_literal: the casts of Rust.
Cast(inner, n) ==
    LET m == Modulus[inner]
    IN IF inner = "i32" THEN ((n + (m \div 2)) % m) - (m \div 2) ELSE n % m
-----------------------------------------------------------------------------
(* write_attrs_module, write_attr_lookups, write_vendor_lookup *)

\* parents: the last one-component statement counts.
ParentType(d, vendor, root) ==
    LET p == LastWith(d.attributes, LAMBDA a : Len(a.oid) = 1 /\ a.vendor = vendor /\ a.oid[1] = root)
    IN IF p = None THEN None ELSE p.typ

\* A component that does not fit an octet is skipped.
Codes(a) == \A i \in DOMAIN a.oid : a.oid[i] < U8

\* The attributes that become a constant: Attr, VsaAttr, TlvAttr, VsaTlvAttr.
Emitted(d, a) ==
    /\ Codes(a)
    /\ \/ Len(a.oid) = 1
       \/ Len(a.oid) = 2 /\ ParentType(d, a.vendor, a.oid[1]) = "tlv"

Handles(d) == SelectSeq(d.attributes, LAMBDA a : Emitted(d, a))

Info(a) == IF a = None THEN None
           ELSE [name |-> a.name, kind |-> AttrKind(a.typ), encrypted |-> a.flags.encrypt # None]

\* lookup(code), lookup_vsa(pen, vt) and lookup_tlv(parent, child) are the
\* keys <<code>> and <<parent, child>> of no vendor, and <<vt>> of vendor pen.
LookupKey(d, vendor, oid) ==
    Info(FirstWith(d.attributes, LAMBDA a : a.vendor = vendor /\ a.oid = oid /\ Codes(a)))

\* lookup_vendor
LookupVendor(d, pen) ==
    LET v == FirstWith(d.vendors, LAMBDA w : w.id = pen)
    IN IF v = None THEN None ELSE [name |-> v.name, id |-> v.id]
-----------------------------------------------------------------------------
(* write_values_module, write_value_newtype *)

\* The attribute that a VALUE is about: the last of that name.
AttrNamed(d, name) == LastWith(d.attributes, LAMBDA a : a.name = name)
ShapeOf(d, name) ==
    LET a == AttrNamed(d, name) IN IF a = None THEN None ELSE ValueShape(a.typ, a.flags)

\* A VALUE restated for the same attribute and name is dropped.
Enumerators(d, attr) ==
    SelectSeq([i \in DOMAIN d.values |-> [v |-> d.values[i], i |-> i]],
        LAMBDA e : /\ e.v.attribute = attr
                   /\ \A j \in 1 .. e.i - 1 : <<d.values[j].attribute, d.values[j].name>> # <<attr, e.v.name>>)

\* The attributes that become a newtype.
Newtypes(d) == {n \in {d.values[i].attribute : i \in DOMAIN d.values} : ShapeOf(d, n) # None}

\* Mutant of NameOf: the number is compared before it is cast.
NameOfExact(d, attr, number) ==
    LET e == FirstWith(Enumerators(d, attr), LAMBDA x : Cast(ShapeOf(d, attr).inner, x.v.number) = number)
    IN IF e = None THEN None ELSE e.v.name

\* write_value_newtype: the newtype of the number cast, and its name() in the
\* table of the enumerators, which are cast too.
NameOf(d, attr, number) ==
    LET inner == ShapeOf(d, attr).inner
        e == FirstWith(Enumerators(d, attr), LAMBDA x : Cast(inner, x.v.number) = Cast(inner, number))
    IN IF e = None THEN None ELSE e.v.name

\* value_name: routes to the newtype of the attribute.
ValueName(d, attr, number) == IF attr \in Newtypes(d) THEN NameOf(d, attr, number) ELSE None

Distinct(s) == \A i, j \in DOMAIN s : s[i] = s[j] => i = j

\* rustc takes the generated module when no identifier is defined twice.
Compiles(d) ==
    /\ Distinct([i \in DOMAIN Handles(d) |-> ConstIdent[Handles(d)[i].name]])
    /\ \A m, n \in Newtypes(d) : PascalIdent[m] = PascalIdent[n] => m = n
    /\ \A n \in Newtypes(d) :
          Distinct([i \in DOMAIN Enumerators(d, n) |-> ValueIdent[Enumerators(d, n)[i].v.name]])
-----------------------------------------------------------------------------
(* registry.rs: tables is a sequence of the groups' dictionaries in the order
   of the cascade, the disabled ones left out. *)

\* cascade_lookup!: the first group that knows the key answers.
Cascade(tables, Ask(_)) ==
    LET hit == SelectInSeq(tables, LAMBDA d : Ask(d) # None)
    IN IF hit = 0 THEN None ELSE Ask(tables[hit])

\* attribute, vsa and tlv_child; vendor; value_name.
Resolve(tables, vendor, oid) == Cascade(tables, LAMBDA d : LookupKey(d, vendor, oid))
ResolveVendor(tables, pen) == Cascade(tables, LAMBDA d : LookupVendor(d, pen))
ResolveValue(tables, attr, number) == Cascade(tables, LAMBDA d : ValueName(d, attr, number))

-----------------------------------------------------------------------------
CONSTANTS Sources,      \* what source may be to begin with
          Edits,        \* <<group, dictionary>> that an edit may leave
          MaxEdits,
          Rfc,          \* the group declared by hand
          Vendors,      \* the other groups, in the order of their names
          BadName,      \* those whose name is no module name
          Pkg, Root,    \* features each manifest may declare; Root may be None
          Features,     \* what may be enabled
          Registered    \* the groups of the registry, in its order

VARIABLES source,    \* per group, what its files say now; Absent for a vendor with no file
          manifest,  \* [pkg, root], the groups with a feature
          enabled,   \* the groups whose feature is on
          out,       \* OUT_DIR: per group the dictionary last rendered, or Absent
          mods,      \* vendor_mods.rs: the vendors with a module, or Absent
          todo,      \* the groups the script has yet to visit, as positions in Order
          program,   \* the compiled tables, per group; Absent before
          phase,     \* "edit", "script", "rustc", "built", "panic" or "failed"
          dirty,     \* the directories edited since the script began
          edits

vars == <<source, manifest, enabled, out, mods, todo, program, phase, dirty, edits>>

CONSTANT Absent

Groups == {Rfc} \cup Range(Vendors)

\* The order in which the script visits groups.
Order == [i \in {0} \cup DOMAIN Vendors |-> IF i = 0 THEN Rfc ELSE Vendors[i]]

\* The files of a group are those of a vendor, or of the RFCs; a feature is
\* one of a group.
BuildAssumption ==
    /\ 0 \notin DOMAIN Vendors /\ Rfc \notin Range(Vendors)
    /\ \A s \in Sources : DOMAIN s = Groups
    /\ \A e \in Edits : e[1] \in Groups
    /\ Features \subseteq SUBSET Groups
    /\ None # Absent

OnDisk == {v \in Range(Vendors) : source[v] # Absent}

Init == /\ source \in Sources
        /\ manifest \in [pkg : Pkg, root : Root]
        /\ enabled \in Features
        /\ out = [g \in Groups |-> Absent] /\ mods = Absent /\ program = Absent
        /\ todo = {} /\ phase = "edit" /\ dirty = {"rfc", "vendor"} /\ edits = 0

\* Someone changes the files of a group, or adds or removes a vendor.
Edit ==
    /\ phase \in {"edit", "built", "panic", "failed"} /\ edits < MaxEdits
    /\ \E e \in Edits :
          /\ source' = [source EXCEPT ![e[1]] = e[2]]
          /\ dirty' = (IF phase = "panic" THEN {"rfc", "vendor"} ELSE dirty)
                       \cup {IF e[1] = Rfc THEN "rfc" ELSE "vendor"}
    /\ edits' = edits + 1 /\ phase' = "edit"
    /\ UNCHANGED <<manifest, enabled, out, mods, todo, program>>

\* rerun-if-changed: the vendor directory always, the RFC directory when that
\* group is enabled.
Watched == {"vendor"} \cup (IF Rfc \in enabled THEN {"rfc"} ELSE {})

\* validate_feature_coverage: nothing is compared when there is no root manifest.
FeaturesMissing ==
    manifest.root # None /\ \E v \in OnDisk : v \notin manifest.pkg \cap manifest.root

\* Cargo starts the script; main finds the groups, or panics.
Start ==
    /\ phase = "edit" /\ dirty \cap Watched # {}
    /\ dirty' = {}
    /\ IF FeaturesMissing \/ OnDisk \cap BadName # {}
       THEN phase' = "panic" /\ UNCHANGED todo
       ELSE phase' = "script" /\ todo' = {i \in DOMAIN Order : Order[i] \in {Rfc} \cup OnDisk}
    /\ UNCHANGED <<source, manifest, enabled, out, mods, program, edits>>

\* The script need not run: rustc takes OUT_DIR as it is.
UpToDate ==
    /\ phase = "edit" /\ dirty \cap Watched = {}
    /\ phase' = "rustc"
    /\ UNCHANGED <<source, manifest, enabled, out, mods, todo, program, dirty, edits>>

\* Mutant of Render: an output that is there is kept.
RenderOnce ==
    /\ phase = "script"
    /\ \E i \in todo :
          /\ \A j \in todo : i <= j
          /\ IF Order[i] \notin enabled THEN todo' = todo \ {i} /\ UNCHANGED <<out, phase>>
             ELSE IF source[Order[i]] = None THEN phase' = "panic" /\ UNCHANGED <<out, todo>>
             ELSE /\ out' = [out EXCEPT ![Order[i]] = IF @ = Absent THEN source[Order[i]] ELSE @]
                  /\ todo' = todo \ {i} /\ UNCHANGED phase
    /\ UNCHANGED <<source, manifest, enabled, mods, program, dirty, edits>>

\* One group: skipped when disabled, else parsed and written if changed.
Render ==
    /\ phase = "script"
    /\ \E i \in todo :
          /\ \A j \in todo : i <= j
          /\ IF Order[i] \notin enabled THEN todo' = todo \ {i} /\ UNCHANGED <<out, phase>>
             ELSE IF source[Order[i]] = None THEN phase' = "panic" /\ UNCHANGED <<out, todo>>
             ELSE /\ out' = [out EXCEPT ![Order[i]] = source[Order[i]]]
                  /\ todo' = todo \ {i} /\ UNCHANGED phase
    /\ UNCHANGED <<source, manifest, enabled, mods, program, dirty, edits>>

\* vendor_mods.rs names every vendor found, enabled or not.
WriteMods ==
    /\ phase = "script" /\ todo = {}
    /\ mods' = OnDisk /\ phase' = "rustc"
    /\ UNCHANGED <<source, manifest, enabled, out, todo, program, dirty, edits>>

\* The modules that cfg leaves in: generated.rs and vendor_mods.rs.
Modules == (IF Rfc \in enabled THEN {Rfc} ELSE {}) \cup (mods \cap enabled)

\* rustc includes the output of each module; the registry has to find the
\* module of every enabled group that it lists.
Compile ==
    /\ phase = "rustc"
    /\ IF /\ \A g \in Modules : out[g] # Absent /\ Compiles(out[g])
          /\ Range(Registered) \cap enabled \subseteq Modules
       THEN phase' = "built" /\ program' = [g \in Modules |-> out[g]]
       ELSE phase' = "failed" /\ UNCHANGED program
    /\ UNCHANGED <<source, manifest, enabled, out, mods, todo, dirty, edits>>

\* After a panic cargo runs the script again, after an error rustc.
Again ==
    /\ \/ phase = "panic" /\ phase' = "edit" /\ dirty' = {"rfc", "vendor"}
       \/ phase = "failed" /\ phase' = "rustc" /\ UNCHANGED dirty
    /\ UNCHANGED <<source, manifest, enabled, out, mods, todo, program, edits>>

Next == Edit \/ Start \/ UpToDate \/ Render \/ WriteMods \/ Compile \/ Again

Spec == Init /\ [][Next]_vars
-----------------------------------------------------------------------------
(* Properties of a program that was built *)

Built == phase = "built"

\* Types; what is rendered was parsed.
TypeOK ==
    /\ phase \in {"edit", "script", "rustc", "built", "panic", "failed"}
    /\ DOMAIN out = Groups /\ \A g \in Groups : out[g] # None
    /\ mods = Absent \/ mods \subseteq Range(Vendors)

\* A program that cargo says is up to date has the tables of the files as they
\* are: one module for every enabled group on disk and no other, whatever was
\* edited since, and whatever an earlier failed build left in OUT_DIR.
Fresh ==
    Built => /\ DOMAIN program = {g \in enabled : g = Rfc \/ source[g] # Absent}
             /\ \A g \in DOMAIN program : program[g] = source[g]

\* With both manifests there, a program is built only when every vendor on
\* disk can be enabled by a feature of the crate and of the workspace.
EveryVendorHasFeatures ==
    Built /\ manifest.root # None =>
        \A v \in Range(Vendors) : source[v] # Absent => v \in manifest.pkg /\ v \in manifest.root

tables == LET on == SelectSeq(Registered, LAMBDA g : g \in DOMAIN program)
          IN [i \in DOMAIN on |-> program[on[i]]]
AllAttributes == FlattenSeq([i \in DOMAIN tables |-> tables[i].attributes])
AllVendors == FlattenSeq([i \in DOMAIN tables |-> tables[i].vendors])

\* The key under which the registry is asked about a handle; None for a
\* sub-attribute of a vendor, which has no lookup.
HasLookup(a) == Len(a.oid) = 1 \/ a.vendor = None

\* For every typed handle of a group in the registry, the lookup of its key
\* gives the first statement of that key in all those groups, the RFC group
\* first, and so does the lookup of a vendor's number: restating a code never
\* changes what the dissector shows.
LookupIsFirst ==
    Built => \A i \in DOMAIN tables :
        /\ \A h \in Range(Handles(tables[i])) : HasLookup(h) =>
              Resolve(tables, h.vendor, h.oid) =
                  Info(FirstWith(AllAttributes, LAMBDA a : a.vendor = h.vendor /\ a.oid = h.oid))
        /\ \A v \in Range(tables[i].vendors) :
              ResolveVendor(tables, v.id).name = FirstWith(AllVendors, LAMBDA w : w.id = v.id).name

\* How the handle's type reads the octets that the dissector shows by kind.
Reads == [string |-> "WText", byte |-> "WByte", short |-> "WShort", integer |-> "WInteger",
          date |-> "WInteger", integer64 |-> "WInteger64", signed |-> "WSigned", ipaddr |-> "WIpv4",
          ipv6addr |-> "WIpv6", ether |-> "WEther", ifid |-> "WIfid"]

\* The handle of an attribute without a tag reads it as the scalar, address or
\* text that the dissector prints, or as octets where that prints ciphertext, a
\* prefix or a container (the dictionary that the dissector asks has no tags, so
\* that nothing is said of tagged values); and the newtype of the enumerators of
\* an attribute writes what its handle reads.
ReadsAsShown ==
    Built => \A i \in DOMAIN tables : \A h \in Range(Handles(tables[i])) :
        LET shown  == Info(h)
            marker == WireMarker(h.typ, h.flags)
        IN /\ shown.encrypted => marker = "WBytes"
           /\ ~shown.encrypted /\ "has_tag" \notin h.flags.set =>
                 marker = IF shown.kind \in DOMAIN Reads THEN Reads[shown.kind] ELSE "WBytes"
           /\ h.name \in Newtypes(tables[i]) /\ AttrNamed(tables[i], h.name) = h =>
                 ShapeOf(tables[i], h.name).marker = marker

\* A sub-attribute has a handle only if its parent's last statement in its
\* group is a tlv: no walker is given the framing of another container.
HandleParents ==
    Built => \A i \in DOMAIN tables :
        LET A == tables[i].attributes
            States(k, h) == A[k].vendor = h.vendor /\ A[k].oid = <<h.oid[1]>>
        IN \A h \in Range(Handles(tables[i])) : Len(h.oid) > 1 =>
              \E k \in DOMAIN A : /\ States(k, h) /\ A[k].typ = "tlv"
                                  /\ \A l \in k + 1 .. Len(A) : ~States(l, h)

\* Every enumerator of a newtype has a name for its number, and a number is
\* only given a name whose VALUE is the same scalar on the wire.
ValueNamesRoundTrip ==
    Built => \A i \in DOMAIN tables : \A n \in Newtypes(tables[i]) :
        \A e \in Range(Enumerators(tables[i], n)) :
            LET name == ResolveValue(tables, n, e.v.number)
            IN /\ name # None
               /\ \E j \in DOMAIN tables : \E f \in Range(tables[j].values) :
                     /\ n \in Newtypes(tables[j]) /\ f.attribute = n /\ f.name = name
                     /\ (f.number - e.v.number) % Modulus[ShapeOf(tables[j], n).inner] = 0

\* What registry.rs says of its cascade: it searches every enabled group.
EveryGroupSearched ==
    Built => \A g \in DOMAIN program : \A h \in Range(Handles(program[g])) :
        HasLookup(h) => Resolve(tables, h.vendor, h.oid) # None
=============================================================================
