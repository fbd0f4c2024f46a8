----------------------------- MODULE MCRequest ------------------------------
(* Instances for TLC of what is done to one packet at a time: typed        *)
(* values, attribute walks, packet builders, the dissector, EAP packets    *)
(* and passwords; and the client stores, the way of a packet through a     *)
(* listener, the router behind it, and dynamic authorization from the      *)
(* originator to the handler of a NAS. A behaviour is about one of them;   *)
(* the others are idle.                                                    *)
EXTENDS Pipeline, Integers, Sequences, TLC

CONSTANTS None, s1, s2, h1, h2, d1, d2, p1, b1, Parts

VARIABLES part,  \* the part that this behaviour is about
          kind, value, octets, view, again, step,
          datagram, it, yielded, errors, idle,
          builder, buf, ma, password, asked, eap, emptied, last, ops, phase, wire,
          dissected, stack, lines, pace,
          wrote, out, attrs, todo, others, got,
          scheme, attributes,
          next, clients, entries, store, built,
          packet, client, role, policy, transport, stage, outcome,
          slots, sets, mode, mock, wanted, input, request, handler, result,
          pc, peer, sealed, attempt, mailbox, told, reg, sent, replies, started, cache,
          decided, runs, forgotten

Whole(body) == [got |-> 4 + Len(body), length |-> 4 + Len(body), body |-> body]
Strings(alphabet, n) == UNION {[1 .. k -> alphabet] : k \in 0 .. n}
Fill(octet, n) == [i \in 1 .. n |-> octet]

-----------------------------------------------------------------------------
\* Every integer of four octets, and tags in their range and out of it.
Kinds == {"byte", "short", "integer", "signed", "ipaddr", "octets", "text",
          "taggedText", "taggedInteger"}
Texts == Strings(0 .. 2, 3)
ValuesOf(w) ==
    CASE w = "byte" -> 0 .. 3
      [] w = "short" -> 0 .. 15
      [] w = "integer" -> 0 .. 255
      [] w = "signed" -> -128 .. 127
      [] w = "ipaddr" -> [1 .. 4 -> {0, 3}]
      [] w = "octets" -> Strings(0 .. 3, 3)
      [] w = "text" -> Texts
      [] w = "taggedText" -> [tag : {None, 0, 1, 2, 3}, value : Texts]
      [] OTHER -> [tag : {None, 0, 1, 2, 3}, value : 0 .. 255]

\* Attribute regions: every short word over the octets that matter, and
\* sequences of slots that are right, nearly right or cut off.
Shapes == {<<1, 2>>, <<1, 4, 7, 64>>, <<24, 3, 9>>, <<79, 3, 5>>, <<80, 3, 0>>, <<80, 4, 0, 0>>,
           <<26, 2>>, <<26, 5, 9, 1, 2>>, <<26, 6, 9, 1, 3, 5>>, <<26, 6, 9, 1, 4, 5>>, <<26, 6, 8, 1, 3, 5>>,
           <<26, 8, 9, 2, 5, 1, 3, 7>>, <<26, 8, 9, 2, 4, 1, 3, 7>>,
           <<40, 5, 1, 3, 7>>, <<40, 7, 2, 2, 1, 3, 7>>, <<40, 6, 1, 3, 7, 9>>, <<40, 7, 1, 4, 7, 7, 0>>}
Tails == {<<>>, <<80>>, <<80, 0>>, <<80, 1, 0>>, <<80, 5, 0>>}
UserNames == {<<1, Len(n) + 2>> \o n : n \in Strings({5, 37, 64, 92}, 4)}
Regions == UserNames \cup Strings({0, 1, 2, 3, 4, 80}, 5)
           \cup {a \o b \o t : a \in Shapes, b \in Shapes \cup {<<>>}, t \in Tails}
Odd == [got : {0, 3}, length : 0 .. 8, body : {<<>>}]
       \cup {[got |-> 10, length |-> n, body |-> <<1, 3, 5, 80, 3, 0>>] : n \in 0 .. 14 \cup {25}}
Walked == {Whole(r) : r \in Regions} \cup Odd
Wires == {"octets", "byte", "text"}

\* Values that come out just short enough, too long, and too long only
\* together with what is there.
Starts == {[kind |-> "reply", code |-> "ACCESS_ACCEPT"], [kind |-> "reply", code |-> "ACCOUNTING_RESPONSE"],
           [kind |-> "request", code |-> "ACCESS_REQUEST"], [kind |-> "request", code |-> "ACCOUNTING_REQUEST"],
           [kind |-> "coa", code |-> "COA_REQUEST"],
           [kind |-> "raw", code |-> "ACCESS_REQUEST"], [kind |-> "raw", code |-> "ACCOUNTING_REQUEST"]}
Kid(n) == [sub |-> 80, val |-> Fill(5, n)]
KidLists == {<<>>, <<Kid(1)>>, <<Kid(0), Kid(2)>>, <<Kid(1), Kid(7)>>, <<Kid(3), Kid(2)>>}

\* A dictionary with every kind of attribute that has parts, and every value of
\* up to five octets in each, alone and in front of another attribute.
Info(k) == [kind |-> k, encrypted |-> FALSE]
Attr == [t \in {1, 2, 3, 40, 41, 42, 43, 44} |->
           CASE t = 1 -> Info("text")
             [] t = 2 -> [kind |-> "octets", encrypted |-> TRUE]
             [] t = 3 -> Info("short")
             [] t = 40 -> Info("tlv")
             [] t = 41 -> Info("extended")
             [] t = 42 -> Info("longextended")
             [] t = 43 -> Info("evs")
             [] t = 44 -> Info("ipv4prefix")]
Vsa == [k \in {<<3, 3>>, <<3, 4>>} |-> IF k[2] = 3 THEN Info("byte") ELSE Info("tlv")]
TlvChild == [k \in {<<40, 3>>, <<40, 4>>, <<4, 3>>} |-> IF k[2] = 3 THEN Info("byte") ELSE Info("tlv")]
Dissected(n) == Strings({0, 2, 3, 4, 26}, n)
Slot(t, v, off) == <<t, Len(v) + 2 + off>> \o v
Shown ==
    LET bodies == {Slot(t, v, 0) : t \in {26, 40, 41, 42, 43}, v \in Dissected(5)}
                  \cup {Slot(t, v, 0) : t \in {1, 2, 3, 44, 45}, v \in Dissected(2)}
                  \cup {Slot(t, v, 0) \o Slot(1, <<3>>, o) :
                           t \in {1, 26, 40}, v \in Dissected(3), o \in {0, 1, -2}}
    IN {Whole(b) : b \in bodies} \cup {[got |-> 4, length |-> 5, body |-> <<>>]}

\* EAP packets about the ends of an attribute and of the Length field.
TypeDatas == {Fill(7, n) : n \in {0, 1, 86, 87, 200, 251, 252, 253}}
Strays == {<<c, 7, n>> \o Fill(7, k) : c \in {1, 2, 3}, n \in 0 .. 6, k \in 0 .. 3}
          \cup {<<>>, <<1>>, <<1, 7>>}

\* Passwords about the ends of a block, one that ends in a NUL, one too long.
ch == {<<"letter", 1>>}
nul == {}
Passwords == {<<>>, <<ch>>, <<ch, nul>>, <<ch, ch>>, <<ch, ch, ch>>, <<ch, ch, ch, ch>>}
Kept == Passwords \cup {<<ch, ch, ch, nul>>, <<ch, ch, ch, ch, ch>>}
UserNamed == {<<"u">>, <<"d", "\\", "u">>, <<"d", "\\", "e", "\\", "f", "\\", "u">>, <<"x">>}
\* Sound and unsound packets of every code, with attribute lists that have a
\* status, one behind another attribute, and one that does not decode.
LivePackets == {[header |-> "ok", code |-> c, digest |-> m = "valid", ma |-> m, eap |-> FALSE] :
                  c \in PacketCodes, m \in {"valid", "absent"}}
LiveClients == {[require_message_authenticator |-> b, status_server_enabled |-> b] : b \in BOOLEAN}
LiveAttributes == {<<>>, <<[typ |-> "other"], [typ |-> "status", value |-> 1]>>,
                   <<[typ |-> "short"], [typ |-> "status", value |-> 4]>>}

\* Octets of base 4, so that tags, payload and out-of-range tags all occur.
Typed == INSTANCE TypedValues WITH
    Base <- 4, TagMax <- 1, NotText <- {3}, Kinds <- Kinds, Values <- ValuesOf,
    Words <- Strings(0 .. 3, 5)
ASSUME Typed!WireAssumption

\* A header of four octets, a Vendor-Id and a Message-Authenticator of one.
Walk == INSTANCE AttributeWalk WITH
    Base <- 256, TagMax <- 31, NotText <- {9}, HeaderLen <- 4, MaxPacket <- 24, PenLen <- 1,
    TagLen <- 1, Datagrams <- Walked, AttrHandles <- [code : {1, 26, 79, 80}, wire : Wires],
    VsaHandles <- [vendor : {9}, vtype : {1, 2}, wire : Wires],
    TlvHandles <- [parent : {40}, child : {1, 2}, wire : Wires],
    VsaTlvHandles <- [vendor : {9}, parent : {2}, child : {1}, wire : Wires], MaxCalls <- 2
ASSUME Walk!WireAssumption /\ Walk!AttributesAssumption

\* Values of up to 6 octets in a packet with room for 14 besides the tag.
Build == INSTANCE PacketBuilder WITH
    Base <- 256, TagMax <- 31, NotText <- {}, HeaderLen <- 4, MaxPacket <- 21, PenLen <- 1,
    TagLen <- 1, MaxValue <- 6, Block <- 2, SaltLen <- 1, MaxHidden <- 1, MaxPassword <- 3,
    MsVendor <- 11, Starts <- Starts, RawTypes <- {1, 80},
    RawValues <- {<<>>, Fill(5, 1), <<80, 3, 0>>, Fill(5, 6), Fill(5, 7)},
    VsaValues <- {Fill(5, 1), Fill(5, 3), Fill(5, 4)}, KidLists <- KidLists,
    EapPackets <- {<<>>, Fill(5, 7), Fill(5, 13)}, Hidden <- {<<>>, Fill(5, 1), Fill(5, 2)},
    Passwords <- {<<>>, Fill(5, 3), Fill(5, 4)},
    Salts <- {<<128>>, <<129>>, <<130>>, <<131>>}, MaxOps <- 2, kind <- builder
ASSUME Build!WireAssumption /\ Build!AttributesAssumption /\ Build!PacketsAssumption

\* The dissector, over the same octets as the iterator.
Dissection == INSTANCE Dissect WITH
    Base <- 256, TagMax <- 31, NotText <- {0}, HeaderLen <- 4, MaxPacket <- 24, PenLen <- 1,
    TagLen <- 1, Datagrams <- Shown, Attr <- Attr, Vsa <- Vsa, TlvChild <- TlvChild,
    datagram <- dissected, phase <- pace
ASSUME Dissection!WireAssumption /\ Dissection!AttributesAssumption

\* A Length field of one octet, so that a packet can be too long for it;
\* attributes of up to 90 octets, so that a long packet takes three.
Eap == INSTANCE EapWire WITH
    Base <- 256, TagMax <- 31, NotText <- {}, HeaderLen <- 4, MaxPacket <- 400, PenLen <- 1,
    TagLen <- 1, MaxValue <- 90, Block <- 2, SaltLen <- 1, MaxHidden <- 1, MaxPassword <- 3,
    MsVendor <- 11, MaxOthers <- 2, EapLenLen <- 1, TypeDatas <- TypeDatas,
    Between <- {<<1, 3, 5>>, <<80, 3, 0>>, <<26, 2>>}, Strays <- Strays
ASSUME Eap!WireAssumption /\ Eap!AttributesAssumption /\ Eap!PacketsAssumption

\* Blocks of two octets, a User-Password of at most two of them.
Cred == INSTANCE Credentials WITH
    Block <- 2, MaxUser <- 4, MaxTunnel <- 6, HighBit <- 2, Passwords <- Passwords,
    Expected <- Kept, Names <- UserNamed, Secrets <- {s1, s2}, Secret <- s1,
    MaxAttributes <- [pap |-> 2, chap |-> 3, v1 |-> 3, v2 |-> 4, mppe |-> 1]
ASSUME Cred!CryptAssumption

\* Families of two and three bits.
Stores == INSTANCE ClientStores WITH
    Width <- [v4 |-> 2, v6 |-> 3], Flags <- {<<TRUE, TRUE>>, <<FALSE, FALSE>>},
    IdModulus <- 3, MaxClients <- 2, MaxEntries <- 2, kind <- store
ASSUME Stores!ClientStoresAssumption

\* Every packet and every client.
Path == INSTANCE PacketPath WITH
    Packets <- AllPackets, Clients <- AllClients
ASSUME Path!PacketPathAssumption

\* Two handlers, wired by up to two calls.
Router == INSTANCE Dispatch WITH
    Handlers <- {h1, h2}, LivePackets <- LivePackets, LiveClients <- LiveClients,
    LivePolicies <- {"Enabled"}, LiveAttributes <- LiveAttributes, Values <- {1, 4},
    Ids <- {7}, MaxSets <- 2, MaxCalls <- 2, phase <- mode, asked <- wanted
ASSUME Router!DispatchAssumption

\* Two calls to one NAS with one identifier, so that it is used again.
Coa == INSTANCE DynAuth WITH
    Calls <- {d1, d2}, Peers <- {p1}, IdCount <- 1, Limit <- 2, Bodies <- {b1},
    CauseValues <- {404, 9999}, MaxRetries <- 1, MaxSends <- 2, MaxForgotten <- 1,
    packet <- sealed, result <- told
ASSUME Coa!DynAuthAssumption

\* The calls of the originator are interchangeable.
Symmetry == Permutations({d1, d2})

typedVars == <<kind, value, octets, view, again, step>>
typedIdle == /\ kind = None /\ value = None /\ octets = None /\ view = None /\ again = None
             /\ step = None
walkVars == <<datagram, it, yielded, errors, idle>>
walkIdle == /\ datagram = None /\ it = None /\ yielded = None /\ errors = None
            /\ idle = None
buildVars == <<builder, buf, ma, password, asked, eap, emptied, last, ops, phase, wire>>
buildIdle == /\ builder = None /\ buf = None /\ ma = None /\ password = None /\ asked = None
             /\ eap = None /\ emptied = None /\ last = None /\ ops = None /\ phase = None
             /\ wire = None
dissectVars == <<dissected, stack, lines, pace>>
dissectIdle == /\ dissected = None /\ stack = None /\ lines = None /\ pace = None
eapVars == <<wrote, out, attrs, todo, others, got>>
eapIdle == /\ wrote = None /\ out = None /\ attrs = None /\ todo = None /\ others = None
           /\ got = None
credentialsVars == <<scheme, attributes>>
credentialsIdle == /\ scheme = None /\ attributes = None
storesVars == <<next, clients, entries, store, built>>
storesIdle == /\ next = None /\ clients = None /\ entries = None /\ store = None
              /\ built = None
pathVars == <<packet, client, role, policy, transport, stage, outcome>>
pathIdle == /\ packet = None /\ client = None /\ role = None /\ policy = None
            /\ transport = None /\ stage = None /\ outcome = None
dispatchVars == <<slots, sets, mode, mock, wanted, input, request, handler, result>>
dispatchIdle == /\ slots = None /\ sets = None /\ mode = None /\ mock = None
                /\ wanted = None /\ input = None /\ request = None /\ handler = None
                /\ result = None
coaVars == <<pc, peer, sealed, attempt, mailbox, told, reg, sent, replies, started, cache,
             decided, runs, forgotten>>
coaIdle == /\ pc = None /\ peer = None /\ sealed = None /\ attempt = None /\ mailbox = None
           /\ told = None /\ reg = None /\ sent = None /\ replies = None /\ started = None
           /\ cache = None /\ decided = None /\ runs = None /\ forgotten = None
-----------------------------------------------------------------------------
Init ==
    /\ part \in Parts
    /\ IF part = "typed" THEN Typed!Init ELSE typedIdle
    /\ IF part = "walk" THEN Walk!Init ELSE walkIdle
    /\ IF part = "build" THEN Build!Init ELSE buildIdle
    /\ IF part = "dissect" THEN Dissection!Init ELSE dissectIdle
    /\ IF part = "eap" THEN Eap!Init ELSE eapIdle
    /\ IF part = "credentials" THEN Cred!Init ELSE credentialsIdle
    /\ IF part = "stores" THEN Stores!Init ELSE storesIdle
    /\ IF part = "path" THEN Path!Init ELSE pathIdle
    /\ IF part = "dispatch" THEN Router!Init ELSE dispatchIdle
    /\ IF part = "coa" THEN Coa!Init ELSE coaIdle

TypedOthers == UNCHANGED <<part, walkVars, buildVars, dissectVars, eapVars, credentialsVars,
                           storesVars, pathVars, dispatchVars, coaVars>>
TypedNext == part = "typed" /\ Typed!Next /\ TypedOthers
WalkOthers == UNCHANGED <<part, typedVars, buildVars, dissectVars, eapVars, credentialsVars,
                          storesVars, pathVars, dispatchVars, coaVars>>
WalkNext == part = "walk" /\ Walk!Next /\ WalkOthers
BuildOthers == UNCHANGED <<part, typedVars, walkVars, dissectVars, eapVars, credentialsVars,
                           storesVars, pathVars, dispatchVars, coaVars>>
BuildNext == part = "build" /\ Build!Next /\ BuildOthers
DissectionOthers == UNCHANGED <<part, typedVars, walkVars, buildVars, eapVars,
                                credentialsVars, storesVars, pathVars, dispatchVars, coaVars>>
DissectionNext == part = "dissect" /\ Dissection!Next /\ DissectionOthers
EapOthers == UNCHANGED <<part, typedVars, walkVars, buildVars, dissectVars, credentialsVars,
                         storesVars, pathVars, dispatchVars, coaVars>>
EapNext == part = "eap" /\ Eap!Next /\ EapOthers
CredOthers == UNCHANGED <<part, typedVars, walkVars, buildVars, dissectVars, eapVars,
                          storesVars, pathVars, dispatchVars, coaVars>>
CredNext == part = "credentials" /\ Cred!Arrive /\ CredOthers
StoresOthers == UNCHANGED <<part, typedVars, walkVars, buildVars, dissectVars, eapVars,
                            credentialsVars, pathVars, dispatchVars, coaVars>>
StoresNext == part = "stores" /\ Stores!Next /\ StoresOthers
PathOthers == UNCHANGED <<part, typedVars, walkVars, buildVars, dissectVars, eapVars,
                          credentialsVars, storesVars, dispatchVars, coaVars>>
PathNext == part = "path" /\ Path!Next /\ PathOthers
RouterOthers == UNCHANGED <<part, typedVars, walkVars, buildVars, dissectVars, eapVars,
                            credentialsVars, storesVars, pathVars, coaVars>>
RouterNext == part = "dispatch" /\ Router!Next /\ RouterOthers
CoaOthers == UNCHANGED <<part, typedVars, walkVars, buildVars, dissectVars, eapVars,
                         credentialsVars, storesVars, pathVars, dispatchVars>>
CoaNext == part = "coa" /\ Coa!Next /\ CoaOthers

Next == TypedNext \/ WalkNext \/ BuildNext \/ DissectionNext \/ EapNext \/ CredNext \/ StoresNext \/ PathNext \/ RouterNext \/ CoaNext

vars == <<part, typedVars, walkVars, buildVars, dissectVars, eapVars, credentialsVars,
           storesVars, pathVars, dispatchVars, coaVars>>

Spec == Init /\ [][Next]_vars

-----------------------------------------------------------------------------
\* Nothing reaches the handler, the responder or the reply cache without
\* integrity, unless the operator waived it; the handler sees requests of its
\* listener's role only; while the built-in responder is on, a probe is
\* answered exactly when it is sound, its client may probe and the callback
\* does not veto it. Behind the pipeline a request reaches the sub-handler
\* that was wired for its code, or the fallback, the status read from an
\* accounting request is the first of the packet, and a test's request is
\* the one it asked for.
RightlyDispatched ==
    /\ part = "path" => /\ Path!OnlyProvenDispatched
                        /\ Path!HandlerSeesItsRole
                        /\ Path!ProbesAnswered
    /\ part = "dispatch" => Router!RightHandler /\ Router!StatusIsFirst /\ Router!MockIsLive

\* What one side writes the other reads: a value under its handle, the
\* attributes of a packet in their order, an EAP packet however it was split;
\* a decoded view is written back as the octets it came from.
CodecRoundTrip ==
    /\ part = "typed" => Typed!RoundTrip /\ Typed!Canonical
    /\ part = "build" => Build!TypeOK /\ Build!ReadsBack
    /\ part = "eap" => Eap!EapThrough /\ Eap!ParsedIsPrefix

\* As documented for Reply::without_message_authenticator: opting out costs the
\* packet its placeholder and nothing else.
OptOutKeepsAttributes == part = "build" => Build!OptOutKeepsAttributes

\* The iterator cuts the attribute region into slots, loses no octet and
\* reports a malformed slot once; every reader that walks the octets for
\* itself, the dissector too, sees the same slots and takes the same values
\* for good.
ReadersAgree ==
    /\ part = "walk" => /\ Walk!WalkExact
                        /\ Walk!Fused
                        /\ Walk!ReadersAgree
                        /\ Walk!FoundIsPresent
                        /\ Walk!RealmSplits
    /\ part = "dissect" => Dissection!Tiles /\ Dissection!AgreesWithDecode

\* What one side seals the other accepts, and what was altered after that it
\* refuses; a password is hidden under the authenticator that its packet
\* carries, and no two hidden values of a packet share a salt.
SealsExact ==
    part = "build" => /\ Build!SealedVerifies
                      /\ Build!AlteredRefused
                      /\ Build!PasswordReadable
                      /\ Build!SaltsDiffer

\* PAP, CHAP and MS-CHAPv1 accept exactly the users who know the expected
\* password and answer this request's challenge; with MS-CHAPv2 the server
\* accepts the peer exactly when the peer accepts the server; a hidden key is
\* read back octet for octet or refused.
CredentialsExact ==
    part = "credentials" => /\ Cred!PapExact
                            /\ Cred!ChapExact
                            /\ Cred!V1Exact
                            /\ Cred!V2Mutual
                            /\ Cred!MppeReadsBack

\* An entry covers exactly the addresses that share the leading bits of the
\* one it was made from; the more specific entries first give every peer the
\* client of its longest prefix; a peer that is admitted to a handshake is
\* one the lookup after it has a client for, the one it has over UDP.
StoresAgree ==
    part = "stores" => /\ Stores!CoversItsPrefix
                       /\ Stores!LongestPrefixWins
                       /\ Stores!AdmittedHaveClients

\* What a caller of the CoA originator is told is what the handler of the NAS
\* decided on the octets that it sent, the handler runs once for
\* retransmissions and copies for as long as its reply is remembered, and the
\* originator accepts what the reply helpers make.
CoaExact == part = "coa" => Coa!CoaExact

\* An operation of a builder that fails leaves the packet as it was, or with
\* whole attributes of its own behind what was there, and every step of a dissection closes a cursor or moves one on, so that it
\* ends.
StepsSafe ==
    [][/\ part = "build" => Build!FailureLeavesNothing
       /\ part = "dissect" => Dissection!CursorsMove]_vars
=============================================================================
