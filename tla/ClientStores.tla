---------------------------- MODULE ClientStores -----------------------------
(***************************************************************************)
(* Client records (server/client.rs) and the stores that map a peer to one *)
(* (server/store.rs): StaticClients, built once and searched in order, and *)
(* a store that keeps the defaults of the ClientStore trait for RadSec.    *)
(*                                                                         *)
(* An address is a family and a number of Width[family] bits.              *)
(***************************************************************************)
EXTENDS Integers, Sequences

CONSTANTS None,
          Width,       \* bits of an address of each family (32 and 128)
          IdModulus,   \* values of the counter of identifiers (2^64)
          Flags,       \* <<require, status>> that records are made with
          MaxClients, MaxEntries   \* bounds of the instance

\* That powers of 2 are positive is said because the provers only know that
\* they are integers.
ClientStoresAssumption ==
    /\ \A f \in DOMAIN Width : Width[f] \in Nat \ {0} /\ \A k \in 0 .. Width[f] : 2 ^ k > 0
    /\ IdModulus \in Nat /\ IdModulus > 1
    /\ Flags \subseteq BOOLEAN \X BOOLEAN
    /\ None \notin Nat
    /\ None \notin [id : 0 .. IdModulus - 1, require_message_authenticator : BOOLEAN,
                    status_server_enabled : BOOLEAN]

VARIABLES next,     \* ClientId's counter
          clients,  \* the records, in the order they were made
          entries,  \* of the builder: [cidr, given, client]; given is a ghost
          kind,     \* the implementation of the store
          built

vars == <<next, clients, entries, kind, built>>

Families == DOMAIN Width
Addresses == UNION {[family : {f}, bits : 0 .. 2 ^ Width[f] - 1] : f \in Families}

Init == /\ next = 1 /\ clients = <<>>
        /\ entries = <<>> /\ kind \in {"static", "udp_only"} /\ built = FALSE
-----------------------------------------------------------------------------
(* Client *)

\* ClientId::new: fetch_add wraps, and zero is refused with a panic.
FetchAdd(n) == (n + 1) % IdModulus
NewClient(require, status) ==
    /\ ~built /\ Len(clients) < MaxClients
    /\ next' = FetchAdd(next)
    /\ clients' = IF next = 0 THEN clients
                  ELSE Append(clients, [id |-> next, require_message_authenticator |-> require,
                                        status_server_enabled |-> status])
    /\ UNCHANGED <<entries, kind, built>>
-----------------------------------------------------------------------------
(* IpCidr *)

\* MAX << k: a shift by the whole width is not a shift.
Ones(w, k) == 2 ^ w - 2 ^ (k % w)

\* a & (MAX << k)
And(w, a, k) == IF Ones(w, k) = 2 ^ w - 1 THEN a ELSE a - (a % (2 ^ k))

\* mask_v4, mask_v6
Mask(a, prefix) ==
    IF prefix = 0 THEN [a EXCEPT !.bits = 0]
    ELSE [a EXCEPT !.bits = And(Width[a.family], @, Width[a.family] - prefix)]

\* IpCidr::new, and None for PrefixOutOfRange.
NewCidr(a, prefix) ==
    IF prefix > Width[a.family] THEN None
    ELSE [network |-> Mask(a, prefix), prefix_len |-> prefix]
Host(a) == NewCidr(a, Width[a.family])

Contains(cidr, a) ==
    /\ cidr.network.family = a.family
    /\ Mask(a, cidr.prefix_len) = cidr.network
-----------------------------------------------------------------------------
(* StaticClients *)

\* StaticClientsBuilder::add, with a prefix that may be refused.
Add(a, prefix, c) ==
    /\ ~built /\ Len(entries) < MaxEntries
    /\ LET cidr == IF prefix = Width[a.family] THEN Host(a) ELSE NewCidr(a, prefix)
       IN entries' = IF cidr = None THEN entries
                     ELSE Append(entries, [cidr |-> cidr, given |-> a, client |-> c])
    /\ UNCHANGED <<next, clients, kind, built>>

Build == ~built /\ built' = TRUE /\ UNCHANGED <<next, clients, entries, kind>>

Matching(a) == {i \in DOMAIN entries : Contains(entries[i].cidr, a)}

\* The first entry that matches.
Find(a) ==
    IF Matching(a) = {} THEN None ELSE CHOOSE i \in Matching(a) : \A j \in Matching(a) : i <= j

\* lookup_udp
LookupUdp(a) == IF Find(a) = None THEN None ELSE entries[Find(a)].client

\* Mutant of AdmitRadsec: whoever has an address of the family of an entry.
AdmitRadsecFamily(a) ==
    kind = "static" /\ \E i \in DOMAIN entries : entries[i].cidr.network.family = a.family

\* admit_radsec: the trait's default denies.
AdmitRadsec(a) == kind = "static" /\ \E i \in DOMAIN entries : Contains(entries[i].cidr, a)

\* lookup_radsec_by_cert: the trait's default knows nobody.
LookupRadsecByCert(a) == IF kind = "static" THEN LookupUdp(a) ELSE None

Next == \/ \E f \in Flags : NewClient(f[1], f[2])
        \/ \E a \in Addresses, c \in DOMAIN clients :
              \E p \in 0 .. Width[a.family] + 1 : Add(a, p, clients[c])
        \/ Build
Spec == Init /\ [][Next]_vars
-----------------------------------------------------------------------------
(* Properties.                                                             *)

\* The leading bits of an address.
Lead(a, n) == a.bits \div 2 ^ (Width[a.family] - n)

\* An entry covers exactly the addresses that share the leading bits of the
\* address it was made from, for prefixes of no bits and of all bits too: the
\* mask of a shift by the whole width is never used.
CoversItsPrefix ==
    \A i \in DOMAIN entries : \A a \in Addresses :
        LET e == entries[i]
        IN Contains(e.cidr, a) <=> /\ a.family = e.given.family
                                   /\ Lead(a, e.cidr.prefix_len) = Lead(e.given, e.cidr.prefix_len)

\* Entries that were added as the documentation asks, the more specific ones
\* first, give every peer the client of its longest prefix.
SpecificFirst ==
    \A i, j \in DOMAIN entries : i < j => entries[i].cidr.prefix_len >= entries[j].cidr.prefix_len
LongestPrefixWins ==
    (built /\ SpecificFirst) => \A a \in Addresses :
        /\ (LookupUdp(a) = None) = (Matching(a) = {})
        /\ Find(a) # None => \A i \in Matching(a) :
              entries[i].cidr.prefix_len <= entries[Find(a)].cidr.prefix_len

\* A peer that is admitted to a handshake is one the store has a client for,
\* the one it has over UDP; nobody is let in only to be turned away.
AdmittedHaveClients ==
    built => \A a \in Addresses :
        AdmitRadsec(a) = (LookupRadsecByCert(a) # None)
        /\ (AdmitRadsec(a) => LookupRadsecByCert(a) = LookupUdp(a))
=============================================================================
