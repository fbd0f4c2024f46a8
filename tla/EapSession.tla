----------------------------- MODULE EapSession ------------------------------
(***************************************************************************)
(* EAP conversations across independent RADIUS requests: the session       *)
(* store (session.rs), the single-method handler (handler.rs) and the      *)
(* router that negotiates a method (router.rs).                            *)
(*                                                                         *)
(* A round is one call of the handler.  Between two rounds the session is  *)
(* in the store under a State value that is minted for that one challenge; *)
(* during a round it belongs to the round's future, which may be dropped   *)
(* at any of its awaits.  A method is what the handler knows of it: its    *)
(* type, the identity it was told, and the outcomes of start and step.     *)
(* State values are 1, 2, ... in the order they are minted (they are       *)
(* random in the code: fresh, and without order).                          *)
(***************************************************************************)
EXTENDS Integers, Sequences, FiniteSets, Functions, FiniteSetsExt

CONSTANTS
    Rounds,        \* calls of the handler that may run at the same time
    Types,         \* EAP types a Nak may name
    Registered,    \* types of EapRouter::methods
    Preferred,     \* EapRouter::preferred
    Names,         \* identities
    Wants,         \* lists of desired types in a Nak
    IdCount,       \* values of the EAP identifier (256 in the code)
    Capacity,      \* hard session limit
    IdleTimeout,
    EvictBatch,    \* expirations handled per insert (64 in the code)
    MaxTime,       \* bound on the clock
    MaxTokens,     \* bound on State values
    MaxConvs,      \* bound on conversations
    None

\* EapRouterBuilder::build and with_limits refuse anything else; identifiers
\* are octets.
ASSUME EapSessionAssumption ==
    /\ Registered \subseteq Types /\ Preferred \in Registered
    /\ Wants \subseteq Seq(Types)
    /\ IsFiniteSet(Registered)
    /\ IdCount \in Nat \ 0 .. 2 /\ Capacity \in Nat \ {0}
    /\ IdleTimeout \in Nat /\ EvictBatch \in Nat \ {0}
    /\ MaxTime \in Nat /\ MaxTokens \in Nat /\ MaxConvs \in Nat
    /\ None \notin Names \cup Types

Tokens == 1 .. MaxTokens
Convs  == 1 .. MaxConvs
EapIds == 0 .. IdCount - 1

\* Session, with what NewSession says of its fields.
Sessions ==
    [conv : Convs, typ : Registered, told : Names \cup {None}, next : EapIds,
     name : Names \cup {None}, tried : Seq(Registered), n : Nat]

ASSUME EapOptionAssumption == None \notin Sessions /\ "unused" \notin Names \cup {None}

VARIABLES
    multi,       \* MultiEapHandler, or EapHandler with the preferred type
    entries,     \* SessionTable::entries
    expirations, \* SessionTable::expirations
    round,       \* the session a call holds, and how far it has come
    now,
    \* History:
    minted,      \* the last State value given out
    issued,      \* the challenge that carried a State value
    who,         \* the identity a conversation began with
    over         \* conversations that have ended, with a reply or without

vars == <<multi, entries, expirations, round, now, minted, issued, who, over>>

-----------------------------------------------------------------------------
\* Session::new: the record around a new method.  conv and n are
\* history: the conversation and its requests so far.
NewSession(c, t, name) ==
    [conv |-> c, typ |-> t, told |-> name, next |-> 1, name |-> name,
     tried |-> IF multi THEN <<t>> ELSE <<>>, n |-> 0]

NoEntry == [sess |-> None, at |-> 0]
Idle == [pc |-> "idle", sess |-> None, id |-> 0]
NotIssued == [conv |-> 0, n |-> 0, id |-> 0]

Stored == {t \in Tokens : entries[t] # NoEntry}
Started == {c \in Convs : who[c] # "unused"}

Init ==
    /\ multi \in BOOLEAN
    /\ entries = [t \in Tokens |-> NoEntry]
    /\ expirations = {}
    /\ round = [r \in Rounds |-> Idle]
    /\ now = 0
    /\ minted = 0
    /\ issued = [t \in Tokens |-> NotIssued]
    /\ who = [c \in Convs |-> "unused"]
    /\ over = {}

-----------------------------------------------------------------------------
(* The session table. *)

\* Mutant of TakeOut: take hands out a copy.
TakeOutKeeps(t) == UNCHANGED <<entries, expirations>>

\* SessionTable::remove, the store's take.
TakeOut(t) ==
    /\ entries' = [entries EXCEPT ![t] = NoEntry]
    /\ expirations' = expirations \ {<<entries[t].at, t>>}

\* The first elements of a set of expirations, in the order of their deadlines;
\* ties are ordered by State, which is random.
Heads(exp, k) ==
    {D \in kSubset(k, exp) : \A d \in D, e \in exp \ D : d[1] <= e[1]}

Due == {e \in expirations : e[1] <= now}

\* Mutant of Evictions: any entry makes room.
EvictionsAny ==
    IF Cardinality(expirations) >= Capacity THEN kSubset(1, expirations) ELSE {{}}

\* evict_first: when D is gone, the first entry goes too if the table is still
\* full.
MakeRoom(D) ==
    LET rest == expirations \ D
    IN IF Cardinality(rest) >= Capacity THEN {D \cup F : F \in Heads(rest, 1)} ELSE {D}

\* evict_expired and evict_first as insert calls them: a batch of expired
\* entries goes first.
Evictions ==
    LET batch == IF Cardinality(Due) < EvictBatch THEN Cardinality(Due) ELSE EvictBatch
    IN UNION {MakeRoom(D) : D \in Heads(expirations, batch)}

\* InMemorySessionStore::insert
Put(t, s) ==
    \E gone \in Evictions :
        LET lost == {e[2] : e \in gone}
        IN /\ entries' = [u \in Tokens |->
                            IF u = t THEN [sess |-> s, at |-> now + IdleTimeout]
                            ELSE IF u \in lost THEN NoEntry ELSE entries[u]]
           /\ expirations' = (expirations \ gone) \cup {<<now + IdleTimeout, t>>}

-----------------------------------------------------------------------------
(* A round. *)

Run(r, s) == round' = [round EXCEPT ![r] = [pc |-> "method", sess |-> s, id |-> 0]]

End(r) == round' = [round EXCEPT ![r] = Idle]

Conclude(c) == over' = over \cup {c}

\* resolve_peer_identity: the Identity response, or else the User-Name.
ResolvePeerIdentity(identity, userName) ==
    IF identity = None THEN userName ELSE identity

\* An EAP-Response/Identity starts a conversation with the preferred type,
\* whatever State the request carries.
IdentityRound(r) ==
    /\ round[r].pc = "idle"
    /\ \E c \in Convs \ Started, identity, userName \in Names \cup {None} :
        /\ \A d \in Convs : d < c => d \in Started
        /\ LET name == ResolvePeerIdentity(identity, userName)
           IN /\ who' = [who EXCEPT ![c] = name]
              /\ Run(r, NewSession(c, Preferred, name))
    /\ UNCHANGED <<multi, entries, expirations, now, minted, issued, over>>

\* Positions of the desired types that are registered and were not offered
\* before.
Candidates(s, want) ==
    {i \in DOMAIN want : want[i] \in Registered /\ want[i] \notin Range(s.tried)}

\* Mutant of Pivot: the new method is not told the identity.
PivotUntold(s, t) == [s EXCEPT !.typ = t, !.told = None, !.tried = Append(@, t)]

\* The session moves to a method that the Nak asked for; identity, identifier
\* and the list of offered types stay.
Pivot(s, t) == [s EXCEPT !.typ = t, !.told = s.name, !.tried = Append(@, t)]

\* A response of another type takes the session out of the store: one that
\* has expired is dropped, a wrong type or a fruitless Nak ends the
\* conversation, otherwise the method runs.
ContinuingRound(r) ==
    /\ round[r].pc = "idle"
    /\ \E t \in Stored :
        LET s == entries[t].sess
            live == entries[t].at > now
        IN /\ TakeOut(t)
           /\ \/ /\ ~live
                 /\ Conclude(s.conv)
                 /\ UNCHANGED round
              \/ /\ live /\ Run(r, s)
                 /\ UNCHANGED over
              \/ \E want \in Wants :
                 /\ live /\ multi
                 /\ LET desired == Candidates(s, want)
                    IN \/ desired = {} /\ Conclude(s.conv) /\ UNCHANGED round
                       \/ \E i \in desired :
                            /\ \A j \in desired : i <= j
                            /\ Run(r, Pivot(s, want[i]))
                            /\ UNCHANGED over
              \/ /\ live \* a type that is neither the method's nor a Nak
                 /\ Conclude(s.conv)
                 /\ UNCHANGED round
    /\ UNCHANGED <<multi, now, minted, issued, who>>

\* Session::allocate_eap_id, once more if it gave the identifier of the
\* response that is being answered.
Allocate(s, peer) ==
    LET id == s.next % IdCount
    IN IF id = peer THEN (id + 1) % IdCount ELSE id

\* commit_outcome, up to the await of the store's lock.  peer is the identifier
\* of the response, which nothing else looks at.
MethodContinues(r) ==
    /\ round[r].pc = "method"
    /\ \E peer \in EapIds :
        LET s == round[r].sess
            id == Allocate(s, peer)
        IN round' = [round EXCEPT ![r] =
            [pc |-> "insert", id |-> id,
             sess |-> [s EXCEPT !.next = (id + 1) % IdCount, !.n = @ + 1]]]
    /\ UNCHANGED <<multi, entries, expirations, now, minted, issued, who, over>>

\* store.insert under a fresh State, and the challenge that carries it.
Commit(r) ==
    /\ round[r].pc = "insert"
    /\ minted < MaxTokens
    /\ LET t == minted + 1
           s == round[r].sess
       IN /\ Put(t, s)
          /\ minted' = t
          /\ issued' = [issued EXCEPT ![t] = [conv |-> s.conv, n |-> s.n, id |-> round[r].id]]
    /\ End(r)
    /\ UNCHANGED <<multi, now, who, over>>

\* MethodOutcome::Success: the identity is the one the method authenticated.
MethodSucceeds(r) ==
    /\ round[r].pc = "method"
    /\ round' = [round EXCEPT ![r].pc = "accept"]
    /\ UNCHANGED <<multi, entries, expirations, now, minted, issued, who, over>>

\* MethodOutcome::Failure, or an error of the method, which is a silent drop.
MethodFails(r) ==
    /\ round[r].pc = "method"
    /\ Conclude(round[r].sess.conv)
    /\ End(r)
    /\ UNCHANGED <<multi, entries, expirations, now, minted, issued, who>>

\* render_dispatch of an accept: the decorator may refuse.
Accept(r) ==
    /\ round[r].pc = "accept"
    /\ Conclude(round[r].sess.conv)
    /\ End(r)
    /\ UNCHANGED <<multi, entries, expirations, now, minted, issued, who>>

\* The handler's future is dropped at an await, with the session it holds.
Cancel(r) ==
    /\ round[r].pc # "idle"
    /\ Conclude(round[r].sess.conv)
    /\ End(r)
    /\ UNCHANGED <<multi, entries, expirations, now, minted, issued, who>>

Tick ==
    /\ now < MaxTime
    /\ now' = now + 1
    /\ UNCHANGED <<multi, entries, expirations, round, minted, issued, who, over>>

RoundStep(r) ==
    \/ IdentityRound(r) \/ ContinuingRound(r)
    \/ MethodContinues(r) \/ Commit(r) \/ MethodSucceeds(r) \/ MethodFails(r)
    \/ Accept(r) \/ Cancel(r)

Next == Tick \/ \E r \in Rounds : RoundStep(r)

Spec == Init /\ [][Next]_vars

-----------------------------------------------------------------------------
(* Properties. *)

\* Types, and the shape of a round by how far it has come.
TypeOK ==
    /\ multi \in BOOLEAN
    /\ entries \in [Tokens -> {NoEntry} \cup [sess : Sessions, at : Nat]]
    /\ expirations \subseteq Nat \X Tokens
    /\ round \in [Rounds -> {Idle} \cup
            [pc : {"method", "insert", "accept"}, sess : Sessions, id : EapIds]]
    /\ now \in 0 .. MaxTime
    /\ minted \in 0 .. MaxTokens
    /\ issued \in [Tokens -> [conv : 0 .. MaxConvs, n : Nat, id : EapIds]]
    /\ who \in [Convs -> Names \cup {None, "unused"}]
    /\ over \subseteq Started

\* The places that hold a conversation's session.
Holders(c) ==
    {<<"store", t>> : t \in {t \in Stored : entries[t].sess.conv = c}}
    \cup {<<"round", r>> : r \in {r \in Rounds : round[r].pc # "idle" /\ round[r].sess.conv = c}}

\* A session is in at most one place, and nowhere once its conversation is
\* over: take moves it out of the store, so that a duplicate of a response, or
\* one that arrives while the first is being handled, finds nothing to resume
\* (dispatch, take).
OneOwner ==
    \A c \in Convs :
        /\ Cardinality(Holders(c)) <= 1
        /\ c \in over => Holders(c) = {}

\* A conversation never forks: no two challenges are the same step of it,
\* and successive requests carry different EAP identifiers, also across a Nak
\* and the wrap of the counter (commit_outcome, allocate_eap_id).
Linear ==
    \A t, u \in 1 .. minted :
        t # u /\ issued[t].conv = issued[u].conv =>
            /\ issued[t].n # issued[u].n
            /\ issued[u].n = issued[t].n + 1 => issued[u].id # issued[t].id

\* The method that runs for a conversation was told the identity that the
\* conversation began with, also after a Nak (notify_peer_identity).
BoundToIdentity ==
    /\ \A t \in Stored : entries[t].sess.told = who[entries[t].sess.conv]
    /\ \A r \in Rounds : round[r].pc # "idle" => round[r].sess.told = who[round[r].sess.conv]

\* No type is offered twice in a conversation, so that a peer that answers
\* every offer with a Nak comes to an end (tried_types).
OfferedOnce ==
    \A r \in Rounds : round[r].pc # "idle" =>
        /\ IsInjective(round[r].sess.tried)
        /\ Len(round[r].sess.tried) <= Cardinality(Registered)

\* The table respects its limit and its index is exact: an entry that is not
\* in the index could never be evicted (insert, remove, evict_first).
TableExact ==
    /\ expirations = {<<entries[t].at, t>> : t \in Stored}
    /\ Cardinality(Stored) <= Capacity

\* An unexpired session leaves the store only into a round that resumes it,
\* or as the first to expire of a full table (insert, evict_first).
OnlyEarliestEvicted ==
    [][\A t \in Stored :
        t \notin Stored' /\ entries[t].at > now =>
            \/ \E r \in Rounds : round'[r].sess # None /\ round'[r].sess.conv = entries[t].sess.conv
            \/ entries[t].sess.conv \in over'
            \/ /\ Cardinality(Stored) >= Capacity
               /\ \A u \in Stored \cap Stored' : entries[t].at <= entries[u].at]_vars

\* A conversation is in one place at a time and never forks, over a table that
\* keeps its limit and its index.
SessionsExact == TypeOK /\ TableExact /\ OneOwner /\ Linear

\* Whatever the peer asks for, its methods are bound to its identity, and the
\* negotiation comes to an end.
NegotiationSound == BoundToIdentity /\ OfferedOnce
=============================================================================
