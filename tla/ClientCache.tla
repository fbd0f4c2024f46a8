----------------------------- MODULE ClientCache -----------------------------
(***************************************************************************)
(* CachedStore (server/cache.rs): a TTL, negative-cache and single-flight  *)
(* wrapper around a ClientStore, shared by every listener of the server.   *)
(*                                                                         *)
(* A lookup samples the clock, decides what to do under the state lock     *)
(* (CacheState::action) and then, outside the lock, returns a hit, waits   *)
(* on another lookup's broadcast channel, asks the backend directly, or    *)
(* resolves: asks the backend, stores the answer under the lock and        *)
(* broadcasts it.  Any of them can be dropped at an await, in which case   *)
(* PendingLookup::drop withdraws the pending slot.                         *)
(*                                                                         *)
(* A broadcast channel is named by the lookup that created it.  All of its *)
(* senders belong to that lookup or to the slot it put in the map, so a    *)
(* waiter learns of the end of the channel before the name is reused.      *)
(***************************************************************************)
EXTENDS Naturals, FiniteSets

CONSTANTS
    Lookups,     \* slots for concurrent lookup_udp futures
    Addrs,       \* peer IP addresses
    Capacity,    \* limit on resolved and pending slots
    PositiveTTL,
    NegativeTTL,
    EvictBudget, \* expired entries one action may evict (64 in the code)
    MaxTime,     \* bound: the clock stops here
    MaxVersion,  \* bound: changes the operator makes to one address
    None

ASSUME CacheAssumption ==
    /\ Capacity \in Nat \ {0}
    /\ PositiveTTL \in Nat /\ NegativeTTL \in Nat
    /\ EvictBudget \in Nat
    /\ MaxTime \in Nat /\ MaxVersion \in Nat
    /\ None \notin Lookups \cup Addrs \cup Nat

VARIABLES
    pc,      \* where each lookup is
    addr,    \* the address it is for
    sampled, \* the instant it took before the lock: now, later expires_at
    value,   \* what it got: the backend's version, or None
    chan,    \* the lookup whose channel it subscribed to
    cache,   \* CacheState: the slots and their deadline index
    backend, \* per address, the version of the inner store's answer
    floor,   \* per address, the version the last effective invalidation saw
    since,   \* per lookup, the floor when it began
    now

lookupVars == <<pc, addr, sampled, value, chan, since>>
vars == <<lookupVars, cache, backend, floor, now>>

(* The backend answers an address with None in every odd version: an       *)
(* operator who changes it removes and restores the client in turn.        *)
Positive(v) == v % 2 = 0
TTL(v) == IF Positive(v) THEN PositiveTTL ELSE NegativeTTL

Free == [tag |-> "free"]
Pending(l) == [tag |-> "pending", by |-> l]
Resolved(v, e) == [tag |-> "resolved", value |-> v, expires_at |-> e]

ResolverPC == {"resolving", "read", "storing"}
PC == ResolverPC \cup {"idle", "locking", "waiting", "direct", "sending",
                       "dropping", "closing", "returned"}

Slots == {Free} \cup {Pending(l) : l \in Lookups}
            \cup [tag : {"resolved"}, value : 0..MaxVersion, expires_at : Nat]

\* Types; only a lookup that waits is subscribed to a channel.
TypeOK ==
    /\ pc \in [Lookups -> PC]
    /\ addr \in [Lookups -> Addrs \cup {None}]
    /\ sampled \in [Lookups -> Nat]
    /\ value \in [Lookups -> 0..MaxVersion \cup {None}]
    /\ chan \in [Lookups -> Lookups \cup {None}]
    /\ since \in [Lookups -> 0..MaxVersion]
    /\ cache \in [slots : [Addrs -> Slots],
                  index : SUBSET [deadline : Nat, addr : Addrs]]
    /\ backend \in [Addrs -> 0..MaxVersion]
    /\ floor \in [Addrs -> 0..MaxVersion]
    /\ now \in Nat
    /\ \A l \in Lookups : (chan[l] # None) <=> (pc[l] = "waiting")

Init ==
    /\ pc = [l \in Lookups |-> "idle"]
    /\ addr = [l \in Lookups |-> None]
    /\ sampled = [l \in Lookups |-> 0]
    /\ value = [l \in Lookups |-> None]
    /\ chan = [l \in Lookups |-> None]
    /\ since = [l \in Lookups |-> 0]
    /\ cache = [slots |-> [a \in Addrs |-> Free], index |-> {}]
    /\ backend = [a \in Addrs |-> 0]
    /\ floor = [a \in Addrs |-> 0]
    /\ now = 0

-----------------------------------------------------------------------------
(* CacheState.                                                             *)

Occupied(c) == {a \in Addrs : c.slots[a] # Free}

Full(c) == Cardinality(Occupied(c)) >= Capacity

Clear(c, A) == [a \in Addrs |-> IF a \in A THEN Free ELSE c.slots[a]]

\* remove
Remove(c, a) ==
    [slots |-> Clear(c, {a}),
     index |-> IF c.slots[a].tag = "resolved"
               THEN c.index \ {[deadline |-> c.slots[a].expires_at, addr |-> a]}
               ELSE c.index]

\* Popping index entries removes their slots.
Pop(c, X) == [slots |-> Clear(c, {x.addr : x \in X}), index |-> c.index \ X]

\* evict_first: the possible results (ties are broken by address).
EvictFirst(c) ==
    IF c.index = {} THEN {c}
    ELSE {Pop(c, {x}) : x \in {x \in c.index : \A y \in c.index : x.deadline <= y.deadline}}

\* evict_expired
Due(c, t) == {x \in c.index : x.deadline <= t}

EvictExpired(c, t) ==
    {Pop(c, X) : X \in {Y \in SUBSET Due(c, t) :
        /\ Cardinality(Y) = IF Cardinality(Due(c, t)) < EvictBudget
                            THEN Cardinality(Due(c, t)) ELSE EvictBudget
        /\ \A x \in Y, y \in Due(c, t) \ Y : x.deadline <= y.deadline}}

\* The tail of action, once neither a hit nor a pending slot was found: make
\* room by evicting the earliest resolved entry.
MakeRoom(c) ==
    IF Full(c) THEN EvictFirst(c) ELSE {c}

-----------------------------------------------------------------------------
(* lookup_udp.                                                             *)

\* The call: it samples the clock before it takes the lock.
Begin(l, a) ==
    /\ pc[l] = "idle"
    /\ pc' = [pc EXCEPT ![l] = "locking"]
    /\ addr' = [addr EXCEPT ![l] = a]
    /\ sampled' = [sampled EXCEPT ![l] = now]
    /\ since' = [since EXCEPT ![l] = floor[a]]
    /\ UNCHANGED <<value, chan, cache, backend, floor, now>>

\* CacheState::action, under the lock, by its four outcomes.
Hit(l) ==
    /\ pc[l] = "locking"
    /\ \E c \in EvictExpired(cache, sampled[l]) :
        LET s == c.slots[addr[l]]
        IN /\ s.tag = "resolved" /\ s.expires_at > sampled[l]
           /\ cache' = c
           /\ value' = [value EXCEPT ![l] = s.value]
    /\ pc' = [pc EXCEPT ![l] = "returned"]
    /\ sampled' = [sampled EXCEPT ![l] = 0]
    /\ UNCHANGED <<addr, chan, since, backend, floor, now>>

Wait(l) ==
    /\ pc[l] = "locking"
    /\ \E c \in EvictExpired(cache, sampled[l]) :
        LET s == c.slots[addr[l]]
        IN /\ s.tag = "pending"
           /\ cache' = c
           /\ chan' = [chan EXCEPT ![l] = s.by]
    /\ pc' = [pc EXCEPT ![l] = "waiting"]
    /\ sampled' = [sampled EXCEPT ![l] = 0]
    /\ UNCHANGED <<addr, value, since, backend, floor, now>>

Miss(l) ==
    /\ pc[l] = "locking"
    /\ \E c \in EvictExpired(cache, sampled[l]) :
        LET s == c.slots[addr[l]]
        IN /\ s.tag = "free" \/ (s.tag = "resolved" /\ s.expires_at <= sampled[l])
           /\ \E d \in MakeRoom(Remove(c, addr[l])) :
                IF Full(d)
                THEN /\ cache' = d
                     /\ pc' = [pc EXCEPT ![l] = "direct"]
                ELSE /\ cache' = [d EXCEPT !.slots[addr[l]] = Pending(l)]
                     /\ pc' = [pc EXCEPT ![l] = "resolving"]
    /\ sampled' = [sampled EXCEPT ![l] = 0]
    /\ UNCHANGED <<addr, value, chan, since, backend, floor, now>>

\* The inner store reads its answer ...
BackendRead(l) ==
    /\ pc[l] \in {"direct", "resolving"}
    /\ value' = [value EXCEPT ![l] = backend[addr[l]]]
    /\ pc' = [pc EXCEPT ![l] = IF @ = "direct" THEN "returned" ELSE "read"]
    /\ UNCHANGED <<addr, sampled, chan, since, cache, backend, floor, now>>

\* ... and returns it to the resolver later; the deadline is computed before
\* the lock is taken.
Fetched(l) ==
    /\ pc[l] = "read"
    /\ sampled' = [sampled EXCEPT ![l] = now + TTL(value[l])]
    /\ pc' = [pc EXCEPT ![l] = "storing"]
    /\ UNCHANGED <<addr, value, chan, since, cache, backend, floor, now>>

StoreUnindexed(l) ==
    /\ pc[l] = "storing"
    /\ cache' = [cache EXCEPT !.slots[addr[l]] = Resolved(value[l], sampled[l])]
    /\ pc' = [pc EXCEPT ![l] = "sending"]
    /\ UNCHANGED <<addr, sampled, value, chan, since, backend, floor, now>>

Store(l) ==
    /\ pc[l] = "storing"
    /\ cache' = [slots |-> [cache.slots EXCEPT ![addr[l]] = Resolved(value[l], sampled[l])],
                 index |-> cache.index \cup {[deadline |-> sampled[l], addr |-> addr[l]]}]
    /\ pc' = [pc EXCEPT ![l] = "sending"]
    /\ UNCHANGED <<addr, sampled, value, chan, since, backend, floor, now>>

\* tx.send hands the value to every subscriber of the channel.
Broadcast(l) ==
    /\ pc[l] = "sending"
    /\ LET W == {w \in Lookups : chan[w] = l}
       IN /\ value' = [w \in Lookups |-> IF w \in W THEN value[l] ELSE value[w]]
          /\ chan' = [w \in Lookups |-> IF w \in W THEN None ELSE chan[w]]
          /\ pc' = [w \in Lookups |-> IF w = l THEN "dropping"
                                      ELSE IF w \in W THEN "returned" ELSE pc[w]]
    /\ UNCHANGED <<addr, sampled, since, cache, backend, floor, now>>

\* PendingLookup::drop, under the lock, on every way out of a resolver.
WithdrawAnyPending(l) ==
    /\ pc[l] = "dropping"
    /\ cache' = IF cache.slots[addr[l]].tag = "pending"
                THEN Remove(cache, addr[l]) ELSE cache
    /\ pc' = [pc EXCEPT ![l] = "closing"]
    /\ UNCHANGED <<addr, sampled, value, chan, since, backend, floor, now>>

Withdraw(l) ==
    /\ pc[l] = "dropping"
    /\ cache' = IF cache.slots[addr[l]] = Pending(l)
                THEN Remove(cache, addr[l]) ELSE cache
    /\ pc' = [pc EXCEPT ![l] = "closing"]
    /\ UNCHANGED <<addr, sampled, value, chan, since, backend, floor, now>>

\* The last sender goes: subscribers that got no value see the channel
\* closed and ask the backend themselves.
CloseUnheard(l) ==
    /\ pc[l] = "closing"
    /\ pc' = [pc EXCEPT ![l] = IF value[l] = None THEN "idle" ELSE "returned"]
    /\ addr' = [addr EXCEPT ![l] = IF value[l] = None THEN None ELSE @]
    /\ sampled' = [sampled EXCEPT ![l] = 0]
    /\ UNCHANGED <<value, chan, since, cache, backend, floor, now>>

Close(l) ==
    /\ pc[l] = "closing"
    /\ LET W == {w \in Lookups : chan[w] = l}
       IN /\ chan' = [w \in Lookups |-> IF w \in W THEN None ELSE chan[w]]
          /\ pc' = [w \in Lookups |->
                        IF w = l THEN IF value[l] = None THEN "idle" ELSE "returned"
                        ELSE IF w \in W THEN "direct" ELSE pc[w]]
    /\ addr' = [addr EXCEPT ![l] = IF value[l] = None THEN None ELSE @]
    /\ sampled' = [sampled EXCEPT ![l] = 0]
    /\ UNCHANGED <<value, since, cache, backend, floor, now>>

\* The caller takes the result.
Return(l) ==
    /\ pc[l] = "returned"
    /\ pc' = [pc EXCEPT ![l] = "idle"]
    /\ addr' = [addr EXCEPT ![l] = None]
    /\ value' = [value EXCEPT ![l] = None]
    /\ sampled' = [sampled EXCEPT ![l] = 0]
    /\ since' = [since EXCEPT ![l] = 0]
    /\ UNCHANGED <<chan, cache, backend, floor, now>>

\* The future is dropped at an await: while the backend is asked, or while
\* it waits for a channel.
Cancel(l) ==
    /\ \/ /\ pc[l] \in {"resolving", "read"}
          /\ pc' = [pc EXCEPT ![l] = "dropping"]
          /\ value' = [value EXCEPT ![l] = None]
          /\ UNCHANGED <<addr, sampled, chan, since>>
       \/ /\ pc[l] \in {"waiting", "direct"}
          /\ pc' = [pc EXCEPT ![l] = "idle"]
          /\ addr' = [addr EXCEPT ![l] = None]
          /\ chan' = [chan EXCEPT ![l] = None]
          /\ sampled' = [sampled EXCEPT ![l] = 0]
          /\ since' = [since EXCEPT ![l] = 0]
          /\ UNCHANGED value
    /\ UNCHANGED <<cache, backend, floor, now>>

-----------------------------------------------------------------------------
(* The operator.                                                           *)

\* The record behind the address changes.
Change(a) ==
    /\ backend[a] < MaxVersion
    /\ backend' = [backend EXCEPT ![a] = @ + 1]
    /\ UNCHANGED <<lookupVars, cache, floor, now>>

\* An invalidation takes effect unless a lookup is in flight, which invalidate
\* leaves alone: floor notes what later lookups are then entitled to.
Noted(A) == [a \in Addrs |-> IF a \in A /\ cache.slots[a].tag # "pending"
                             THEN backend[a] ELSE floor[a]]

\* invalidate
InvalidateExpiredOnly(a) ==
    /\ cache' = IF cache.slots[a].tag = "resolved" /\ cache.slots[a].expires_at <= now
                THEN Remove(cache, a) ELSE cache
    /\ floor' = Noted({a})
    /\ UNCHANGED <<lookupVars, backend, now>>

Invalidate(a) ==
    /\ cache' = IF cache.slots[a].tag = "resolved" THEN Remove(cache, a) ELSE cache
    /\ floor' = Noted({a})
    /\ UNCHANGED <<lookupVars, backend, now>>

\* clear
ClearAll ==
    /\ cache' = [slots |-> [a \in Addrs |-> IF cache.slots[a].tag = "pending"
                                            THEN cache.slots[a] ELSE Free],
                 index |-> {}]
    /\ floor' = Noted(Addrs)
    /\ UNCHANGED <<lookupVars, backend, now>>

Tick ==
    /\ now < MaxTime
    /\ now' = now + 1
    /\ UNCHANGED <<lookupVars, cache, backend, floor>>

LookupStep(l) ==
    \/ Hit(l) \/ Wait(l) \/ Miss(l) \/ BackendRead(l) \/ Fetched(l) \/ Store(l)
    \/ Broadcast(l) \/ Withdraw(l) \/ Close(l) \/ Return(l)

Next ==
    \/ \E l \in Lookups, a \in Addrs : Begin(l, a)
    \/ \E l \in Lookups : LookupStep(l) \/ Cancel(l)
    \/ \E a \in Addrs : Change(a) \/ Invalidate(a)
    \/ ClearAll
    \/ Tick

Spec == Init /\ [][Next]_vars

(* Lookup futures are polled and the backend answers.                      *)
FairSpec == Spec /\ \A l \in Lookups : WF_vars(LookupStep(l))

-----------------------------------------------------------------------------
(* Properties.                                                             *)

\* Single flight: an address has at most one resolver, also after the first
\* one's slot was evicted, invalidated or withdrawn and re-created.
SingleFlight ==
    \A l, m \in Lookups :
        (pc[l] \in ResolverPC /\ pc[m] \in ResolverPC /\ addr[l] = addr[m]) => l = m

\* The deadline index lists exactly the resolved slots.
IndexExact ==
    cache.index = {[deadline |-> cache.slots[a].expires_at, addr |-> a] :
                      a \in {b \in Addrs : cache.slots[b].tag = "resolved"}}

WithinCapacity == Cardinality(Occupied(cache)) <= Capacity

\* The cache stays bounded and never silts up: resolved and pending slots
\* together do not exceed the capacity, and every resolved slot is one that
\* eviction can find, whatever was stored, withdrawn, invalidated or evicted
\* between the two locked sections of a lookup.
EvictionSound == TypeOK /\ IndexExact /\ WithinCapacity

\* A lookup that begins after an effective invalidation never returns what
\* the backend said before it.
FreshAfterInvalidate ==
    \A l \in Lookups : pc[l] = "returned" => value[l] >= since[l]

\* Every lookup ends: it returns or is dropped, whoever it was waiting for.
EveryLookupEnds == \A l \in Lookups : pc[l] = "locking" ~> pc[l] = "idle"
=============================================================================
