-------------------------- MODULE ClientCacheProofs --------------------------
(***************************************************************************)
(* Proofs about ClientCache, for any sets of lookups and addresses, any    *)
(* capacity, lifetimes and eviction budget.                                *)
(*                                                                         *)
(* The first part is about CacheState alone: what eviction, removal,       *)
(* reservation and storing leave of the slots and of their index.  The     *)
(* second relates the slots to the lookups that are in flight.  After them *)
(* come the store that the cache wraps (ClientStores), for any clients,    *)
(* widths of addresses and tables, and another cache that must not be      *)
(* stale, the output of the dictionary build (DictBuild), for any groups,  *)
(* features and edits.                                                     *)
(***************************************************************************)
EXTENDS ClientCache, Sequences, FiniteSetTheorems, WellFoundedInduction, TLAPS

\* What ClientStores has besides; its entries are the table here.
CONSTANTS Width, IdModulus, Flags, MaxClients, MaxEntries
VARIABLES next, clients, table, kind, built

Stores == INSTANCE ClientStores WITH entries <- table

\* What DictBuild has besides; its out is what is rendered here.
CONSTANTS U8, Modulus, ConstIdent, PascalIdent, ValueIdent, Sources, Edits, MaxEdits, Rfc, Vendors,
          BadName, Pkg, Root, Features, Registered, Absent
VARIABLES source, manifest, enabled, rendered, mods, todo, program, phase, dirty, edits

Dict == INSTANCE DictBuild WITH out <- rendered

CacheType == [slots : [Addrs -> Slots], index : SUBSET [deadline : Nat, addr : Addrs]]

\* The index and the resolved slots, entry by entry.
Listed(c) ==
    \A x \in [deadline : Nat, addr : Addrs] :
        x \in c.index <=> /\ c.slots[x.addr].tag = "resolved"
                          /\ c.slots[x.addr].expires_at = x.deadline

Bounded(c) == IsFiniteSet(Occupied(c)) /\ Cardinality(Occupied(c)) <= Capacity

CacheSound(c) == c \in CacheType /\ Listed(c) /\ Bounded(c)

\* d is c with the slots of some resolved addresses forgotten.
Shrunk(c, d) ==
    \A a \in Addrs : \/ d.slots[a] = c.slots[a]
                     \/ d.slots[a] = Free /\ c.slots[a].tag = "resolved"

\* The three forms of a slot are told apart by their tag.
LEMMA SlotForms ==
    ASSUME NEW s \in Slots
    PROVE  /\ s.tag \in {"free", "pending", "resolved"}
           /\ s.tag = "free" <=> s = Free
           /\ s.tag = "pending" => s.by \in Lookups /\ s = Pending(s.by)
           /\ s.tag = "resolved" => s.value \in 0 .. MaxVersion /\ s.expires_at \in Nat
BY DEF Slots, Free, Pending

LEMMA SlotsMade ==
    /\ Free \in Slots /\ Free.tag = "free"
    /\ \A l \in Lookups : /\ Pending(l) \in Slots /\ Pending(l).tag = "pending"
                          /\ Pending(l).by = l
    /\ \A v \in 0 .. MaxVersion, e \in Nat :
            /\ Resolved(v, e) \in Slots
            /\ Resolved(v, e).tag = "resolved"
            /\ Resolved(v, e).value = v /\ Resolved(v, e).expires_at = e
BY DEF Slots, Free, Pending, Resolved

\* A cache whose occupied slots are among those of a bounded one is bounded.
LEMMA FewerBounded ==
    ASSUME NEW c, NEW d, Bounded(c), Occupied(d) \subseteq Occupied(c)
    PROVE  Bounded(d)
<1>1. /\ IsFiniteSet(Occupied(d)) /\ Cardinality(Occupied(d)) <= Cardinality(Occupied(c))
      /\ Cardinality(Occupied(d)) \in Nat /\ Cardinality(Occupied(c)) \in Nat
  BY FS_Subset, FS_CardinalityType DEF Bounded
<1> QED
  BY <1>1, CacheAssumption DEF Bounded

\* Popping index entries forgets exactly the slots they list.
LEMMA PopSound ==
    ASSUME NEW c, CacheSound(c), NEW X \in SUBSET c.index
    PROVE  CacheSound(Pop(c, X)) /\ Shrunk(c, Pop(c, X))
<1> DEFINE d == Pop(c, X)
<1> USE DEF CacheSound
<1>1. /\ c \in CacheType /\ c.index \subseteq [deadline : Nat, addr : Addrs]
      /\ c.slots \in [Addrs -> Slots]
  BY DEF CacheType
<1>2. /\ d.slots = [a \in Addrs |-> IF \E x \in X : x.addr = a THEN Free ELSE c.slots[a]]
      /\ d.index = c.index \ X
  BY DEF Pop, Clear
<1>3. d \in CacheType
  <2>1. d = [slots |-> d.slots, index |-> d.index]
    BY DEF Pop
  <2>2. d.slots \in [Addrs -> Slots]
    BY <1>1, <1>2, SlotsMade
  <2> QED
    BY <1>1, <1>2, <2>1, <2>2 DEF CacheType
<1>4. Shrunk(c, d)
  BY <1>1, <1>2 DEF Shrunk, Listed
<1>5. Listed(d)
  <2> SUFFICES ASSUME NEW x \in [deadline : Nat, addr : Addrs]
               PROVE  x \in d.index <=> /\ d.slots[x.addr].tag = "resolved"
                                        /\ d.slots[x.addr].expires_at = x.deadline
    BY DEF Listed
  <2>1. x \in c.index <=> c.slots[x.addr].tag = "resolved" /\ c.slots[x.addr].expires_at = x.deadline
    BY DEF Listed
  <2>2. CASE \E y \in X : y.addr = x.addr
    <3>1. PICK y \in X : y.addr = x.addr
      BY <2>2
    <3>2. y \in [deadline : Nat, addr : Addrs] /\ c.slots[y.addr].expires_at = y.deadline
      BY <1>1 DEF Listed
    <3>3. x \in c.index => x = y
      BY <2>1, <3>1, <3>2
    <3> QED
      BY <1>2, <3>1, <3>3, SlotsMade
  <2>3. CASE ~ \E y \in X : y.addr = x.addr
    BY <1>2, <2>1, <2>3
  <2> QED
    BY <2>2, <2>3
<1>6. Occupied(d) \subseteq Occupied(c)
  BY <1>1, <1>4, SlotForms, SlotsMade DEF Occupied, Shrunk
<1> QED
  BY <1>3, <1>4, <1>5, <1>6, FewerBounded

\* evict_expired
LEMMA EvictExpiredSound ==
    ASSUME NEW c, CacheSound(c), NEW t, NEW d \in EvictExpired(c, t)
    PROVE  CacheSound(d) /\ Shrunk(c, d)
BY PopSound DEF EvictExpired, Due

\* The eviction that makes room.
LEMMA MakeRoomSound ==
    ASSUME NEW c, CacheSound(c), NEW d \in MakeRoom(c)
    PROVE  CacheSound(d) /\ Shrunk(c, d)
<1>1. CASE d = c
  BY <1>1 DEF Shrunk
<1>2. CASE d # c
  <2>1. PICK x \in c.index : d = Pop(c, {x})
    BY <1>2 DEF MakeRoom, EvictFirst
  <2> QED
    BY <2>1, PopSound
<1> QED
  BY <1>1, <1>2

\* remove
LEMMA RemoveSound ==
    ASSUME NEW c, CacheSound(c), NEW a \in Addrs
    PROVE  /\ CacheSound(Remove(c, a))
           /\ Remove(c, a).slots = [c.slots EXCEPT ![a] = Free]
<1> DEFINE d == Remove(c, a)
<1> USE DEF CacheSound
<1>1. /\ c \in CacheType /\ c.index \subseteq [deadline : Nat, addr : Addrs]
      /\ c.slots \in [Addrs -> Slots]
  BY DEF CacheType
<1>2. /\ d.slots = [c.slots EXCEPT ![a] = Free]
      /\ d.index = IF c.slots[a].tag = "resolved"
                   THEN c.index \ {[deadline |-> c.slots[a].expires_at, addr |-> a]}
                   ELSE c.index
  BY <1>1 DEF Remove, Clear
<1>3. d \in CacheType
  <2>1. d = [slots |-> d.slots, index |-> d.index]
    BY DEF Remove
  <2> QED
    BY <1>1, <1>2, <2>1, SlotsMade DEF CacheType
<1>4. Listed(d)
  BY <1>1, <1>2, SlotsMade DEF Listed
<1>5. Occupied(d) \subseteq Occupied(c)
  BY <1>1, <1>2 DEF Occupied
<1> QED
  BY <1>2, <1>3, <1>4, <1>5, FewerBounded

\* A slot put where there is room.
LEMMA ReserveSound ==
    ASSUME NEW c, CacheSound(c), ~Full(c), NEW a \in Addrs, c.slots[a] = Free,
           NEW l \in Lookups
    PROVE  CacheSound([c EXCEPT !.slots[a] = Pending(l)])
<1> DEFINE d == [c EXCEPT !.slots[a] = Pending(l)]
<1> USE DEF CacheSound
<1>1. /\ c \in CacheType /\ c.index \subseteq [deadline : Nat, addr : Addrs]
      /\ c.slots \in [Addrs -> Slots]
  BY DEF CacheType
<1>2. d.slots = [c.slots EXCEPT ![a] = Pending(l)] /\ d.index = c.index
  BY <1>1 DEF CacheType
<1>3. d \in CacheType
  BY <1>1, SlotsMade DEF CacheType
<1>4. Listed(d)
  BY <1>1, <1>2, SlotsMade DEF Listed
<1>5. Occupied(d) = Occupied(c) \cup {a} /\ a \notin Occupied(c)
  BY <1>1, <1>2, SlotsMade DEF Occupied
<1>6. Cardinality(Occupied(c)) \in Nat /\ Cardinality(Occupied(c)) < Capacity
  BY FS_CardinalityType, CacheAssumption DEF Full, Bounded
<1>7. IsFiniteSet(Occupied(d)) /\ Cardinality(Occupied(d)) = Cardinality(Occupied(c)) + 1
  BY <1>5, FS_AddElement DEF Bounded
<1> QED
  BY <1>3, <1>4, <1>6, <1>7, CacheAssumption DEF Bounded

\* An answer stored over a pending slot.
LEMMA StoreSound ==
    ASSUME NEW c, CacheSound(c), NEW a \in Addrs, c.slots[a].tag = "pending",
           NEW v \in 0 .. MaxVersion, NEW e \in Nat, NEW d,
           d = [slots |-> [c.slots EXCEPT ![a] = Resolved(v, e)],
                index |-> c.index \cup {[deadline |-> e, addr |-> a]}]
    PROVE  CacheSound(d)
<1> USE DEF CacheSound
<1>1. /\ c \in CacheType /\ c.index \subseteq [deadline : Nat, addr : Addrs]
      /\ c.slots \in [Addrs -> Slots]
  BY DEF CacheType
<1>2. /\ d.slots = [c.slots EXCEPT ![a] = Resolved(v, e)]
      /\ d.index = c.index \cup {[deadline |-> e, addr |-> a]}
  OBVIOUS
<1>3. d \in CacheType
  BY <1>1, SlotsMade DEF CacheType
<1>4. Listed(d)
  BY <1>1, <1>2, SlotsMade DEF Listed
<1>5. Occupied(d) \subseteq Occupied(c)
  BY <1>1, <1>2, SlotsMade DEF Occupied
<1> QED
  BY <1>3, <1>4, <1>5, FewerBounded

\* clear
LEMMA ClearSound ==
    ASSUME NEW c, CacheSound(c), NEW d,
           d = [slots |-> [a \in Addrs |-> IF c.slots[a].tag = "pending"
                                           THEN c.slots[a] ELSE Free],
                index |-> {}]
    PROVE  CacheSound(d) /\ Shrunk(c, d)
<1> USE DEF CacheSound
<1>1. c \in CacheType /\ c.slots \in [Addrs -> Slots]
  BY DEF CacheType
<1>2. d \in CacheType
  BY <1>1, SlotsMade DEF CacheType
<1>3. Listed(d)
  BY <1>1, SlotsMade DEF Listed
<1>4. Shrunk(c, d)
  BY <1>1, SlotForms DEF Shrunk
<1>5. Occupied(d) \subseteq Occupied(c)
  BY <1>1, SlotForms DEF Occupied
<1> QED
  BY <1>2, <1>3, <1>4, <1>5, FewerBounded
-----------------------------------------------------------------------------
(* The lookups in flight.                                                  *)

\* A lookup that is not idle is for an address, and holds an answer from
\* when it has read one.
Shape ==
    \A l \in Lookups :
        /\ pc[l] # "idle" => addr[l] \in Addrs
        /\ pc[l] \in {"read", "storing", "sending", "returned"} => value[l] # None

\* A resolver's slot stays its own until it stores or withdraws; no pending
\* slot is left behind by one that is gone.
Owned ==
    /\ \A l \in Lookups : pc[l] \in ResolverPC => cache.slots[addr[l]] = Pending(l)
    /\ \A a \in Addrs, l \in Lookups :
            cache.slots[a] = Pending(l) =>
                addr[l] = a /\ pc[l] \in ResolverPC \cup {"dropping"}

\* The channel a lookup waits on is that of a lookup for the same address
\* that still has to end; if that one already has its answer to give, the
\* answer is new enough.
ChannelsLive ==
    \A w \in Lookups : pc[w] = "waiting" =>
        /\ pc[chan[w]] \in ResolverPC \cup {"sending", "dropping", "closing"}
        /\ addr[chan[w]] = addr[w]
        /\ pc[chan[w]] = "sending" => value[chan[w]] >= since[w]

\* Nothing that may still be handed out is older than what an effective
\* invalidation entitles a lookup to.
FloorsKept ==
    /\ \A a \in Addrs : floor[a] <= backend[a]
    /\ \A a \in Addrs : cache.slots[a].tag = "resolved" => cache.slots[a].value >= floor[a]
    /\ \A l \in Lookups : pc[l] # "idle" => since[l] <= floor[addr[l]]
    /\ \A l \in Lookups : pc[l] \in {"read", "storing"} => value[l] >= floor[addr[l]]
    /\ \A l \in Lookups :
            pc[l] \in {"sending", "dropping", "closing", "returned"} /\ value[l] # None
                => value[l] >= since[l]

IInv ==
    /\ TypeOK /\ CacheSound(cache)
    /\ Shape /\ Owned /\ ChannelsLive /\ FloorsKept

\* Shrinking leaves pending slots alone and makes no resolved ones.
LEMMA ShrunkKeeps ==
    ASSUME NEW c, CacheSound(c), NEW d, Shrunk(c, d), NEW a \in Addrs
    PROVE  /\ c.slots[a].tag = "pending" => d.slots[a] = c.slots[a]
           /\ \A l \in Lookups : d.slots[a] = Pending(l) <=> c.slots[a] = Pending(l)
           /\ d.slots[a].tag = "resolved" => d.slots[a] = c.slots[a]
           /\ d.slots[a].tag = "pending" => d.slots[a] = c.slots[a]
<1>1. c.slots[a] \in Slots
  BY DEF CacheSound, CacheType
<1> QED
  BY <1>1, SlotForms, SlotsMade DEF Shrunk

\* The call.
LEMMA BeginStep ==
    ASSUME IInv, NEW l \in Lookups, NEW a \in Addrs, Begin(l, a)
    PROVE  IInv'
<1> USE CacheAssumption DEF IInv, Begin
<1>1. TypeOK'
  BY DEF TypeOK, PC, ResolverPC
<1>2. CacheSound(cache)'
  OBVIOUS
<1>3. Shape'
  BY DEF Shape, TypeOK
<1>4. Owned'
  BY DEF Owned, TypeOK, ResolverPC
<1>5. ChannelsLive'
  BY DEF ChannelsLive, TypeOK, ResolverPC
<1>6. FloorsKept'
  BY DEF FloorsKept, TypeOK
<1> QED
  BY <1>1, <1>2, <1>3, <1>4, <1>5, <1>6

\* A fresh answer is in the cache.
LEMMA HitStep ==
    ASSUME IInv, NEW l \in Lookups, Hit(l)
    PROVE  IInv'
<1> USE CacheAssumption DEF IInv
<1>1. PICK c \in EvictExpired(cache, sampled[l]) :
        /\ c.slots[addr[l]].tag = "resolved"
        /\ cache' = c
        /\ value' = [value EXCEPT ![l] = c.slots[addr[l]].value]
  BY DEF Hit
<1>2. /\ pc[l] = "locking" /\ pc' = [pc EXCEPT ![l] = "returned"]
      /\ sampled' = [sampled EXCEPT ![l] = 0]
      /\ UNCHANGED <<addr, chan, since, backend, floor, now>>
  BY DEF Hit
<1>3. CacheSound(c) /\ Shrunk(cache, c)
  BY EvictExpiredSound
<1>4. addr[l] \in Addrs
  BY <1>2 DEF Shape
<1>5. \A a \in Addrs :
        /\ \A k \in Lookups : c.slots[a] = Pending(k) <=> cache.slots[a] = Pending(k)
        /\ c.slots[a].tag = "resolved" => c.slots[a] = cache.slots[a]
  BY <1>3, ShrunkKeeps
<1>6. /\ value'[l] = cache.slots[addr[l]].value
      /\ cache.slots[addr[l]].value \in 0 .. MaxVersion
      /\ cache.slots[addr[l]].value >= floor[addr[l]]
  <2>1. cache.slots[addr[l]] \in Slots /\ cache.slots[addr[l]].tag = "resolved"
    BY <1>1, <1>4, <1>5 DEF TypeOK
  <2>2. cache.slots[addr[l]].value \in 0 .. MaxVersion
    BY <2>1, SlotForms
  <2>3. cache.slots[addr[l]].value >= floor[addr[l]]
    BY <1>4, <2>1 DEF FloorsKept
  <2> QED
    BY <1>1, <1>4, <1>5, <2>2, <2>3 DEF TypeOK
<1>7. TypeOK'
  <2>1. value' \in [Lookups -> 0 .. MaxVersion \cup {None}]
    BY <1>1, <1>4, <1>5, <1>6 DEF TypeOK
  <2> QED
    BY <1>1, <1>2, <1>3, <2>1 DEF TypeOK, PC, ResolverPC, CacheSound, CacheType
<1>8. Shape'
  BY <1>1, <1>2, <1>6 DEF Shape, TypeOK
<1>9. Owned'
  BY <1>1, <1>2, <1>5 DEF Owned, TypeOK, ResolverPC, Shape
<1>10. ChannelsLive'
  BY <1>1, <1>2 DEF ChannelsLive, TypeOK, ResolverPC
<1>11. FloorsKept'
  BY <1>1, <1>2, <1>4, <1>5, <1>6 DEF FloorsKept, TypeOK
<1> QED
  BY <1>1, <1>3, <1>7, <1>8, <1>9, <1>10, <1>11

\* Another lookup is resolving the address.
LEMMA WaitStep ==
    ASSUME IInv, NEW l \in Lookups, Wait(l)
    PROVE  IInv'
<1> USE CacheAssumption DEF IInv
<1>1. PICK c \in EvictExpired(cache, sampled[l]) :
        /\ c.slots[addr[l]].tag = "pending"
        /\ cache' = c
        /\ chan' = [chan EXCEPT ![l] = c.slots[addr[l]].by]
  BY DEF Wait
<1>2. /\ pc[l] = "locking" /\ pc' = [pc EXCEPT ![l] = "waiting"]
      /\ sampled' = [sampled EXCEPT ![l] = 0]
      /\ UNCHANGED <<addr, value, since, backend, floor, now>>
  BY DEF Wait
<1>3. CacheSound(c) /\ Shrunk(cache, c)
  BY EvictExpiredSound
<1>4. addr[l] \in Addrs
  BY <1>2 DEF Shape
<1>5. \A a \in Addrs :
        /\ \A k \in Lookups : c.slots[a] = Pending(k) <=> cache.slots[a] = Pending(k)
        /\ c.slots[a].tag = "resolved" => c.slots[a] = cache.slots[a]
        /\ c.slots[a].tag = "pending" => c.slots[a] = cache.slots[a]
  BY <1>3, ShrunkKeeps
<1>6. PICK m \in Lookups : chan' = [chan EXCEPT ![l] = m] /\ cache.slots[addr[l]] = Pending(m)
  <2>1. cache.slots[addr[l]] \in Slots /\ c.slots[addr[l]] = cache.slots[addr[l]]
    BY <1>1, <1>4, <1>5 DEF TypeOK
  <2> QED
    BY <1>1, <2>1, SlotForms
<1>7. addr[m] = addr[l] /\ pc[m] \in ResolverPC \cup {"dropping"}
  BY <1>4, <1>6 DEF Owned
<1>8. TypeOK'
  BY <1>1, <1>2, <1>3, <1>6 DEF TypeOK, PC, ResolverPC, CacheSound, CacheType
<1>9. Shape'
  BY <1>2 DEF Shape, TypeOK
<1>10. Owned'
  BY <1>1, <1>2, <1>5 DEF Owned, TypeOK, ResolverPC, Shape
<1>11. ChannelsLive'
  BY <1>2, <1>6, <1>7 DEF ChannelsLive, TypeOK, ResolverPC
<1>12. FloorsKept'
  BY <1>1, <1>2, <1>4, <1>5 DEF FloorsKept, TypeOK
<1> QED
  BY <1>1, <1>3, <1>8, <1>9, <1>10, <1>11, <1>12
\* Nothing usable is in the cache: the lookup reserves the slot and resolves,
\* or asks the backend on its own when only pending slots fill the cache.
LEMMA MissStep ==
    ASSUME IInv, NEW l \in Lookups, Miss(l)
    PROVE  IInv'
<1> USE CacheAssumption DEF IInv
<1>1. PICK c \in EvictExpired(cache, sampled[l]) :
        /\ c.slots[addr[l]].tag \in {"free", "resolved"}
        /\ \E d \in MakeRoom(Remove(c, addr[l])) :
             IF Full(d)
             THEN /\ cache' = d
                  /\ pc' = [pc EXCEPT ![l] = "direct"]
             ELSE /\ cache' = [d EXCEPT !.slots[addr[l]] = Pending(l)]
                  /\ pc' = [pc EXCEPT ![l] = "resolving"]
  BY DEF Miss
<1>2. PICK d \in MakeRoom(Remove(c, addr[l])) :
             IF Full(d)
             THEN /\ cache' = d
                  /\ pc' = [pc EXCEPT ![l] = "direct"]
             ELSE /\ cache' = [d EXCEPT !.slots[addr[l]] = Pending(l)]
                  /\ pc' = [pc EXCEPT ![l] = "resolving"]
  BY <1>1
<1>3. /\ pc[l] = "locking" /\ sampled' = [sampled EXCEPT ![l] = 0]
      /\ UNCHANGED <<addr, value, chan, since, backend, floor, now>>
  BY DEF Miss
<1>4. addr[l] \in Addrs
  BY <1>3 DEF Shape
<1>5. CacheSound(c) /\ Shrunk(cache, c)
  BY EvictExpiredSound
<1>6. /\ CacheSound(Remove(c, addr[l]))
      /\ Remove(c, addr[l]).slots = [c.slots EXCEPT ![addr[l]] = Free]
  BY <1>4, <1>5, RemoveSound
<1>7. CacheSound(d) /\ Shrunk(Remove(c, addr[l]), d)
  BY <1>6, MakeRoomSound
<1>8. d.slots[addr[l]] = Free /\ Shrunk(cache, d)
  <2>1. c.slots \in [Addrs -> Slots] /\ cache.slots \in [Addrs -> Slots]
    BY <1>5 DEF CacheSound, CacheType
  <2>2. cache.slots[addr[l]] = Free \/ cache.slots[addr[l]].tag = "resolved"
    BY <1>1, <1>4, <1>5, <2>1, SlotForms, SlotsMade DEF Shrunk
  <2>3. d.slots[addr[l]] = Free
    BY <1>4, <1>6, <1>7, <2>1, SlotsMade DEF Shrunk
  <2>4. ASSUME NEW a \in Addrs, a # addr[l]
        PROVE  \/ d.slots[a] = cache.slots[a]
               \/ d.slots[a] = Free /\ cache.slots[a].tag = "resolved"
    BY <1>5, <1>6, <1>7, <2>1, <2>4, SlotsMade DEF Shrunk
  <2> QED
    BY <2>2, <2>3, <2>4 DEF Shrunk
<1>9. \A a \in Addrs :
        /\ \A k \in Lookups : d.slots[a] = Pending(k) <=> cache.slots[a] = Pending(k)
        /\ d.slots[a].tag = "resolved" => d.slots[a] = cache.slots[a]
  BY <1>8, ShrunkKeeps
<1>10. CASE Full(d)
  <2>1. cache' = d /\ pc' = [pc EXCEPT ![l] = "direct"]
    BY <1>2, <1>10
  <2>2. TypeOK'
    BY <1>3, <1>7, <2>1 DEF TypeOK, PC, ResolverPC, CacheSound, CacheType
  <2>3. Shape'
    BY <1>3, <2>1 DEF Shape, TypeOK
  <2>4. Owned'
    BY <1>3, <1>9, <2>1 DEF Owned, TypeOK, ResolverPC, Shape
  <2>5. ChannelsLive'
    BY <1>3, <2>1 DEF ChannelsLive, TypeOK, ResolverPC
  <2>6. FloorsKept'
    BY <1>3, <1>9, <2>1 DEF FloorsKept, TypeOK
  <2> QED
    BY <1>7, <2>1, <2>2, <2>3, <2>4, <2>5, <2>6
<1>11. CASE ~Full(d)
  <2>1. cache' = [d EXCEPT !.slots[addr[l]] = Pending(l)] /\ pc' = [pc EXCEPT ![l] = "resolving"]
    BY <1>2, <1>11
  <2>2. CacheSound(cache')
    BY <1>4, <1>7, <1>8, <1>11, <2>1, ReserveSound
  <2>3. cache'.slots = [d.slots EXCEPT ![addr[l]] = Pending(l)] /\ d.slots \in [Addrs -> Slots]
    BY <1>7, <2>1 DEF CacheSound, CacheType
  <2>4. TypeOK'
    BY <1>3, <2>1, <2>2 DEF TypeOK, PC, ResolverPC, CacheSound, CacheType
  <2>5. Shape'
    BY <1>3, <2>1 DEF Shape, TypeOK
  <2>6. Owned'
    <3>1. cache.slots[addr[l]].tag # "pending"
      BY <1>4, <1>8, SlotsMade DEF Shrunk
    <3>2. ASSUME NEW k \in Lookups, pc'[k] \in ResolverPC
          PROVE  cache'.slots[addr'[k]] = Pending(k)
      <4>1. CASE k = l
        BY <1>3, <1>4, <2>3, <4>1
      <4>2. CASE k # l
        <5>1. pc[k] \in ResolverPC /\ addr[k] \in Addrs /\ cache.slots[addr[k]] = Pending(k)
          BY <2>1, <3>2, <4>2 DEF TypeOK, Owned, Shape, ResolverPC
        <5>2. addr[k] # addr[l]
          BY <3>1, <5>1, SlotsMade
        <5> QED
          BY <1>3, <1>4, <1>9, <2>3, <5>1, <5>2
      <4> QED
        BY <4>1, <4>2
    <3>3. ASSUME NEW a \in Addrs, NEW k \in Lookups, cache'.slots[a] = Pending(k)
          PROVE  addr'[k] = a /\ pc'[k] \in ResolverPC \cup {"dropping"}
      <4>1. CASE a = addr[l]
        <5>1. Pending(k) = Pending(l)
          BY <1>4, <2>3, <3>3, <4>1
        <5>2. k = l
          BY <5>1, SlotsMade
        <5> QED
          BY <1>3, <2>1, <4>1, <5>2 DEF TypeOK, ResolverPC
      <4>2. CASE a # addr[l]
        BY <1>3, <1>4, <1>9, <2>1, <2>3, <3>3, <4>2 DEF Owned, TypeOK, ResolverPC
      <4> QED
        BY <4>1, <4>2
    <3> QED
      BY <3>2, <3>3 DEF Owned
  <2>7. ChannelsLive'
    BY <1>3, <2>1 DEF ChannelsLive, TypeOK, ResolverPC
  <2>8. FloorsKept'
    BY <1>3, <1>4, <1>9, <2>1, <2>3, SlotsMade DEF FloorsKept, TypeOK
  <2> QED
    BY <2>2, <2>4, <2>5, <2>6, <2>7, <2>8
<1> QED
  BY <1>10, <1>11

\* The inner store reads its answer.
LEMMA BackendReadStep ==
    ASSUME IInv, NEW l \in Lookups, BackendRead(l)
    PROVE  IInv'
<1> USE CacheAssumption DEF IInv
<1>1. /\ pc[l] \in {"direct", "resolving"}
      /\ value' = [value EXCEPT ![l] = backend[addr[l]]]
      /\ pc' = [pc EXCEPT ![l] = IF pc[l] = "direct" THEN "returned" ELSE "read"]
      /\ UNCHANGED <<addr, sampled, chan, since, cache, backend, floor, now>>
  BY DEF BackendRead
<1>2. /\ addr[l] \in Addrs /\ backend[addr[l]] \in 0 .. MaxVersion
      /\ backend[addr[l]] >= floor[addr[l]] /\ floor[addr[l]] \in 0 .. MaxVersion
  BY <1>1 DEF Shape, TypeOK, FloorsKept
<1>3. TypeOK'
  BY <1>1, <1>2 DEF TypeOK, PC, ResolverPC
<1>4. Shape'
  BY <1>1, <1>2 DEF Shape, TypeOK
<1>5. Owned'
  BY <1>1 DEF Owned, TypeOK, ResolverPC
<1>6. ChannelsLive'
  BY <1>1 DEF ChannelsLive, TypeOK, ResolverPC
<1>7. FloorsKept'
  BY <1>1, <1>2 DEF FloorsKept, TypeOK
<1> QED
  BY <1>1, <1>3, <1>4, <1>5, <1>6, <1>7

\* The inner store returns it.
LEMMA FetchedStep ==
    ASSUME IInv, NEW l \in Lookups, Fetched(l)
    PROVE  IInv'
<1> USE CacheAssumption DEF IInv
<1>1. /\ pc[l] = "read" /\ pc' = [pc EXCEPT ![l] = "storing"]
      /\ sampled' = [sampled EXCEPT ![l] = now + TTL(value[l])]
      /\ UNCHANGED <<addr, value, chan, since, cache, backend, floor, now>>
  BY DEF Fetched
<1>2. now + TTL(value[l]) \in Nat
  BY DEF TypeOK, TTL
<1>3. TypeOK'
  BY <1>1, <1>2 DEF TypeOK, PC, ResolverPC
<1>4. Shape' /\ Owned' /\ ChannelsLive' /\ FloorsKept'
  BY <1>1 DEF Shape, Owned, ChannelsLive, FloorsKept, TypeOK, ResolverPC
<1> QED
  BY <1>1, <1>3, <1>4

\* The resolver stores its answer.
LEMMA StoreStep ==
    ASSUME IInv, NEW l \in Lookups, Store(l)
    PROVE  IInv'
<1> USE CacheAssumption DEF IInv
<1>1. /\ pc[l] = "storing" /\ pc' = [pc EXCEPT ![l] = "sending"]
      /\ cache' = [slots |-> [cache.slots EXCEPT ![addr[l]] = Resolved(value[l], sampled[l])],
                   index |-> cache.index \cup {[deadline |-> sampled[l], addr |-> addr[l]]}]
      /\ UNCHANGED <<addr, sampled, value, chan, since, backend, floor, now>>
  BY DEF Store
<1>2. /\ addr[l] \in Addrs /\ value[l] \in 0 .. MaxVersion /\ sampled[l] \in Nat
      /\ cache.slots[addr[l]] = Pending(l)
      /\ value[l] >= floor[addr[l]] /\ since[l] <= floor[addr[l]]
  BY <1>1 DEF Shape, TypeOK, Owned, FloorsKept, ResolverPC
<1>3. CacheSound(cache')
  BY <1>1, <1>2, StoreSound, SlotsMade
<1>4. /\ cache'.slots = [cache.slots EXCEPT ![addr[l]] = Resolved(value[l], sampled[l])]
      /\ cache.slots \in [Addrs -> Slots]
  BY <1>1 DEF TypeOK
<1>5. TypeOK'
  BY <1>1, <1>3 DEF TypeOK, PC, ResolverPC, CacheSound, CacheType
<1>6. Shape'
  BY <1>1 DEF Shape, TypeOK
<1>7. Owned'
  <2>1. ASSUME NEW k \in Lookups, pc'[k] \in ResolverPC
        PROVE  cache'.slots[addr'[k]] = Pending(k)
    <3>1. k # l /\ pc[k] \in ResolverPC /\ addr[k] \in Addrs
      BY <1>1, <2>1 DEF TypeOK, ResolverPC, Shape
    <3>2. cache.slots[addr[k]] = Pending(k)
      BY <3>1 DEF Owned
    <3>3. addr[k] # addr[l]
      BY <1>2, <3>1, <3>2, SlotsMade
    <3> QED
      BY <1>1, <1>2, <1>4, <3>1, <3>2, <3>3
  <2>2. ASSUME NEW a \in Addrs, NEW k \in Lookups, cache'.slots[a] = Pending(k)
        PROVE  addr'[k] = a /\ pc'[k] \in ResolverPC \cup {"dropping"}
    <3>1. a # addr[l] /\ cache.slots[a] = Pending(k)
      BY <1>2, <1>4, <2>2, SlotsMade
    <3>2. addr[k] = a /\ pc[k] \in ResolverPC \cup {"dropping"} /\ k # l
      BY <3>1 DEF Owned
    <3> QED
      BY <1>1, <3>2 DEF TypeOK
  <2> QED
    BY <2>1, <2>2 DEF Owned
<1>8. ChannelsLive'
  <2>1. ASSUME NEW w \in Lookups, pc[w] = "waiting", chan[w] = l
        PROVE  value[l] >= since[w]
    <3>1. addr[w] = addr[l] /\ since[w] <= floor[addr[w]] /\ since[w] \in 0 .. MaxVersion
      BY <2>1 DEF ChannelsLive, FloorsKept, TypeOK
    <3> QED
      BY <1>2, <3>1 DEF TypeOK
  <2> QED
    BY <1>1, <2>1 DEF ChannelsLive, TypeOK, ResolverPC
<1>9. FloorsKept'
  <2>1. value[l] >= since[l]
    BY <1>2 DEF TypeOK
  <2> QED
    BY <1>1, <1>2, <1>4, <2>1, SlotsMade DEF FloorsKept, TypeOK
<1> QED
  BY <1>3, <1>5, <1>6, <1>7, <1>8, <1>9
\* The resolver hands its answer to the subscribers of its channel.
LEMMA BroadcastStep ==
    ASSUME IInv, NEW l \in Lookups, Broadcast(l)
    PROVE  IInv'
<1> DEFINE W == {w \in Lookups : chan[w] = l}
<1> USE CacheAssumption DEF IInv
<1>1. /\ pc[l] = "sending"
      /\ value' = [w \in Lookups |-> IF w \in W THEN value[l] ELSE value[w]]
      /\ chan' = [w \in Lookups |-> IF w \in W THEN None ELSE chan[w]]
      /\ pc' = [w \in Lookups |-> IF w = l THEN "dropping"
                                  ELSE IF w \in W THEN "returned" ELSE pc[w]]
      /\ UNCHANGED <<addr, sampled, since, cache, backend, floor, now>>
  BY DEF Broadcast
<1>2. l \notin W /\ value[l] \in 0 .. MaxVersion /\ value'[l] = value[l]
  BY <1>1 DEF TypeOK, Shape
<1>3. \A w \in W : pc[w] = "waiting" /\ value[l] >= since[w]
  BY <1>1 DEF TypeOK, ChannelsLive
<1>4. TypeOK'
  BY <1>1, <1>2, <1>3 DEF TypeOK, PC, ResolverPC
<1>5. Shape'
  BY <1>1, <1>2, <1>3 DEF Shape, TypeOK
<1>6. Owned'
  BY <1>1, <1>2, <1>3 DEF Owned, TypeOK, ResolverPC
<1>7. ChannelsLive'
  <2> SUFFICES ASSUME NEW w \in Lookups, pc'[w] = "waiting"
               PROVE  /\ pc'[chan'[w]] \in ResolverPC \cup {"sending", "dropping", "closing"}
                      /\ addr'[chan'[w]] = addr'[w]
                      /\ pc'[chan'[w]] = "sending" => value'[chan'[w]] >= since'[w]
    BY DEF ChannelsLive
  <2>1. /\ w \notin W /\ w # l /\ pc[w] = "waiting" /\ chan'[w] = chan[w]
        /\ chan[w] \in Lookups /\ chan[w] # l
    BY <1>1 DEF TypeOK
  <2>2. /\ pc[chan[w]] \in ResolverPC \cup {"sending", "dropping", "closing"}
        /\ addr[chan[w]] = addr[w]
        /\ pc[chan[w]] = "sending" => value[chan[w]] >= since[w]
    BY <2>1 DEF ChannelsLive
  <2>3. chan[w] \notin W
    BY <1>3, <2>2 DEF ResolverPC
  <2>4. pc'[chan[w]] = pc[chan[w]] /\ value'[chan[w]] = value[chan[w]]
    BY <1>1, <2>1, <2>3
  <2> QED
    BY <1>1, <2>1, <2>2, <2>4
<1>8. FloorsKept'
  <2>1. ASSUME NEW w \in Lookups, pc'[w] \in {"sending", "dropping", "closing", "returned"},
               value'[w] # None
        PROVE  value'[w] >= since'[w]
    <3>1. CASE w \in W
      BY <1>1, <1>3, <3>1
    <3>2. CASE w \notin W
      BY <1>1, <2>1, <3>2 DEF FloorsKept, TypeOK
    <3> QED
      BY <3>1, <3>2
  <2>2. \A w \in Lookups : pc'[w] \in {"read", "storing"} =>
            pc'[w] = pc[w] /\ value'[w] = value[w]
    BY <1>1, <1>3
  <2> QED
    BY <1>1, <1>3, <2>1, <2>2 DEF FloorsKept, TypeOK
<1> QED
  BY <1>1, <1>4, <1>5, <1>6, <1>7, <1>8

\* The guard of a resolver withdraws the slot if it is still its own.
LEMMA WithdrawStep ==
    ASSUME IInv, NEW l \in Lookups, Withdraw(l)
    PROVE  IInv'
<1> USE CacheAssumption DEF IInv
<1>1. /\ pc[l] = "dropping" /\ pc' = [pc EXCEPT ![l] = "closing"]
      /\ cache' = IF cache.slots[addr[l]] = Pending(l)
                  THEN Remove(cache, addr[l]) ELSE cache
      /\ UNCHANGED <<addr, sampled, value, chan, since, backend, floor, now>>
  BY DEF Withdraw
<1>2. addr[l] \in Addrs /\ cache.slots \in [Addrs -> Slots]
  BY <1>1 DEF Shape, TypeOK
<1>3. /\ CacheSound(cache')
      /\ cache'.slots = IF cache.slots[addr[l]] = Pending(l)
                        THEN [cache.slots EXCEPT ![addr[l]] = Free] ELSE cache.slots
  BY <1>1, <1>2, RemoveSound
<1>4. TypeOK'
  BY <1>1, <1>3 DEF TypeOK, PC, ResolverPC, CacheSound, CacheType
<1>5. Shape'
  BY <1>1 DEF Shape, TypeOK
<1>6. Owned'
  <2>1. ASSUME NEW k \in Lookups, pc'[k] \in ResolverPC
        PROVE  cache'.slots[addr'[k]] = Pending(k)
    <3>1. k # l /\ pc[k] \in ResolverPC /\ addr[k] \in Addrs
      BY <1>1, <2>1 DEF TypeOK, ResolverPC, Shape
    <3>2. cache.slots[addr[k]] = Pending(k)
      BY <3>1 DEF Owned
    <3>3. cache.slots[addr[l]] = Pending(l) => addr[k] # addr[l]
      BY <3>1, <3>2, SlotsMade
    <3> QED
      BY <1>1, <1>2, <1>3, <3>1, <3>2, <3>3
  <2>2. ASSUME NEW a \in Addrs, NEW k \in Lookups, cache'.slots[a] = Pending(k)
        PROVE  addr'[k] = a /\ pc'[k] \in ResolverPC \cup {"dropping"}
    <3>1. cache.slots[a] = Pending(k)
      BY <1>2, <1>3, <2>2, SlotsMade
    <3>2. addr[k] = a /\ pc[k] \in ResolverPC \cup {"dropping"}
      BY <3>1 DEF Owned
    <3>3. k # l
      BY <1>2, <1>3, <2>2, <3>1, <3>2, SlotsMade
    <3> QED
      BY <1>1, <3>2, <3>3 DEF TypeOK
  <2> QED
    BY <2>1, <2>2 DEF Owned
<1>7. ChannelsLive'
  BY <1>1 DEF ChannelsLive, TypeOK, ResolverPC
<1>8. FloorsKept'
  <2>1. \A a \in Addrs : cache'.slots[a].tag = "resolved" => cache'.slots[a] = cache.slots[a]
    BY <1>2, <1>3, SlotsMade
  <2> QED
    BY <1>1, <2>1 DEF FloorsKept, TypeOK
<1> QED
  BY <1>3, <1>4, <1>5, <1>6, <1>7, <1>8

\* The channel closes: whoever still waits on it asks the backend itself.
LEMMA CloseStep ==
    ASSUME IInv, NEW l \in Lookups, Close(l)
    PROVE  IInv'
<1> DEFINE W == {w \in Lookups : chan[w] = l}
<1> USE CacheAssumption DEF IInv
<1>1. /\ pc[l] = "closing"
      /\ chan' = [w \in Lookups |-> IF w \in W THEN None ELSE chan[w]]
      /\ pc' = [w \in Lookups |->
                    IF w = l THEN IF value[l] = None THEN "idle" ELSE "returned"
                    ELSE IF w \in W THEN "direct" ELSE pc[w]]
      /\ addr' = [addr EXCEPT ![l] = IF value[l] = None THEN None ELSE addr[l]]
      /\ sampled' = [sampled EXCEPT ![l] = 0]
      /\ UNCHANGED <<value, since, cache, backend, floor, now>>
  BY DEF Close
<1>2. l \notin W /\ addr[l] \in Addrs
  BY <1>1 DEF TypeOK, Shape
<1>3. \A w \in W : pc[w] = "waiting" /\ addr[w] \in Addrs
  BY DEF TypeOK, Shape
<1>4. TypeOK'
  BY <1>1, <1>2, <1>3 DEF TypeOK, PC, ResolverPC
<1>5. Shape'
  BY <1>1, <1>2, <1>3 DEF Shape, TypeOK
<1>6. Owned'
  <2>1. \A k \in Lookups : pc'[k] \in ResolverPC => pc[k] \in ResolverPC /\ addr'[k] = addr[k]
    BY <1>1 DEF TypeOK, ResolverPC
  <2>2. \A k \in Lookups : pc[k] \in ResolverPC \cup {"dropping"} =>
            pc'[k] = pc[k] /\ addr'[k] = addr[k]
    BY <1>1, <1>3 DEF TypeOK, ResolverPC
  <2> QED
    BY <1>1, <2>1, <2>2 DEF Owned
<1>7. ChannelsLive'
  <2> SUFFICES ASSUME NEW w \in Lookups, pc'[w] = "waiting"
               PROVE  /\ pc'[chan'[w]] \in ResolverPC \cup {"sending", "dropping", "closing"}
                      /\ addr'[chan'[w]] = addr'[w]
                      /\ pc'[chan'[w]] = "sending" => value'[chan'[w]] >= since'[w]
    BY DEF ChannelsLive
  <2>1. /\ w \notin W /\ w # l /\ pc[w] = "waiting" /\ chan'[w] = chan[w]
        /\ chan[w] \in Lookups /\ chan[w] # l
    BY <1>1 DEF TypeOK
  <2>2. /\ pc[chan[w]] \in ResolverPC \cup {"sending", "dropping", "closing"}
        /\ addr[chan[w]] = addr[w]
        /\ pc[chan[w]] = "sending" => value[chan[w]] >= since[w]
    BY <2>1 DEF ChannelsLive
  <2>3. chan[w] \notin W
    BY <1>3, <2>2 DEF ResolverPC
  <2>4. pc'[chan[w]] = pc[chan[w]] /\ addr'[chan[w]] = addr[chan[w]] /\ addr'[w] = addr[w]
    BY <1>1, <2>1, <2>3 DEF TypeOK
  <2> QED
    BY <1>1, <2>1, <2>2, <2>4
<1>8. FloorsKept'
  <2>1. \A w \in Lookups : pc'[w] # "idle" => pc[w] # "idle" /\ addr'[w] = addr[w]
    BY <1>1, <1>3 DEF TypeOK
  <2>2. \A w \in Lookups : pc'[w] \in {"read", "storing"} => pc'[w] = pc[w]
    BY <1>1
  <2>3. \A w \in Lookups : pc'[w] \in {"sending", "dropping", "closing", "returned"} =>
            pc[w] \in {"sending", "dropping", "closing", "returned"}
    BY <1>1
  <2> QED
    BY <1>1, <2>1, <2>2, <2>3 DEF FloorsKept
<1> QED
  BY <1>1, <1>4, <1>5, <1>6, <1>7, <1>8

\* The caller takes the result.
LEMMA ReturnStep ==
    ASSUME IInv, NEW l \in Lookups, Return(l)
    PROVE  IInv'
<1> USE CacheAssumption DEF IInv, Return
<1>1. TypeOK'
  BY DEF TypeOK, PC, ResolverPC
<1>2. Shape'
  BY DEF Shape, TypeOK
<1>3. Owned'
  BY DEF Owned, TypeOK, ResolverPC
<1>4. ChannelsLive'
  BY DEF ChannelsLive, TypeOK, ResolverPC
<1>5. FloorsKept'
  BY DEF FloorsKept, TypeOK
<1> QED
  BY <1>1, <1>2, <1>3, <1>4, <1>5

\* The future of a lookup is dropped.
LEMMA CancelStep ==
    ASSUME IInv, NEW l \in Lookups, Cancel(l)
    PROVE  IInv'
<1> USE CacheAssumption DEF IInv
<1>1. CASE /\ pc[l] \in {"resolving", "read"}
           /\ pc' = [pc EXCEPT ![l] = "dropping"]
           /\ value' = [value EXCEPT ![l] = None]
           /\ UNCHANGED <<addr, sampled, chan, since, cache, backend, floor, now>>
  <2>1. TypeOK'
    BY <1>1 DEF TypeOK, PC, ResolverPC
  <2>2. Shape'
    BY <1>1 DEF Shape, TypeOK
  <2>3. Owned'
    BY <1>1 DEF Owned, TypeOK, ResolverPC
  <2>4. ChannelsLive'
    BY <1>1 DEF ChannelsLive, TypeOK, ResolverPC
  <2>5. FloorsKept'
    BY <1>1 DEF FloorsKept, TypeOK
  <2> QED
    BY <1>1, <2>1, <2>2, <2>3, <2>4, <2>5
<1>2. CASE /\ pc[l] \in {"waiting", "direct"}
           /\ pc' = [pc EXCEPT ![l] = "idle"]
           /\ addr' = [addr EXCEPT ![l] = None]
           /\ chan' = [chan EXCEPT ![l] = None]
           /\ sampled' = [sampled EXCEPT ![l] = 0]
           /\ since' = [since EXCEPT ![l] = 0]
           /\ UNCHANGED <<value, cache, backend, floor, now>>
  <2>1. TypeOK'
    BY <1>2 DEF TypeOK, PC, ResolverPC
  <2>2. Shape'
    BY <1>2 DEF Shape, TypeOK
  <2>3. Owned'
    BY <1>2 DEF Owned, TypeOK, ResolverPC
  <2>4. ChannelsLive'
    BY <1>2 DEF ChannelsLive, TypeOK, ResolverPC
  <2>5. FloorsKept'
    BY <1>2 DEF FloorsKept, TypeOK
  <2> QED
    BY <1>2, <2>1, <2>2, <2>3, <2>4, <2>5
<1> QED
  BY <1>1, <1>2 DEF Cancel

\* An invalidation raises floors only where no lookup is in flight, and
\* leaves no resolved slot there.
LEMMA NotedStep ==
    ASSUME IInv, NEW A \in SUBSET Addrs, floor' = Noted(A),
           CacheSound(cache'), Shrunk(cache, cache'),
           \A a \in A : cache'.slots[a].tag # "resolved",
           UNCHANGED <<lookupVars, backend, now>>
    PROVE  IInv'
<1> USE CacheAssumption DEF IInv
<1>1. UNCHANGED <<pc, addr, sampled, value, chan, since, backend, now>>
  BY DEF lookupVars
<1>2. \A a \in Addrs :
        /\ floor'[a] = IF a \in A /\ cache.slots[a].tag # "pending" THEN backend[a] ELSE floor[a]
        /\ floor'[a] >= floor[a] /\ floor'[a] <= backend[a]
        /\ floor'[a] \in 0 .. MaxVersion
  BY DEF Noted, TypeOK, FloorsKept
<1>3. \A a \in Addrs :
        /\ \A l \in Lookups : cache'.slots[a] = Pending(l) <=> cache.slots[a] = Pending(l)
        /\ cache'.slots[a].tag = "resolved" => cache'.slots[a] = cache.slots[a]
  BY ShrunkKeeps
<1>4. TypeOK'
  <2>1. floor' \in [Addrs -> 0 .. MaxVersion]
    BY DEF Noted, TypeOK
  <2> QED
    BY <1>1, <2>1 DEF TypeOK, CacheSound, CacheType
<1>5. Shape'
  BY <1>1 DEF Shape
<1>6. Owned'
  BY <1>1, <1>3 DEF Owned, Shape, ResolverPC
<1>7. ChannelsLive'
  BY <1>1 DEF ChannelsLive
<1>8. FloorsKept'
  <2>1. \A a \in Addrs : cache'.slots[a].tag = "resolved" => cache'.slots[a].value >= floor'[a]
    BY <1>2, <1>3 DEF FloorsKept
  <2>2. \A l \in Lookups : pc[l] # "idle" => since[l] <= floor'[addr[l]]
    BY <1>2 DEF FloorsKept, TypeOK, Shape
  <2>3. \A l \in Lookups : pc[l] \in {"read", "storing"} => value[l] >= floor'[addr[l]]
    <3> SUFFICES ASSUME NEW l \in Lookups, pc[l] \in {"read", "storing"}
                 PROVE  value[l] >= floor'[addr[l]]
      OBVIOUS
    <3>1. addr[l] \in Addrs /\ cache.slots[addr[l]].tag = "pending"
      BY SlotsMade DEF Owned, Shape, ResolverPC
    <3> QED
      BY <1>2, <3>1 DEF FloorsKept
  <2> QED
    BY <1>1, <1>2, <2>1, <2>2, <2>3 DEF FloorsKept
<1> QED
  BY <1>4, <1>5, <1>6, <1>7, <1>8

\* The operator's two calls.
LEMMA InvalidateStep ==
    ASSUME IInv, (\E a \in Addrs : Invalidate(a)) \/ ClearAll
    PROVE  IInv'
<1> USE DEF IInv
<1>1. ASSUME NEW a \in Addrs, Invalidate(a) PROVE IInv'
  <2>1. /\ cache' = IF cache.slots[a].tag = "resolved" THEN Remove(cache, a) ELSE cache
        /\ floor' = Noted({a})
        /\ UNCHANGED <<lookupVars, backend, now>>
    BY <1>1 DEF Invalidate
  <2>2. cache.slots \in [Addrs -> Slots]
    BY DEF TypeOK
  <2>3. /\ CacheSound(cache')
        /\ cache'.slots = IF cache.slots[a].tag = "resolved"
                          THEN [cache.slots EXCEPT ![a] = Free] ELSE cache.slots
    BY <2>1, RemoveSound
  <2>4. Shrunk(cache, cache') /\ cache'.slots[a].tag # "resolved"
    BY <2>2, <2>3, SlotsMade DEF Shrunk
  <2> QED
    BY <2>1, <2>3, <2>4, NotedStep
<1>2. CASE ClearAll
  <2>1. /\ cache' = [slots |-> [a \in Addrs |-> IF cache.slots[a].tag = "pending"
                                                THEN cache.slots[a] ELSE Free],
                     index |-> {}]
        /\ floor' = Noted(Addrs)
        /\ UNCHANGED <<lookupVars, backend, now>>
    BY <1>2 DEF ClearAll
  <2>2. CacheSound(cache') /\ Shrunk(cache, cache')
    BY <2>1, ClearSound
  <2>3. \A a \in Addrs : cache'.slots[a].tag # "resolved"
    BY <2>1, SlotsMade
  <2> QED
    BY <2>1, <2>2, <2>3, NotedStep
<1> QED
  BY <1>1, <1>2

\* The record behind an address changes.
LEMMA ChangeStep ==
    ASSUME IInv, NEW a \in Addrs, Change(a)
    PROVE  IInv'
<1> USE CacheAssumption DEF IInv
<1>1. /\ backend[a] < MaxVersion /\ backend' = [backend EXCEPT ![a] = backend[a] + 1]
      /\ UNCHANGED <<pc, addr, sampled, value, chan, since, cache, floor, now>>
  BY DEF Change, lookupVars
<1>2. TypeOK'
  BY <1>1 DEF TypeOK
<1>3. Shape' /\ Owned' /\ ChannelsLive'
  BY <1>1 DEF Shape, Owned, ChannelsLive
<1>4. FloorsKept'
  BY <1>1 DEF FloorsKept, TypeOK
<1> QED
  BY <1>1, <1>2, <1>3, <1>4

\* Steps that the lookups and the cache do not notice.
LEMMA QuietStep ==
    ASSUME IInv, Tick \/ UNCHANGED vars
    PROVE  IInv'
<1>1. /\ now' \in Nat
      /\ UNCHANGED <<pc, addr, sampled, value, chan, since, cache, backend, floor>>
  BY DEF IInv, Tick, vars, lookupVars, TypeOK
<1> QED
  BY <1>1 DEF IInv, TypeOK, Shape, Owned, ChannelsLive, FloorsKept

-----------------------------------------------------------------------------
(* Theorems.                                                               *)

\* The strengthening that the properties of the cache follow from.
THEOREM Invariance == Spec => []IInv
<1>1. Init => IInv
  <2> SUFFICES ASSUME Init PROVE IInv
    OBVIOUS
  <2> USE CacheAssumption DEF Init
  <2>1. TypeOK
    BY SlotsMade DEF TypeOK, PC
  <2>2. CacheSound(cache)
    <3>1. Occupied(cache) = {}
      BY DEF Occupied
    <3>2. Bounded(cache)
      BY <3>1, FS_EmptySet DEF Bounded
    <3>3. Listed(cache)
      BY SlotsMade DEF Listed
    <3> QED
      BY <2>1, <3>2, <3>3 DEF CacheSound, CacheType, TypeOK
  <2>3. Shape /\ Owned /\ ChannelsLive /\ FloorsKept
    BY SlotsMade DEF Shape, Owned, ChannelsLive, FloorsKept, ResolverPC
  <2> QED
    BY <2>1, <2>2, <2>3 DEF IInv
<1>2. IInv /\ [Next]_vars => IInv'
  <2> SUFFICES ASSUME IInv, [Next]_vars PROVE IInv'
    OBVIOUS
  <2>1. ASSUME NEW l \in Lookups, NEW a \in Addrs, Begin(l, a) PROVE IInv'
    BY <2>1, BeginStep
  <2>2. ASSUME NEW l \in Lookups, LookupStep(l) PROVE IInv'
    BY <2>2, HitStep, WaitStep, MissStep, BackendReadStep, FetchedStep, StoreStep,
       BroadcastStep, WithdrawStep, CloseStep, ReturnStep DEF LookupStep
  <2>3. ASSUME NEW l \in Lookups, Cancel(l) PROVE IInv'
    BY <2>3, CancelStep
  <2>4. ASSUME NEW a \in Addrs, Change(a) PROVE IInv'
    BY <2>4, ChangeStep
  <2>5. CASE (\E a \in Addrs : Invalidate(a)) \/ ClearAll
    BY <2>5, InvalidateStep
  <2>6. CASE Tick \/ UNCHANGED vars
    BY <2>6, QuietStep
  <2> QED
    BY <2>1, <2>2, <2>3, <2>4, <2>5, <2>6 DEF Next
<1> QED
  BY <1>1, <1>2, PTL DEF Spec

\* An address never has two resolvers, whatever is evicted, invalidated,
\* withdrawn and looked up again in between.
THEOREM SingleFlightHolds == Spec => []SingleFlight
<1>1. IInv => SingleFlight
  BY SlotsMade DEF IInv, Owned, SingleFlight
<1> QED
  BY <1>1, Invariance, PTL

\* Resolved and pending slots together stay within the capacity, and every
\* resolved slot is in the index that eviction reads.
THEOREM EvictionSoundHolds == Spec => []EvictionSound
<1>1. IInv => EvictionSound
  <2> SUFFICES ASSUME IInv PROVE EvictionSound
    OBVIOUS
  <2>1. TypeOK /\ Listed(cache) /\ Bounded(cache)
    BY DEF IInv, CacheSound
  <2> DEFINE R == {b \in Addrs : cache.slots[b].tag = "resolved"}
  <2>2. /\ cache.slots \in [Addrs -> Slots]
        /\ cache.index \subseteq [deadline : Nat, addr : Addrs]
    BY <2>1 DEF TypeOK
  <2>3. \A a \in R : [deadline |-> cache.slots[a].expires_at, addr |-> a] \in cache.index
    BY <2>1, <2>2, SlotForms DEF Listed
  <2>4. \A x \in cache.index :
            x.addr \in R /\ x = [deadline |-> cache.slots[x.addr].expires_at, addr |-> x.addr]
    BY <2>1, <2>2 DEF Listed
  <2>5. IndexExact
    BY <2>3, <2>4 DEF IndexExact
  <2> QED
    BY <2>1, <2>5 DEF EvictionSound, WithinCapacity, Bounded
<1> QED
  BY <1>1, Invariance, PTL

\* No lookup that began after an effective invalidation returns an answer
\* from before it, from whichever of the three places it gets it.
THEOREM FreshAfterInvalidateHolds == Spec => []FreshAfterInvalidate
<1>1. IInv => FreshAfterInvalidate
  BY DEF IInv, FloorsKept, Shape, FreshAfterInvalidate
<1> QED
  BY <1>1, Invariance, PTL

-----------------------------------------------------------------------------
(* The stores.                                                             *)

\* Entries have clients that were made, and which None is not.
Records == [id : 0 .. IdModulus - 1, require_message_authenticator : BOOLEAN,
            status_server_enabled : BOOLEAN]

Networks == {Stores!Mask(a, p) : a \in Stores!Addresses, p \in Nat}

Rows == {r \in [cidr : [network : Networks, prefix_len : Nat], given : Stores!Addresses, client : Records] :
            /\ r.cidr.prefix_len <= Width[r.given.family]
            /\ r.cidr.network = Stores!Mask(r.given, r.cidr.prefix_len)}

StoreInv ==
    /\ next \in 0 .. IdModulus - 1
    /\ clients \in Seq(Records)
    /\ table \in Seq(Rows)

LEMMA AddressIs ==
    ASSUME NEW a \in Stores!Addresses
    PROVE  /\ a.family \in DOMAIN Width /\ a.bits \in 0 .. 2 ^ Width[a.family] - 1
           /\ a = [family |-> a.family, bits |-> a.bits]
<1>1. PICK f \in DOMAIN Width : a \in [family : {f}, bits : 0 .. 2 ^ Width[f] - 1]
  BY DEF Stores!Addresses, Stores!Families
<1> QED
  BY <1>1

\* A mask clears the bits behind the prefix, for prefixes of no bits and of all
\* bits too: the shift by the whole width, which is none, is not used.
LEMMA MaskIs ==
    ASSUME Stores!ClientStoresAssumption, NEW a \in Stores!Addresses, NEW p \in 0 .. Width[a.family]
    PROVE  LET m == 2 ^ (Width[a.family] - p)
           IN /\ m \in Nat \ {0}
              /\ Stores!Mask(a, p) = [family |-> a.family, bits |-> a.bits - (a.bits % m)]
<1> DEFINE w == Width[a.family]
           k == w - p
           m == 2 ^ k
           b == a.bits
<1>1. w \in Nat \ {0} /\ a.family \in DOMAIN Width /\ b \in 0 .. 2 ^ w - 1
  BY AddressIs DEF Stores!ClientStoresAssumption
<1>2. k \in 0 .. w
  BY <1>1
<1>3. m \in Nat \ {0}
  <2>1. m > 0
    BY <1>1, <1>2 DEF Stores!ClientStoresAssumption
  <2>2. m \in Int
    BY <1>2
  <2> HIDE DEF m
  <2> QED
    BY <2>1, <2>2
<1>4. b \in Nat
  BY <1>1
<1>5. CASE p = 0
  <2>1. k = w
    BY <1>1, <1>5
  <2>2. b < m
    BY <1>1, <1>3, <2>1
  <2>3. b - (b % m) = 0
    <3> HIDE DEF m, b
    <3> QED
      BY <1>3, <1>4, <2>2
  <2>4. Stores!Mask(a, p) = [a EXCEPT !.bits = 0]
    BY <1>5 DEF Stores!Mask
  <2>5. [a EXCEPT !.bits = 0] = [family |-> a.family, bits |-> 0]
    BY AddressIs
  <2> QED
    BY <1>3, <2>3, <2>4, <2>5
<1>6. CASE p # 0
  <2>1. k \in Nat /\ k < w /\ k % w = k
    BY <1>1, <1>2, <1>6
  <2>2. Stores!And(w, b, k) = b - (b % m)
    <3>1. CASE Stores!Ones(w, k) = 2 ^ w - 1
      <4>1. 2 ^ w - m = 2 ^ w - 1 /\ 2 ^ w \in Int
        BY <1>1, <2>1, <3>1 DEF Stores!Ones
      <4>2. m = 1
        <5> HIDE DEF m
        <5> QED
          BY <1>3, <4>1
      <4>3. b - (b % m) = b
        <5> HIDE DEF m, b
        <5> QED
          BY <1>4, <4>2
      <4> QED
        BY <3>1, <4>3 DEF Stores!And
    <3>2. CASE Stores!Ones(w, k) # 2 ^ w - 1
      BY <3>2 DEF Stores!And
    <3> QED
      BY <3>1, <3>2
  <2>3. Stores!Mask(a, p) = [a EXCEPT !.bits = Stores!And(w, b, k)]
    BY <1>6 DEF Stores!Mask
  <2>4. \A x : [a EXCEPT !.bits = x] = [family |-> a.family, bits |-> x]
    BY AddressIs
  <2> QED
    BY <1>3, <2>2, <2>3, <2>4, Zenon
<1> QED
  BY <1>5, <1>6

LEMMA Cleared ==
    ASSUME NEW a \in Nat, NEW b \in Nat, NEW m \in Nat \ {0}
    PROVE  a - (a % m) = b - (b % m) <=> a \div m = b \div m
OBVIOUS

\* A set of natural numbers has a least one.
LEMMA LeastOfSome ==
    ASSUME NEW T \in SUBSET Nat, T # {}
    PROVE  \E x \in T : \A y \in T : x <= y
<1> DEFINE Less == {s \in Nat \X Nat : s[1] < s[2]}
<1>1. OpToRel(<, Nat) = Less
  BY DEF OpToRel
<1>2. IsWellFoundedOn(Less, Nat)
  BY <1>1, NatLessThanWellFounded
<1> HIDE DEF Less
<1>3. PICK x \in T : \A y \in T : <<y, x>> \notin Less
  BY <1>2, WFMin
<1>4. ASSUME NEW y \in T PROVE x <= y
  <2>1. x \in Nat /\ y \in Nat /\ <<y, x>> \notin Less
    BY <1>3
  <2> QED
    BY <2>1 DEF Less
<1> QED
  BY <1>4

\* The search of the table ends at the first entry that matches.
LEMMA FindsFirst ==
    ASSUME Stores!ClientStoresAssumption, StoreInv, NEW a
    PROVE  LET M == Stores!Matching(a)
           IN /\ M \subseteq DOMAIN table /\ M \subseteq Nat
              /\ M = {} => Stores!Find(a) = None
              /\ M # {} => /\ Stores!Find(a) \in M /\ Stores!Find(a) # None
                           /\ \A j \in M : Stores!Find(a) <= j
<1> DEFINE M == Stores!Matching(a)
<1>1. M \subseteq DOMAIN table
  BY DEF Stores!Matching
<1>2. DOMAIN table \subseteq Nat
  BY DEF StoreInv
<1>3. M = {} => Stores!Find(a) = None
  BY DEF Stores!Find
<1>4. ASSUME M # {}
      PROVE  Stores!Find(a) \in M /\ \A j \in M : Stores!Find(a) <= j
  <2>1. \E i \in M : \A j \in M : i <= j
    BY <1>1, <1>2, <1>4, LeastOfSome
  <2>2. Stores!Find(a) = CHOOSE i \in M : \A j \in M : i <= j
    BY <1>4 DEF Stores!Find
  <2> HIDE DEF M
  <2> QED
    BY <2>1, <2>2
<1>5. None \notin Nat
  BY DEF Stores!ClientStoresAssumption
<1> QED
  BY <1>1, <1>2, <1>3, <1>4, <1>5

LEMMA RowsAre ==
    ASSUME StoreInv, NEW i \in DOMAIN table
    PROVE  /\ table[i].client \in Records /\ table[i].cidr.prefix_len \in Nat
           /\ table[i].given \in Stores!Addresses
           /\ table[i].cidr.prefix_len <= Width[table[i].given.family]
           /\ table[i].cidr.network = Stores!Mask(table[i].given, table[i].cidr.prefix_len)
<1>1. table[i] \in Rows
  BY DEF StoreInv
<1> QED
  BY <1>1 DEF Rows

LEMMA StoreImplies ==
    ASSUME Stores!ClientStoresAssumption, StoreInv
    PROVE  Stores!CoversItsPrefix /\ Stores!LongestPrefixWins /\ Stores!AdmittedHaveClients
<1>1. \A i \in DOMAIN table : table[i].client # None
  BY RowsAre DEF Stores!ClientStoresAssumption, Records
<1>2. \A a : (Stores!LookupUdp(a) = None) = (Stores!Matching(a) = {})
  BY <1>1, FindsFirst DEF Stores!LookupUdp
<1>3. Stores!LongestPrefixWins
  <2> SUFFICES ASSUME Stores!SpecificFirst, NEW a \in Stores!Addresses, Stores!Find(a) # None,
                      NEW i \in Stores!Matching(a)
               PROVE  table[i].cidr.prefix_len <= table[Stores!Find(a)].cidr.prefix_len
    BY <1>2 DEF Stores!LongestPrefixWins
  <2> DEFINE f == Stores!Find(a)
  <2>1. f \in DOMAIN table /\ i \in DOMAIN table /\ f <= i /\ f \in Nat /\ i \in Nat
    BY FindsFirst
  <2> HIDE DEF f
  <2>2. /\ table[f].cidr.prefix_len \in Nat /\ table[i].cidr.prefix_len \in Nat
        /\ f < i => table[f].cidr.prefix_len >= table[i].cidr.prefix_len
    BY <2>1, RowsAre DEF Stores!SpecificFirst
  <2>3. CASE f = i
    BY <2>2, <2>3 DEF f
  <2>4. CASE f < i
    BY <2>2, <2>4 DEF f
  <2> QED
    BY <2>1, <2>3, <2>4
<1>4. Stores!AdmittedHaveClients
  <2> SUFFICES ASSUME NEW a \in Stores!Addresses
               PROVE  /\ Stores!AdmitRadsec(a) = (Stores!LookupRadsecByCert(a) # None)
                      /\ (Stores!AdmitRadsec(a) => Stores!LookupRadsecByCert(a) = Stores!LookupUdp(a))
    BY DEF Stores!AdmittedHaveClients
  <2>1. (\E i \in DOMAIN table : Stores!Contains(table[i].cidr, a)) <=> Stores!Matching(a) # {}
    BY DEF Stores!Matching
  <2> QED
    BY <1>2, <2>1 DEF Stores!AdmitRadsec, Stores!LookupRadsecByCert
<1>5. Stores!CoversItsPrefix
  <2> SUFFICES ASSUME NEW i \in DOMAIN table, NEW a \in Stores!Addresses
               PROVE  Stores!Contains(table[i].cidr, a) <=>
                        /\ a.family = table[i].given.family
                        /\ Stores!Lead(a, table[i].cidr.prefix_len) = Stores!Lead(table[i].given, table[i].cidr.prefix_len)
    BY DEF Stores!CoversItsPrefix
  <2> DEFINE g == table[i].given
             p == table[i].cidr.prefix_len
             m == 2 ^ (Width[a.family] - p)
  <2>1. /\ g \in Stores!Addresses /\ p \in Nat /\ p <= Width[g.family]
        /\ table[i].cidr.network = Stores!Mask(g, p)
    BY RowsAre
  <2> HIDE DEF g, p
  <2>2. Width[g.family] \in Nat /\ p \in 0 .. Width[g.family]
    BY <2>1, AddressIs DEF Stores!ClientStoresAssumption
  <2>3. Stores!Mask(g, p).family = g.family
    BY <2>1, <2>2, MaskIs
  <2>4. CASE a.family # g.family
    BY <2>1, <2>3, <2>4 DEF Stores!Contains, g
  <2>5. CASE a.family = g.family
    <3>1. /\ m \in Nat \ {0}
          /\ Stores!Mask(a, p) = [family |-> a.family, bits |-> a.bits - (a.bits % m)]
          /\ Stores!Mask(g, p) = [family |-> a.family, bits |-> g.bits - (g.bits % m)]
      <4>1. /\ m \in Nat \ {0}
            /\ Stores!Mask(a, p) = [family |-> a.family, bits |-> a.bits - (a.bits % m)]
        BY <2>2, <2>5, MaskIs
      <4>2. Stores!Mask(g, p) = [family |-> g.family, bits |-> g.bits - (g.bits % (2 ^ (Width[g.family] - p)))]
        BY <2>1, <2>2, MaskIs
      <4> QED
        BY <2>5, <4>1, <4>2
    <3>2. a.bits \in Nat /\ g.bits \in Nat
      BY <2>1, AddressIs
    <3>3. Stores!Lead(a, p) = a.bits \div m /\ Stores!Lead(g, p) = g.bits \div m
      BY <2>5 DEF Stores!Lead
    <3> HIDE DEF m
    <3>4. (Stores!Mask(a, p) = Stores!Mask(g, p)) <=> a.bits - (a.bits % m) = g.bits - (g.bits % m)
      BY <3>1
    <3>5. (Stores!Mask(a, p) = Stores!Mask(g, p)) <=> Stores!Lead(a, p) = Stores!Lead(g, p)
      <4>1. m \in Nat \ {0}
        BY <3>1
      <4>2. a.bits - (a.bits % m) = g.bits - (g.bits % m) <=> a.bits \div m = g.bits \div m
        BY <3>2, <4>1, Cleared, Zenon
      <4> QED
        BY <3>3, <3>4, <4>2, Zenon
    <3> QED
      BY <2>1, <2>3, <2>5, <3>5 DEF Stores!Contains, g, p
  <2> QED
    BY <2>4, <2>5 DEF g, p
<1> QED
  BY <1>3, <1>4, <1>5

\* For any clients and any table over addresses of any widths: an entry covers
\* exactly the addresses with the leading bits of its own; a lookup finds the
\* first entry that matches, which has the longest prefix when the more
\* specific entries come first; and a peer is admitted to a handshake exactly
\* if the store has a client for it, the one it has over UDP (mask_v4,
\* mask_v6, lookup_udp, admit_radsec, lookup_radsec_by_cert).
THEOREM StoresConsistent ==
    ASSUME Stores!ClientStoresAssumption
    PROVE  Stores!Spec => [](Stores!CoversItsPrefix /\ Stores!LongestPrefixWins /\ Stores!AdmittedHaveClients)
<1>1. Stores!Init => StoreInv
  BY DEF Stores!Init, StoreInv, Stores!ClientStoresAssumption
<1>2. StoreInv /\ [Stores!Next]_Stores!vars => StoreInv'
  <2> SUFFICES ASSUME StoreInv, [Stores!Next]_Stores!vars PROVE StoreInv'
    OBVIOUS
  <2>1. CASE UNCHANGED Stores!vars
    BY <2>1 DEF Stores!vars, StoreInv
  <2>2. ASSUME NEW f \in Flags, Stores!NewClient(f[1], f[2]) PROVE StoreInv'
    <3>1. /\ next' = (next + 1) % IdModulus /\ table' = table
          /\ clients' = IF next = 0 THEN clients
                        ELSE Append(clients, [id |-> next, require_message_authenticator |-> f[1],
                                              status_server_enabled |-> f[2]])
      BY <2>2 DEF Stores!NewClient, Stores!FetchAdd
    <3>2. f[1] \in BOOLEAN /\ f[2] \in BOOLEAN
      BY DEF Stores!ClientStoresAssumption
    <3>3. [id |-> next, require_message_authenticator |-> f[1], status_server_enabled |-> f[2]] \in Records
      BY <3>2, Zenon DEF StoreInv, Records
    <3>4. clients' \in Seq(Records)
      BY <3>1, <3>3 DEF StoreInv
    <3>5. next' \in 0 .. IdModulus - 1
      BY <3>1 DEF StoreInv, Stores!ClientStoresAssumption
    <3> QED
      BY <3>1, <3>4, <3>5 DEF StoreInv
  <2>3. ASSUME NEW a \in Stores!Addresses, NEW c \in DOMAIN clients, NEW p \in 0 .. Width[a.family] + 1,
               Stores!Add(a, p, clients[c])
        PROVE  StoreInv'
    <3> DEFINE cidr == IF p = Width[a.family] THEN Stores!Host(a) ELSE Stores!NewCidr(a, p)
               e == [cidr |-> cidr, given |-> a, client |-> clients[c]]
    <3>1. /\ UNCHANGED <<next, clients>>
          /\ table' = IF cidr = None THEN table ELSE Append(table, e)
      BY <2>3 DEF Stores!Add
    <3>2. clients[c] \in Records
      BY DEF StoreInv
    <3>3. cidr # None => cidr = [network |-> Stores!Mask(a, p), prefix_len |-> p] /\ p <= Width[a.family]
      <4>1. a.family \in DOMAIN Width
        BY AddressIs
      <4>2. Width[a.family] \in Nat /\ p \in Int
        BY <4>1 DEF Stores!ClientStoresAssumption
      <4> QED
        BY <4>2 DEF Stores!Host, Stores!NewCidr
    <3>4. p \in Nat
      OBVIOUS
    <3>5. cidr # None => e \in Rows
      <4> DEFINE m == Stores!Mask(a, p)
                 x == clients[c]
      <4>1. m \in Networks /\ a \in Stores!Addresses /\ x \in Records
        BY <3>2, <3>4 DEF Networks
      <4>2. cidr # None => e = [cidr |-> [network |-> m, prefix_len |-> p], given |-> a, client |-> x]
        BY <3>3
      <4>3. [cidr |-> [network |-> m, prefix_len |-> p], given |-> a, client |-> x] \in
                [cidr : [network : Networks, prefix_len : Nat], given : Stores!Addresses, client : Records]
        <5> HIDE DEF m, x
        <5> QED
          BY <3>4, <4>1
      <4> QED
        BY <3>3, <4>2, <4>3 DEF Rows
    <3> HIDE DEF e, cidr
    <3>6. table' \in Seq(Rows)
      BY <3>1, <3>5 DEF StoreInv
    <3> QED
      BY <3>1, <3>6 DEF StoreInv
  <2>4. CASE Stores!Build
    BY <2>4 DEF Stores!Build, StoreInv
  <2> QED
    BY <2>1, <2>2, <2>3, <2>4 DEF Stores!Next
<1>3. StoreInv => Stores!CoversItsPrefix /\ Stores!LongestPrefixWins /\ Stores!AdmittedHaveClients
  BY StoreImplies
<1> QED
  BY <1>1, <1>2, <1>3, PTL DEF Stores!Spec

-----------------------------------------------------------------------------
(* Building the dictionaries.                                              *)

OnDisk == Dict!OnDisk
Settled == {"edit", "rustc", "built", "failed"}

\* The manifests have what the vendors on disk need.
Covered == manifest.root # None => \A v \in OnDisk : v \in manifest.pkg /\ v \in manifest.root

\* What the script is about to render, what it has rendered, and which edits it
\* has not seen.
BuildTypes ==
    /\ Dict!TypeOK
    /\ DOMAIN source = Dict!Groups /\ enabled \subseteq Dict!Groups
    /\ todo \subseteq DOMAIN Dict!Order

Rendered(g) == rendered[g] = source[g]

BuildSeen ==
    /\ phase = "script" => /\ Covered /\ dirty = {}
                           /\ \A i \in DOMAIN Dict!Order :
                                Dict!Order[i] \in enabled \cap ({Rfc} \cup OnDisk) =>
                                    i \in todo \/ Rendered(Dict!Order[i])
    /\ phase \in Settled /\ "vendor" \notin dirty =>
            Covered /\ mods = OnDisk /\ \A v \in enabled \cap OnDisk : Rendered(v)
    /\ phase \in Settled /\ "rfc" \notin dirty /\ Rfc \in enabled => Rendered(Rfc)
    /\ phase \in {"rustc", "built", "failed"} => dirty \cap Dict!Watched = {}
    /\ phase = "built" => program = [g \in Dict!Modules |-> rendered[g]]

BuildInv == BuildTypes /\ BuildSeen

\* Every group has its place in the order.
LEMMA OrderIs ==
    ASSUME Dict!BuildAssumption
    PROVE  /\ \A i \in DOMAIN Dict!Order : Dict!Order[i] \in Dict!Groups
           /\ \A g \in Dict!Groups : \E i \in DOMAIN Dict!Order : Dict!Order[i] = g
           /\ \A v \in Dict!Range(Vendors) : v \in Dict!Groups /\ v # Rfc
           /\ Rfc \in Dict!Groups
BY DEF Dict!BuildAssumption, Dict!Order, Dict!Groups, Dict!Range

LEMMA BuildStarts ==
    ASSUME Dict!BuildAssumption, Dict!Init
    PROVE  BuildInv
<1>1. BuildTypes
  BY DEF Dict!Init, Dict!BuildAssumption, BuildTypes, Dict!TypeOK
<1>2. BuildSeen
  BY DEF Dict!Init, BuildSeen, Dict!Watched
<1> QED
  BY <1>1, <1>2 DEF BuildInv

LEMMA EditKeeps ==
    ASSUME Dict!BuildAssumption, BuildInv, Dict!Edit
    PROVE  BuildInv'
<1>1. PICK e \in Edits :
        /\ source' = [source EXCEPT ![e[1]] = e[2]]
        /\ dirty' = (IF phase = "panic" THEN {"rfc", "vendor"} ELSE dirty)
                       \cup {IF e[1] = Rfc THEN "rfc" ELSE "vendor"}
  BY DEF Dict!Edit
<1>2. /\ phase \in {"edit", "built", "panic", "failed"} /\ phase' = "edit"
      /\ UNCHANGED <<manifest, enabled, rendered, mods, todo, program>>
  BY DEF Dict!Edit
<1>3. e[1] \in Dict!Groups
  BY DEF Dict!BuildAssumption
<1>4. BuildTypes'
  BY <1>1, <1>2 DEF BuildInv, BuildTypes, Dict!TypeOK, Dict!Groups, Dict!Order
<1>5. \A g \in Dict!Groups : g # e[1] => source'[g] = source[g]
  BY <1>1 DEF BuildInv, BuildTypes
<1>6. "vendor" \notin dirty' => /\ e[1] = Rfc /\ "vendor" \notin dirty /\ phase # "panic"
  BY <1>1
<1>7. "vendor" \notin dirty' => OnDisk' = OnDisk /\ \A v \in OnDisk : source'[v] = source[v]
  BY <1>5, <1>6, OrderIs DEF OnDisk, Dict!OnDisk
<1>8. "rfc" \notin dirty' => source'[Rfc] = source[Rfc] /\ "rfc" \notin dirty /\ phase # "panic"
  BY <1>1, <1>5, OrderIs
<1>9. "vendor" \notin dirty' => (Covered /\ mods = OnDisk /\ \A v \in enabled \cap OnDisk : Rendered(v))'
  BY <1>2, <1>6, <1>7 DEF BuildInv, BuildSeen, Covered, Settled, Rendered
<1>10. "rfc" \notin dirty' /\ Rfc \in enabled' => Rendered(Rfc)'
  BY <1>2, <1>8 DEF BuildInv, BuildSeen, Settled, Rendered
<1> QED
  BY <1>2, <1>4, <1>9, <1>10 DEF BuildInv, BuildSeen

LEMMA StartKeeps ==
    ASSUME Dict!BuildAssumption, BuildInv, Dict!Start
    PROVE  BuildInv'
<1>1. /\ phase = "edit" /\ dirty' = {}
      /\ UNCHANGED <<source, manifest, enabled, rendered, mods, program>>
      /\ \/ phase' = "panic" /\ UNCHANGED todo
         \/ /\ ~Dict!FeaturesMissing /\ phase' = "script"
            /\ todo' = {i \in DOMAIN Dict!Order : Dict!Order[i] \in {Rfc} \cup OnDisk}
  BY DEF Dict!Start, OnDisk
<1>2. BuildTypes'
  BY <1>1 DEF BuildInv, BuildTypes, Dict!TypeOK, Dict!Groups, Dict!Order
<1>3. ~Dict!FeaturesMissing => Covered
  BY DEF Dict!FeaturesMissing, Covered, OnDisk
<1>4. OnDisk' = OnDisk /\ Covered' = Covered
  BY <1>1 DEF OnDisk, Dict!OnDisk, Covered
<1> QED
  BY <1>1, <1>2, <1>3, <1>4 DEF BuildInv, BuildSeen, Settled

LEMMA UpToDateKeeps ==
    ASSUME Dict!BuildAssumption, BuildInv, Dict!UpToDate
    PROVE  BuildInv'
<1>1. /\ phase = "edit" /\ phase' = "rustc" /\ dirty \cap Dict!Watched = {}
      /\ UNCHANGED <<source, manifest, enabled, rendered, mods, todo, program, dirty>>
  BY DEF Dict!UpToDate
<1>2. BuildTypes'
  BY <1>1 DEF BuildInv, BuildTypes, Dict!TypeOK, Dict!Groups, Dict!Order
<1>3. OnDisk' = OnDisk /\ Covered' = Covered /\ (\A g : Rendered(g)' = Rendered(g)) /\ Dict!Watched' = Dict!Watched
  BY <1>1 DEF OnDisk, Dict!OnDisk, Covered, Rendered, Dict!Watched
<1> QED
  BY <1>1, <1>2, <1>3 DEF BuildInv, BuildSeen, Settled

LEMMA RenderKeeps ==
    ASSUME Dict!BuildAssumption, BuildInv, Dict!Render
    PROVE  BuildInv'
<1> DEFINE Order == Dict!Order
<1>1. PICK i \in todo :
        IF Order[i] \notin enabled THEN todo' = todo \ {i} /\ UNCHANGED <<rendered, phase>>
        ELSE IF source[Order[i]] = None THEN phase' = "panic" /\ UNCHANGED <<rendered, todo>>
        ELSE /\ rendered' = [rendered EXCEPT ![Order[i]] = source[Order[i]]]
             /\ todo' = todo \ {i} /\ UNCHANGED phase
  BY DEF Dict!Render
<1>2. /\ phase = "script"
      /\ UNCHANGED <<source, manifest, enabled, mods, program, dirty>>
  BY DEF Dict!Render
<1>3. i \in DOMAIN Order /\ Order[i] \in Dict!Groups
  BY OrderIs DEF BuildInv, BuildTypes
<1>4. OnDisk' = OnDisk /\ Covered' = Covered
  BY <1>2 DEF OnDisk, Dict!OnDisk, Covered
<1>5. DOMAIN rendered = Dict!Groups /\ \A g \in Dict!Groups : rendered[g] # None
  BY DEF BuildInv, BuildTypes, Dict!TypeOK
<1>6. /\ DOMAIN rendered' = Dict!Groups
      /\ \A g \in Dict!Groups : rendered'[g] # None /\ (Rendered(g) => rendered'[g] = source[g])
      /\ phase' = phase => todo' = todo \ {i} /\ (Order[i] \in enabled => rendered'[Order[i]] = source[Order[i]])
  <2> HIDE DEF Order
  <2> QED
    BY <1>1, <1>2, <1>3, <1>5 DEF Rendered
<1>7. phase' \in {"script", "panic"} /\ todo' \subseteq todo
  BY <1>1, <1>2
<1>8. BuildTypes'
  BY <1>2, <1>6, <1>7 DEF BuildInv, BuildTypes, Dict!TypeOK, Dict!Groups, Dict!Order
<1>9. ASSUME phase' = "script", NEW j \in DOMAIN Order, Order[j] \in enabled \cap ({Rfc} \cup OnDisk)
      PROVE  j \in todo' \/ Rendered(Order[j])'
  <2>1. j \in todo \/ Rendered(Order[j])
    BY <1>2, <1>9 DEF BuildInv, BuildSeen
  <2>2. Order[j] \in Dict!Groups /\ source' = source
    BY <1>2, OrderIs
  <2> HIDE DEF Order
  <2>3. Rendered(Order[j]) => rendered'[Order[j]] = source'[Order[j]]
    BY <1>6, <2>2
  <2>4. j = i => rendered'[Order[j]] = source'[Order[j]]
    BY <1>2, <1>6, <1>9, <2>2
  <2>5. j # i /\ j \in todo => j \in todo'
    BY <1>2, <1>6, <1>9
  <2>6. rendered'[Order[j]] = source'[Order[j]] => Rendered(Order[j])'
    BY DEF Rendered, Order, Dict!Order
  <2> QED
    BY <2>1, <2>3, <2>4, <2>5, <2>6
<1>10. phase' = "script" => Covered' /\ dirty' = {}
  BY <1>2, <1>4 DEF BuildInv, BuildSeen
<1>11. Dict!Order' = Dict!Order /\ enabled' = enabled
  BY <1>2 DEF Dict!Order
<1> QED
  BY <1>4, <1>7, <1>8, <1>9, <1>10, <1>11 DEF BuildInv, BuildSeen, Settled

LEMMA WriteModsKeeps ==
    ASSUME Dict!BuildAssumption, BuildInv, Dict!WriteMods
    PROVE  BuildInv'
<1>1. /\ phase = "script" /\ todo = {} /\ mods' = OnDisk /\ phase' = "rustc"
      /\ UNCHANGED <<source, manifest, enabled, rendered, todo, program, dirty>>
  BY DEF Dict!WriteMods, OnDisk
<1>2. OnDisk' = OnDisk /\ Covered' = Covered /\ (\A g : Rendered(g)' = Rendered(g))
  BY <1>1 DEF OnDisk, Dict!OnDisk, Covered, Rendered
<1>3. \A g \in enabled \cap ({Rfc} \cup OnDisk) : Rendered(g)
  BY <1>1, OrderIs DEF BuildInv, BuildSeen, OnDisk, Dict!OnDisk
<1>4. BuildTypes'
  BY <1>1 DEF BuildInv, BuildTypes, Dict!TypeOK, Dict!Groups, Dict!Order, OnDisk, Dict!OnDisk
<1> QED
  BY <1>1, <1>2, <1>3, <1>4 DEF BuildInv, BuildSeen, Settled

LEMMA CompileKeeps ==
    ASSUME Dict!BuildAssumption, BuildInv, Dict!Compile
    PROVE  BuildInv'
<1>1. /\ phase = "rustc" /\ phase' \in {"built", "failed"}
      /\ phase' = "built" => program' = [g \in Dict!Modules |-> rendered[g]]
      /\ UNCHANGED <<source, manifest, enabled, rendered, mods, todo, dirty>>
  BY DEF Dict!Compile
<1>2. BuildTypes'
  BY <1>1 DEF BuildInv, BuildTypes, Dict!TypeOK, Dict!Groups, Dict!Order
<1>3. /\ OnDisk' = OnDisk /\ Covered' = Covered /\ (\A g : Rendered(g)' = Rendered(g))
      /\ Dict!Watched' = Dict!Watched /\ Dict!Modules' = Dict!Modules
  BY <1>1 DEF OnDisk, Dict!OnDisk, Covered, Rendered, Dict!Watched, Dict!Modules
<1> QED
  BY <1>1, <1>2, <1>3 DEF BuildInv, BuildSeen, Settled

LEMMA AgainKeeps ==
    ASSUME Dict!BuildAssumption, BuildInv, Dict!Again
    PROVE  BuildInv'
<1>1. /\ \/ phase = "panic" /\ phase' = "edit" /\ dirty' = {"rfc", "vendor"}
         \/ phase = "failed" /\ phase' = "rustc" /\ UNCHANGED dirty
      /\ UNCHANGED <<source, manifest, enabled, rendered, mods, todo, program>>
  BY DEF Dict!Again
<1>2. BuildTypes'
  BY <1>1 DEF BuildInv, BuildTypes, Dict!TypeOK, Dict!Groups, Dict!Order
<1>3. /\ OnDisk' = OnDisk /\ Covered' = Covered /\ (\A g : Rendered(g)' = Rendered(g))
      /\ Dict!Watched' = Dict!Watched
  BY <1>1 DEF OnDisk, Dict!OnDisk, Covered, Rendered, Dict!Watched
<1> QED
  BY <1>1, <1>2, <1>3 DEF BuildInv, BuildSeen, Settled

LEMMA BuildImplies ==
    ASSUME Dict!BuildAssumption, BuildInv
    PROVE  Dict!TypeOK /\ Dict!Fresh /\ Dict!EveryVendorHasFeatures
<1>1. Dict!TypeOK
  BY DEF BuildInv, BuildTypes
<1>2. ASSUME Dict!Built
      PROVE  /\ Covered /\ mods = OnDisk
             /\ \A g \in enabled \cap ({Rfc} \cup OnDisk) : Rendered(g)
             /\ program = [g \in Dict!Modules |-> rendered[g]]
  <2>1. phase = "built" /\ dirty \cap Dict!Watched = {}
    BY <1>2 DEF Dict!Built, BuildInv, BuildSeen
  <2>2. "vendor" \notin dirty /\ (Rfc \in enabled => "rfc" \notin dirty)
    BY <2>1 DEF Dict!Watched
  <2> QED
    BY <2>1, <2>2 DEF BuildInv, BuildSeen, Settled
<1>3. Dict!EveryVendorHasFeatures
  BY <1>2 DEF Dict!EveryVendorHasFeatures, Covered, OnDisk, Dict!OnDisk
<1>4. Dict!Fresh
  <2> SUFFICES ASSUME Dict!Built
               PROVE  /\ DOMAIN program = {g \in enabled : g = Rfc \/ source[g] # Absent}
                      /\ \A g \in DOMAIN program : program[g] = source[g]
    BY DEF Dict!Fresh
  <2>1. enabled \subseteq {Rfc} \cup Dict!Range(Vendors)
    BY DEF BuildInv, BuildTypes, Dict!Groups
  <2>2. Dict!Modules = {g \in enabled : g = Rfc \/ source[g] # Absent}
    BY <1>2, <2>1, OrderIs DEF Dict!Modules, OnDisk, Dict!OnDisk
  <2>3. Dict!Modules \subseteq enabled \cap ({Rfc} \cup OnDisk)
    BY <1>2 DEF Dict!Modules
  <2> QED
    BY <1>2, <2>2, <2>3 DEF Rendered
<1> QED
  BY <1>1, <1>3, <1>4

\* For any groups, edits, manifests and features, over builds that fail and are
\* tried again: a program that cargo says is up to date has the tables of the
\* files as they are, of every enabled group on disk and no other, and is built
\* only when every vendor on disk has its features (build.rs main,
\* validate_feature_coverage, rerun_for_dictionary_dir).
THEOREM BuildsFreshHolds ==
    ASSUME Dict!BuildAssumption
    PROVE  Dict!Spec => [](Dict!TypeOK /\ Dict!Fresh /\ Dict!EveryVendorHasFeatures)
<1>1. Dict!Init => BuildInv
  BY BuildStarts
<1>2. BuildInv /\ [Dict!Next]_Dict!vars => BuildInv'
  <2> SUFFICES ASSUME BuildInv, [Dict!Next]_Dict!vars PROVE BuildInv'
    OBVIOUS
  <2>1. CASE UNCHANGED Dict!vars
    <3>1. UNCHANGED <<source, manifest, enabled, rendered, mods, todo, program, phase, dirty, edits>>
      BY <2>1 DEF Dict!vars
    <3> QED
      BY <3>1 DEF BuildInv, BuildTypes, BuildSeen, Dict!TypeOK, Dict!Groups, Dict!Order, OnDisk,
                  Dict!OnDisk, Covered, Rendered, Dict!Watched, Dict!Modules
  <2>2. CASE Dict!Edit
    BY <2>2, EditKeeps
  <2>3. CASE Dict!Start
    BY <2>3, StartKeeps
  <2>4. CASE Dict!UpToDate
    BY <2>4, UpToDateKeeps
  <2>5. CASE Dict!Render
    BY <2>5, RenderKeeps
  <2>6. CASE Dict!WriteMods
    BY <2>6, WriteModsKeeps
  <2>7. CASE Dict!Compile
    BY <2>7, CompileKeeps
  <2>8. CASE Dict!Again
    BY <2>8, AgainKeeps
  <2> QED
    BY <2>1, <2>2, <2>3, <2>4, <2>5, <2>6, <2>7, <2>8 DEF Dict!Next
<1>3. BuildInv => Dict!TypeOK /\ Dict!Fresh /\ Dict!EveryVendorHasFeatures
  BY BuildImplies
<1> QED
  BY <1>1, <1>2, <1>3, PTL DEF Dict!Spec
=============================================================================
