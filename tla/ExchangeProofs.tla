--------------------------- MODULE ExchangeProofs ----------------------------
(***************************************************************************)
(* What the operations of the registry return, for any number of           *)
(* identifiers, any limit and any sets of calls, peers and packets.  The   *)
(* proofs about both clients rest on these lemmas.                         *)
(***************************************************************************)
EXTENDS Exchange, FiniteSetTheorems, WellFoundedInduction, TLAPS

\* A set of naturals has a least element.
LEMMA LeastNatural ==
    ASSUME NEW T \in SUBSET Nat, T # {}
    PROVE  \E x \in T : \A y \in T : x <= y
<1> DEFINE Less == {s \in Nat \X Nat : s[1] < s[2]}
<1>1. OpToRel(<, Nat) = Less
  BY DEF OpToRel
<1>2. IsWellFoundedOn(Less, Nat)
  BY <1>1, NatLessThanWellFounded
<1> HIDE DEF Less
<1>3. PICK x \in T : \A y \in T : <<y, x>> \notin Less
  BY <1>2, WFMin
<1>4. ASSUME NEW y \in T PROVE x <= y
  <2>1. x \in Nat /\ y \in Nat /\ <<y, x>> \notin Less
    BY <1>3
  <2>2. ~(y < x)
    BY <2>1 DEF Less
  <2> QED
    BY <2>1, <2>2
<1> QED
  BY <1>4

\* Counting on from any identifier, modulo their number, reaches every other.
LEMMA TriesReachAll ==
    ASSUME NEW k \in Ids, NEW i \in Ids
    PROVE  \E n \in Ids : (k + n) % IdCount = i
<1> USE ExchangeAssumption DEF Ids
<1>1. CASE k <= i
  <2>1. i - k \in Ids /\ k + (i - k) = i /\ i % IdCount = i
    BY <1>1
  <2> QED
    BY <2>1
<1>2. CASE k > i
  <2>1. IdCount + i - k \in Ids /\ k + (IdCount + i - k) = IdCount + i
    BY <1>2
  <2>2. (IdCount + i) % IdCount = i
    OBVIOUS
  <2> QED
    BY <2>1, <2>2
<1> QED
  BY <1>1, <1>2

\* register's search returns an identifier that is free whenever there is one.
LEMMA FreeIdIsFree ==
    ASSUME NEW P, NEW reg \in Registries(P), NEW p \in Peers, InUse(reg, p) # Ids
    PROVE  FreeId(reg, p) \in Ids \ InUse(reg, p)
<1> USE ExchangeAssumption
<1> DEFINE T == {n \in Ids : Try(reg, p, n) \notin InUse(reg, p)}
<1>1. reg.next[p] \in Ids
  BY DEF Registries
<1>2. PICK i \in Ids : i \notin InUse(reg, p)
  BY DEF InUse
<1>3. T # {}
  <2>1. PICK n \in Ids : (reg.next[p] + n) % IdCount = i
    BY <1>1, TriesReachAll
  <2> QED
    BY <1>2, <2>1 DEF Try
<1>4. PICK n \in T : \A m \in T : n <= m
  <2>1. T \in SUBSET Nat
    BY DEF Ids
  <2> QED
    BY <1>3, <2>1, LeastNatural
<1>5. ASSUME NEW m \in 0 .. n - 1 PROVE Try(reg, p, m) \in InUse(reg, p)
  <2>1. m \in Ids /\ ~(n <= m)
    BY DEF Ids
  <2> QED
    BY <1>4, <2>1
<1>6. \E k \in Ids : /\ Try(reg, p, k) \notin InUse(reg, p)
                     /\ \A m \in 0 .. k - 1 : Try(reg, p, m) \in InUse(reg, p)
  BY <1>4, <1>5
<1>7. PICK k \in Ids : FreeId(reg, p) = Try(reg, p, k) /\ Try(reg, p, k) \notin InUse(reg, p)
  BY <1>6 DEF FreeId
<1>8. Try(reg, p, k) \in Ids
  BY <1>1 DEF Try, Ids
<1> QED
  BY <1>7, <1>8

\* register refuses nothing only while the registry is open, the peer is
\* below its limit and an identifier is free.
LEMMA NotRefused ==
    ASSUME NEW reg, NEW p, Refusal(reg, p) = None
    PROVE  /\ ~reg.closed
           /\ ~(Cardinality(InUse(reg, p)) >= Limit)
           /\ InUse(reg, p) # Ids
BY ExchangeAssumption DEF Refusal

\* An entry whose sender was used.
LEMMA SenderUsed ==
    ASSUME NEW P, NEW e \in Entries(P)
    PROVE  LET f == [e EXCEPT !.sender = FALSE]
           IN f \in Entries(P) /\ f.call = e.call /\ f.packet = e.packet /\ f.sender = FALSE
BY DEF Entries

\* register's entry, and nothing else, is new.
LEMMA RegisteredIs ==
    ASSUME NEW P, NEW reg \in Registries(P), NEW p \in Peers, NEW c \in Calls,
           NEW m \in P, m.id \in Ids
    PROVE  LET r == Registered(reg, p, c, m)
               e == [call |-> c, packet |-> m, sender |-> TRUE]
           IN /\ r \in Registries(P) /\ r.closed = reg.closed
              /\ \A q \in Peers, i \in Ids :
                    r.pending[q][i] = IF q = p /\ i = m.id THEN e ELSE reg.pending[q][i]
<1> DEFINE e == [call |-> c, packet |-> m, sender |-> TRUE]
           next == [reg.next EXCEPT ![p] = (m.id + 1) % IdCount]
           pending == [reg.pending EXCEPT ![p] = [reg.pending[p] EXCEPT ![m.id] = e]]
<1>1. /\ reg.next \in [Peers -> Ids]
      /\ reg.pending \in [Peers -> [Ids -> Entries(P) \cup {None}]]
  BY DEF Registries
<1>2. next \in [Peers -> Ids]
  <2>1. (m.id + 1) % IdCount \in Ids
    BY ExchangeAssumption DEF Ids
  <2> QED
    BY <1>1, <2>1
<1>3. e \in Entries(P)
  BY DEF Entries
<1> HIDE DEF e
<1>4. pending \in [Peers -> [Ids -> Entries(P) \cup {None}]]
  BY <1>1, <1>3
<1>5. \A q \in Peers, i \in Ids :
         pending[q][i] = IF q = p /\ i = m.id THEN e ELSE reg.pending[q][i]
  BY <1>1
<1>6. Registered(reg, p, c, m) = [reg EXCEPT !.next = next, !.pending = pending]
  BY DEF Registered, e
<1> HIDE DEF next, pending
<1>7. /\ Registered(reg, p, c, m) \in Registries(P)
      /\ Registered(reg, p, c, m).pending = pending /\ Registered(reg, p, c, m).closed = reg.closed
  BY <1>2, <1>4, <1>6 DEF Registries
<1> QED
  BY <1>5, <1>7 DEF e

\* An answered entry loses its sender.
LEMMA TakenIs ==
    ASSUME NEW P, NEW reg \in Registries(P), NEW p \in Peers, NEW i \in Ids,
           reg.pending[p][i] # None
    PROVE  LET r == Taken(reg, p, i)
           IN /\ r \in Registries(P) /\ r.closed = reg.closed
              /\ r.pending[p][i] = [reg.pending[p][i] EXCEPT !.sender = FALSE]
              /\ \A q \in Peers, j \in Ids :
                    q # p \/ j # i => r.pending[q][j] = reg.pending[q][j]
<1> DEFINE e == [reg.pending[p][i] EXCEPT !.sender = FALSE]
           pending == [reg.pending EXCEPT ![p] = [reg.pending[p] EXCEPT ![i] = e]]
<1>1. reg.pending \in [Peers -> [Ids -> Entries(P) \cup {None}]]
  BY DEF Registries
<1>2. reg.pending[p][i] \in Entries(P)
  BY <1>1
<1>3. e \in Entries(P)
  BY <1>2, SenderUsed
<1>4. Taken(reg, p, i) = [reg EXCEPT !.pending = pending]
  BY DEF Taken
<1> HIDE DEF e
<1>5. pending \in [Peers -> [Ids -> Entries(P) \cup {None}]]
  BY <1>1, <1>3
<1>6. /\ pending[p][i] = e
      /\ \A q \in Peers, j \in Ids : q # p \/ j # i => pending[q][j] = reg.pending[q][j]
  BY <1>1
<1>7. reg.next \in [Peers -> Ids]
  BY DEF Registries
<1> HIDE DEF pending
<1>8. /\ Taken(reg, p, i) \in Registries(P)
      /\ Taken(reg, p, i).pending = pending /\ Taken(reg, p, i).closed = reg.closed
  BY <1>4, <1>5, <1>7 DEF Registries
<1> QED
  BY <1>6, <1>8 DEF e

\* The entries of r are those of reg without their senders.
SendersTaken(reg, r) ==
    \A q \in Peers, j \in Ids :
        /\ r.pending[q][j] = None <=> reg.pending[q][j] = None
        /\ reg.pending[q][j] # None =>
            /\ r.pending[q][j].call = reg.pending[q][j].call
            /\ r.pending[q][j].packet = reg.pending[q][j].packet
            /\ r.pending[q][j].sender = FALSE

\* close takes every sender and keeps the entries.
LEMMA ShutIs ==
    ASSUME NEW P, NEW reg \in Registries(P), None \notin Entries(P), NEW r, r = Shut(reg)
    PROVE  r \in Registries(P) /\ r.closed = TRUE /\ SendersTaken(reg, r)
<1> DEFINE pending == [q \in Peers |-> [j \in Ids |->
                        IF reg.pending[q][j] = None THEN None
                        ELSE [reg.pending[q][j] EXCEPT !.sender = FALSE]]]
<1>1. /\ reg.next \in [Peers -> Ids]
      /\ reg.pending \in [Peers -> [Ids -> Entries(P) \cup {None}]]
  BY DEF Registries
<1>2. ASSUME NEW q \in Peers, NEW j \in Ids, reg.pending[q][j] # None
      PROVE  LET f == [reg.pending[q][j] EXCEPT !.sender = FALSE]
             IN /\ f \in Entries(P) /\ f.call = reg.pending[q][j].call
                /\ f.packet = reg.pending[q][j].packet /\ f.sender = FALSE
  <2>1. reg.pending[q][j] \in Entries(P)
    BY <1>1, <1>2
  <2> QED
    BY <2>1, SenderUsed
<1>3. pending \in [Peers -> [Ids -> Entries(P) \cup {None}]]
  BY <1>2
<1>4. r = [reg EXCEPT !.closed = TRUE, !.pending = pending]
  BY DEF Shut
<1>5. ASSUME NEW q \in Peers, NEW j \in Ids
      PROVE  /\ pending[q][j] = None <=> reg.pending[q][j] = None
             /\ reg.pending[q][j] # None =>
                    /\ pending[q][j].call = reg.pending[q][j].call
                    /\ pending[q][j].packet = reg.pending[q][j].packet
                    /\ pending[q][j].sender = FALSE
  <2>1. CASE reg.pending[q][j] = None
    BY <2>1
  <2>2. CASE reg.pending[q][j] # None
    <3> DEFINE f == [reg.pending[q][j] EXCEPT !.sender = FALSE]
    <3>1. pending[q][j] = f
      BY <2>2
    <3>2. /\ f \in Entries(P) /\ f.call = reg.pending[q][j].call
          /\ f.packet = reg.pending[q][j].packet /\ f.sender = FALSE
      BY <1>2, <2>2
    <3> HIDE DEF f, pending
    <3>3. pending[q][j] # None
      BY <3>1, <3>2
    <3> QED
      BY <2>2, <3>1, <3>2, <3>3
  <2> QED
    BY <2>1, <2>2
<1> HIDE DEF pending
<1>6. r \in Registries(P) /\ r.pending = pending /\ r.closed = TRUE
  BY <1>1, <1>3, <1>4 DEF Registries
<1> QED
  BY <1>5, <1>6 DEF SendersTaken

\* A dropped lease frees its identifier and no other.
LEMMA ReleasedIs ==
    ASSUME NEW P, NEW reg \in Registries(P), NEW p \in Peers, NEW ids
    PROVE  LET r == Released(reg, p, ids)
           IN /\ r \in Registries(P) /\ r.closed = reg.closed
              /\ \A q \in Peers, j \in Ids :
                    r.pending[q][j] = IF q = p /\ j \in ids THEN None ELSE reg.pending[q][j]
<1> DEFINE pending == [reg.pending EXCEPT ![p] =
                          [j \in Ids |-> IF j \in ids THEN None ELSE reg.pending[p][j]]]
<1>1. /\ reg.next \in [Peers -> Ids]
      /\ reg.pending \in [Peers -> [Ids -> Entries(P) \cup {None}]]
  BY DEF Registries
<1>2. pending \in [Peers -> [Ids -> Entries(P) \cup {None}]]
  BY <1>1
<1>3. Released(reg, p, ids) = [reg EXCEPT !.pending = pending]
  BY DEF Released
<1>4. \A q \in Peers, j \in Ids :
         pending[q][j] = IF q = p /\ j \in ids THEN None ELSE reg.pending[q][j]
  BY <1>1
<1> HIDE DEF pending
<1>5. /\ Released(reg, p, ids) \in Registries(P)
      /\ Released(reg, p, ids).pending = pending /\ Released(reg, p, ids).closed = reg.closed
  BY <1>1, <1>2, <1>3 DEF Registries
<1> QED
  BY <1>4, <1>5

\* deliver completes only an exchange that is still open and that the
\* response verifies for.
LEMMA CompletesIs ==
    ASSUME NEW reg, NEW p, NEW r, Completes(reg, p, r) # None
    PROVE  /\ reg.pending[p][r.id] # None
           /\ reg.pending[p][r.id].sender
           /\ Completes(reg, p, r) = reg.pending[p][r.id].call
           /\ r.id = reg.pending[p][r.id].packet.id
           /\ r.auth = reg.pending[p][r.id].packet.auth
BY DEF Completes, Verify

\* There are finitely many identifiers.
LEMMA InUseFinite ==
    ASSUME NEW reg, NEW p
    PROVE  IsFiniteSet(InUse(reg, p)) /\ Cardinality(InUse(reg, p)) \in Nat
<1>1. IsFiniteSet(Ids)
  BY ExchangeAssumption, FS_Interval DEF Ids
<1>2. InUse(reg, p) \subseteq Ids
  BY DEF InUse
<1> QED
  BY <1>1, <1>2, FS_Subset, FS_CardinalityType

\* Fewer identifiers in use stay within the limit.
LEMMA FewerInUse ==
    ASSUME NEW r, NEW s, NEW p, InUse(s, p) \subseteq InUse(r, p),
           Cardinality(InUse(r, p)) <= Limit
    PROVE  Cardinality(InUse(s, p)) <= Limit
<1>1. /\ IsFiniteSet(InUse(r, p)) /\ Cardinality(InUse(r, p)) \in Nat
      /\ Cardinality(InUse(s, p)) \in Nat
  BY InUseFinite
<1>2. Cardinality(InUse(s, p)) <= Cardinality(InUse(r, p))
  BY <1>1, FS_Subset
<1> QED
  BY <1>1, <1>2, ExchangeAssumption
=============================================================================
