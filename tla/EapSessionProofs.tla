-------------------------- MODULE EapSessionProofs ---------------------------
(***************************************************************************)
(* Proofs about EapSession, for any number of rounds, types, State values  *)
(* and conversations, any limits of the table, and any number of EAP       *)
(* identifiers above two; about FramePipe, for any messages, frame sizes,  *)
(* limit and frames of a peer that breaks the protocol; and about          *)
(* PasswordRounds, for any users, secrets and conversations.               *)
(***************************************************************************)
EXTENDS EapSession, FiniteSetTheorems, SequenceTheorems, TLAPS

\* What FramePipe has besides.
CONSTANTS MaxTotal, Messages, Mtus, Rogue, MaxFrames
VARIABLES mtu, frag, tx, rx, ended, frames, honest, sent, got, since

Pipe == INSTANCE FramePipe

\* What PasswordRounds has besides; its conversations are Talks here.
CONSTANTS Garbled, Secrets, Talks, Users, Passwords, MaxDrawn
VARIABLES conv, drawn, computed

Pw == INSTANCE PasswordRounds WITH Convs <- Talks

Busy(r) == round[r].pc # "idle"
Conv(r) == round[r].sess.conv

\* A session is in one place only.
Owned ==
    /\ \A t, u \in Stored : entries[t].sess.conv = entries[u].sess.conv => t = u
    /\ \A r, q \in Rounds : (Busy(r) /\ Busy(q) /\ Conv(r) = Conv(q)) => r = q
    /\ \A t \in Stored, r \in Rounds : Busy(r) => entries[t].sess.conv # Conv(r)

\* Sessions and challenges belong to conversations that have begun, sessions to
\* ones that are not over.
Known(c) == c \in Started /\ c \notin over

AllKnown ==
    /\ \A t \in Stored : t <= minted /\ Known(entries[t].sess.conv)
    /\ \A r \in Rounds : Busy(r) => Known(Conv(r))
    /\ \A t \in 1 .. minted : issued[t].conv \in Started

\* A session keeps the identity that its next method will be told.
Bound(s) == s.told = who[s.conv] /\ s.name = who[s.conv] /\ IsInjective(s.tried)

AllBound ==
    /\ \A t \in Stored : Bound(entries[t].sess)
    /\ \A r \in Rounds : Busy(r) => Bound(round[r].sess)

\* The counter of a session that waits for a response, or runs its method,
\* follows the identifier of its last challenge; when the next challenge has
\* its identifier, no earlier one is the same step.
Behind(s) ==
    \A u \in 1 .. minted : issued[u].conv = s.conv =>
        /\ issued[u].n <= s.n
        /\ issued[u].n = s.n => s.next = (issued[u].id + 1) % IdCount

Ahead(s, id) ==
    /\ s.next = (id + 1) % IdCount
    /\ \A u \in 1 .. minted : issued[u].conv = s.conv =>
        /\ issued[u].n < s.n
        /\ s.n = issued[u].n + 1 => issued[u].id # id

AllInOrder ==
    /\ \A t \in Stored : Behind(entries[t].sess)
    /\ \A r \in Rounds : round[r].pc = "method" => Behind(round[r].sess)
    /\ \A r \in Rounds : round[r].pc = "insert" => Ahead(round[r].sess, round[r].id)

IInv == TypeOK /\ TableExact /\ Owned /\ AllKnown /\ AllBound /\ AllInOrder /\ Linear

-----------------------------------------------------------------------------
(* The table.                                                              *)

LEMMA SessionTypes ==
    ASSUME NEW s \in Sessions
    PROVE  /\ s # None /\ s.conv \in Convs /\ s.next \in EapIds /\ s.n \in Nat
           /\ s.name \in Names \cup {None} /\ s.tried \in Seq(Registered)
BY EapOptionAssumption DEF Sessions

LEMMA StoredTypes ==
    ASSUME TypeOK, NEW t \in Tokens
    PROVE  /\ t \in Stored <=> entries[t].sess # None
           /\ t \in Stored => entries[t].sess \in Sessions /\ entries[t].at \in Nat
           /\ entries[t] # NoEntry => t \in Stored
<1>1. entries[t] = NoEntry \/ entries[t] \in [sess : Sessions, at : Nat]
  BY DEF TypeOK
<1>2. CASE entries[t] = NoEntry
  BY <1>2 DEF Stored, NoEntry
<1>3. CASE entries[t] \in [sess : Sessions, at : Nat]
  <2>1. entries[t].sess \in Sessions /\ entries[t].at \in Nat /\ entries[t].sess # None
    BY <1>3, SessionTypes
  <2>2. entries[t] # NoEntry
    BY <2>1 DEF NoEntry
  <2> QED
    BY <2>1, <2>2 DEF Stored
<1> QED
  BY <1>1, <1>2, <1>3

LEMMA RoundTypes ==
    ASSUME TypeOK, NEW r \in Rounds
    PROVE  /\ Busy(r) <=> round[r].pc \in {"method", "insert", "accept"}
           /\ Busy(r) <=> round[r].sess # None
           /\ Busy(r) => round[r].sess \in Sessions /\ round[r].id \in EapIds
           /\ ~Busy(r) => round[r] = Idle
<1>1. \/ round[r] = Idle
      \/ round[r] \in [pc : {"method", "insert", "accept"}, sess : Sessions, id : EapIds]
  BY DEF TypeOK
<1>2. CASE round[r] = Idle
  BY <1>2 DEF Busy, Idle
<1>3. CASE round[r] \in [pc : {"method", "insert", "accept"}, sess : Sessions, id : EapIds]
  <2>1. /\ round[r].pc \in {"method", "insert", "accept"}
        /\ round[r].sess \in Sessions /\ round[r].id \in EapIds
    BY <1>3
  <2> QED
    BY <2>1, SessionTypes DEF Busy
<1> QED
  BY <1>1, <1>2, <1>3

LEMMA TokensFinite ==
    ASSUME NEW S \in SUBSET Tokens
    PROVE  IsFiniteSet(S) /\ Cardinality(S) \in Nat
<1>1. IsFiniteSet(Tokens)
  BY FS_Interval, EapSessionAssumption DEF Tokens
<1> QED
  BY <1>1, FS_Subset, FS_CardinalityType

\* There are as many expirations as entries.
LEMMA IndexSize ==
    ASSUME TypeOK, TableExact, NEW S \in SUBSET Stored
    PROVE  LET E == {<<entries[t].at, t>> : t \in S}
           IN IsFiniteSet(E) /\ Cardinality(E) = Cardinality(S) /\ Cardinality(E) \in Nat
<1> DEFINE E == {<<entries[t].at, t>> : t \in S}
           f == [t \in S |-> <<entries[t].at, t>>]
<1>1. IsFiniteSet(S) /\ Cardinality(S) \in Nat
  BY TokensFinite DEF Stored
<1>2. f \in Bijection(S, E)
  <2>1. f \in [S -> E]
    OBVIOUS
  <2>2. \A a, b \in S : f[a] = f[b] => a = b
    OBVIOUS
  <2>3. \A e \in E : \E a \in S : f[a] = e
    OBVIOUS
  <2> HIDE DEF f, E
  <2> QED
    BY <2>1, <2>2, <2>3 DEF Bijection, Injection, IsInjective, Surjection
<1>3. ExistsBijection(S, E)
  BY <1>2 DEF ExistsBijection
<1> HIDE DEF E
<1>4. IsFiniteSet(E) /\ Cardinality(E) = Cardinality(S)
  BY <1>1, <1>3, FS_Bijection
<1> QED
  BY <1>1, <1>4 DEF E

\* remove takes an entry and its expiration.
LEMMA TakeOutTable ==
    ASSUME TypeOK, TableExact, NEW t \in Stored, TakeOut(t)
    PROVE  /\ entries' \in [Tokens -> {NoEntry} \cup [sess : Sessions, at : Nat]]
           /\ expirations' \subseteq Nat \X Tokens
           /\ Stored' = Stored \ {t}
           /\ \A u \in Stored' : entries'[u] = entries[u]
           /\ TableExact'
<1>1. /\ entries' = [entries EXCEPT ![t] = NoEntry]
      /\ expirations' = expirations \ {<<entries[t].at, t>>}
      /\ t \in Tokens
  BY DEF TakeOut, Stored
<1>2. entries' \in [Tokens -> {NoEntry} \cup [sess : Sessions, at : Nat]]
  BY <1>1 DEF TypeOK
<1>3. expirations' \subseteq Nat \X Tokens
  BY <1>1 DEF TypeOK
<1>4. entries'[t] = NoEntry /\ \A u \in Tokens \ {t} : entries'[u] = entries[u]
  BY <1>1 DEF TypeOK
<1>5. Stored' = Stored \ {t}
  BY <1>1, <1>4 DEF Stored
<1>6. \A u \in Stored' : entries'[u] = entries[u]
  BY <1>4, <1>5 DEF Stored
<1>7. expirations' = {<<entries'[u].at, u>> : u \in Stored'}
  <2>1. expirations = {<<entries[u].at, u>> : u \in Stored}
    BY DEF TableExact
  <2>2. \A e : e \in expirations' => e \in {<<entries'[u].at, u>> : u \in Stored'}
    BY <1>1, <1>5, <1>6, <2>1
  <2>3. \A e : e \in {<<entries'[u].at, u>> : u \in Stored'} => e \in expirations'
    BY <1>1, <1>5, <1>6, <2>1
  <2> QED
    BY <2>2, <2>3
<1>8. Cardinality(Stored') <= Capacity
  <2>1. Cardinality(Stored) <= Capacity /\ IsFiniteSet(Stored) /\ Cardinality(Stored) \in Nat
    BY TokensFinite DEF TableExact, Stored
  <2>2. Cardinality(Stored') <= Cardinality(Stored) /\ Cardinality(Stored') \in Nat
    BY <1>5, <2>1, FS_Subset, FS_CardinalityType
  <2> QED
    BY <2>1, <2>2, EapSessionAssumption
<1> QED
  BY <1>2, <1>3, <1>5, <1>6, <1>7, <1>8 DEF TableExact
\* The expirations that come first: as many as asked for, none after one that
\* stays.
LEMMA HeadsAre ==
    ASSUME NEW exp, NEW k, NEW D \in Heads(exp, k)
    PROVE  /\ D \subseteq exp /\ Cardinality(D) = k
           /\ \A d \in D, e \in exp \ D : d[1] <= e[1]
BY DEF Heads, kSubset

\* What insert removes: expired entries, and the first of a full table.  There
\* is room for one more afterwards.
LEMMA EvictionsAre ==
    ASSUME TypeOK, TableExact, NEW gone \in Evictions
    PROVE  /\ gone \subseteq expirations
           /\ Cardinality(expirations \ gone) < Capacity
           /\ \A e \in gone :
                \/ e[1] <= now
                \/ /\ Cardinality(expirations) >= Capacity
                   /\ \A f \in expirations \ gone : e[1] <= f[1]
<1> DEFINE batch == IF Cardinality(Due) < EvictBatch THEN Cardinality(Due) ELSE EvictBatch
<1>1. PICK D \in Heads(expirations, batch) : gone \in MakeRoom(D)
  BY DEF Evictions
<1>2. /\ D \subseteq expirations /\ Cardinality(D) = batch
      /\ \A d \in D, e \in expirations \ D : d[1] <= e[1]
  BY HeadsAre
<1>3. /\ IsFiniteSet(expirations) /\ Cardinality(expirations) \in Nat
      /\ Cardinality(expirations) <= Capacity
  BY IndexSize DEF TableExact
<1>4. /\ IsFiniteSet(Due) /\ Cardinality(Due) \in Nat
      /\ IsFiniteSet(D) /\ Cardinality(D) \in Nat
      /\ Cardinality(D) <= Cardinality(Due)
  <2>1. Due \subseteq expirations
    BY DEF Due
  <2>2. IsFiniteSet(Due) /\ Cardinality(Due) \in Nat
    BY <1>3, <2>1, FS_Subset, FS_CardinalityType
  <2>3. IsFiniteSet(D) /\ Cardinality(D) \in Nat
    BY <1>2, <1>3, FS_Subset, FS_CardinalityType
  <2> QED
    BY <1>2, <2>2, <2>3, EapSessionAssumption
<1>5. \A e \in expirations : e[1] \in Nat
  BY DEF TypeOK
<1>6. now \in Nat
  BY EapSessionAssumption DEF TypeOK
<1>7. \A d \in D : d[1] <= now
  <2> SUFFICES ASSUME NEW d \in D, ~(d[1] <= now) PROVE FALSE
    OBVIOUS
  <2>1. d \notin Due
    BY DEF Due
  <2>2. \A e \in Due : e \in D
    BY <1>2, <1>5, <1>6 DEF Due
  <2>3. IsFiniteSet(D \ {d}) /\ Cardinality(D \ {d}) = Cardinality(D) - 1
    BY <1>4, FS_RemoveElement
  <2>4. Cardinality(Due) <= Cardinality(D \ {d})
    BY <2>1, <2>2, <2>3, FS_Subset
  <2> QED
    BY <1>4, <2>3, <2>4
<1> DEFINE rest == expirations \ D
<1>8. IsFiniteSet(rest) /\ Cardinality(rest) \in Nat /\ Cardinality(rest) <= Cardinality(expirations)
  BY <1>3, FS_Subset, FS_CardinalityType
<1>9. CASE Cardinality(rest) >= Capacity
  <2>1. PICK F \in Heads(rest, 1) : gone = D \cup F
    BY <1>1, <1>9 DEF MakeRoom
  <2>2. F \subseteq rest /\ Cardinality(F) = 1 /\ \A d \in F, e \in rest \ F : d[1] <= e[1]
    BY HeadsAre
  <2>3. PICK x : F = {x}
    <3>1. IsFiniteSet(F)
      BY <1>8, <2>2, FS_Subset
    <3> QED
      BY <2>2, <3>1, FS_Singleton
  <2>4. expirations \ gone = rest \ {x} /\ x \in rest
    BY <2>1, <2>2, <2>3
  <2>5. Cardinality(rest \ {x}) = Cardinality(rest) - 1
    BY <1>8, <2>4, FS_RemoveElement
  <2>6. Cardinality(expirations \ gone) < Capacity
    <3>1. Cardinality(expirations \ gone) = Cardinality(rest) - 1
      BY <2>4, <2>5
    <3> HIDE DEF rest
    <3> QED
      BY <1>3, <1>8, <3>1, EapSessionAssumption
  <2>7. Cardinality(expirations) >= Capacity
    BY <1>3, <1>8, <1>9, EapSessionAssumption
  <2> QED
    BY <1>2, <1>7, <2>1, <2>2, <2>3, <2>4, <2>6, <2>7
<1>10. CASE ~(Cardinality(rest) >= Capacity)
  <2>1. gone = D
    BY <1>1, <1>10 DEF MakeRoom
  <2> QED
    BY <1>2, <1>7, <1>8, <1>10, <2>1, EapSessionAssumption
<1> QED
  BY <1>9, <1>10

\* insert adds an entry; of the others it keeps all but what it evicts.
LEMMA PutTable ==
    ASSUME TypeOK, TableExact, NEW t \in Tokens, t \notin Stored, NEW s \in Sessions, Put(t, s)
    PROVE  /\ entries' \in [Tokens -> {NoEntry} \cup [sess : Sessions, at : Nat]]
           /\ expirations' \subseteq Nat \X Tokens
           /\ t \in Stored' /\ entries'[t].sess = s
           /\ \A u \in Stored' \ {t} : u \in Stored /\ entries'[u] = entries[u]
           /\ TableExact'
           /\ \A u \in Stored \ Stored' :
                \/ entries[u].at <= now
                \/ /\ Cardinality(Stored) >= Capacity
                   /\ \A v \in Stored \cap Stored' : entries[u].at <= entries[v].at
<1>1. PICK gone \in Evictions :
        LET lost == {e[2] : e \in gone}
        IN /\ entries' = [u \in Tokens |->
                            IF u = t THEN [sess |-> s, at |-> now + IdleTimeout]
                            ELSE IF u \in lost THEN NoEntry ELSE entries[u]]
           /\ expirations' = (expirations \ gone) \cup {<<now + IdleTimeout, t>>}
  BY DEF Put
<1> DEFINE lost == {e[2] : e \in gone}
           at == now + IdleTimeout
           E == [sess |-> s, at |-> at]
<1>2. /\ entries' = [u \in Tokens |-> IF u = t THEN E ELSE IF u \in lost THEN NoEntry ELSE entries[u]]
      /\ expirations' = (expirations \ gone) \cup {<<at, t>>}
  BY <1>1
<1>3. /\ gone \subseteq expirations /\ Cardinality(expirations \ gone) < Capacity
      /\ \A e \in gone :
            \/ e[1] <= now
            \/ /\ Cardinality(expirations) >= Capacity
               /\ \A f \in expirations \ gone : e[1] <= f[1]
  BY EvictionsAre
<1>4. at \in Nat
  BY EapSessionAssumption DEF TypeOK
<1>5. E \in [sess : Sessions, at : Nat] /\ E # NoEntry /\ E.sess = s /\ E.at = at
  BY <1>4, SessionTypes DEF NoEntry
<1>6. expirations = {<<entries[u].at, u>> : u \in Stored}
  BY DEF TableExact
<1>7. \A u \in Stored : u \in lost <=> <<entries[u].at, u>> \in gone
  BY <1>3, <1>6
<1> HIDE DEF lost, E, at
<1>8. entries' \in [Tokens -> {NoEntry} \cup [sess : Sessions, at : Nat]]
  BY <1>2, <1>5 DEF TypeOK
<1>9. expirations' \subseteq Nat \X Tokens
  BY <1>2, <1>4 DEF TypeOK
<1>10. /\ entries'[t] = E
       /\ \A u \in Tokens \ {t} : entries'[u] = IF u \in lost THEN NoEntry ELSE entries[u]
  BY <1>2
<1>11. Stored' = (Stored \ lost) \cup {t}
  BY <1>5, <1>10 DEF Stored
<1>12. \A u \in Stored' \ {t} : u \in Stored /\ u \notin lost /\ entries'[u] = entries[u]
  BY <1>10, <1>11 DEF Stored
<1>13. expirations' = {<<entries'[u].at, u>> : u \in Stored'}
  <2>1. ASSUME NEW e \in expirations' PROVE e \in {<<entries'[u].at, u>> : u \in Stored'}
    <3>1. CASE e = <<at, t>>
      BY <1>5, <1>10, <1>11, <3>1
    <3>2. CASE e \in expirations \ gone
      <4>1. PICK u \in Stored : e = <<entries[u].at, u>>
        BY <1>6, <3>2
      <4>2. u \notin lost /\ u \in Stored' /\ u # t
        BY <1>7, <1>11, <3>2, <4>1
      <4>3. entries'[u] = entries[u]
        BY <1>12, <4>2
      <4> QED
        BY <4>1, <4>2, <4>3
    <3> QED
      BY <1>2, <3>1, <3>2
  <2>2. ASSUME NEW u \in Stored' PROVE <<entries'[u].at, u>> \in expirations'
    <3>1. CASE u = t
      BY <1>2, <1>5, <1>10, <3>1
    <3>2. CASE u # t
      BY <1>2, <1>6, <1>7, <1>12, <3>2
    <3> QED
      BY <3>1, <3>2
  <2> QED
    BY <2>1, <2>2
<1>14. /\ Cardinality(Stored') <= Capacity
       /\ Cardinality(expirations) = Cardinality(Stored)
  <2>1. expirations \ gone = {<<entries[u].at, u>> : u \in Stored \ lost}
    <3>1. \A e \in expirations \ gone : e \in {<<entries[u].at, u>> : u \in Stored \ lost}
      BY <1>6, <1>7
    <3>2. \A u \in Stored \ lost : <<entries[u].at, u>> \in expirations \ gone
      BY <1>6, <1>7
    <3> QED
      BY <3>1, <3>2
  <2>2. /\ Cardinality(expirations \ gone) = Cardinality(Stored \ lost)
        /\ Cardinality(expirations \ gone) \in Nat
    BY <2>1, IndexSize
  <2>3. Cardinality(expirations) = Cardinality(Stored)
    BY <1>6, IndexSize
  <2>4. IsFiniteSet(Stored \ lost)
    BY TokensFinite DEF Stored
  <2>5. Cardinality(Stored') = Cardinality(Stored \ lost) + 1
    BY <1>11, <2>4, FS_AddElement
  <2> QED
    BY <1>3, <2>2, <2>3, <2>5, EapSessionAssumption
<1>15. ASSUME NEW u \in Stored \ Stored'
       PROVE  \/ entries[u].at <= now
              \/ /\ Cardinality(Stored) >= Capacity
                 /\ \A v \in Stored \cap Stored' : entries[u].at <= entries[v].at
  <2>1. u \in lost /\ <<entries[u].at, u>> \in gone
    BY <1>7, <1>11
  <2>2. \A v \in Stored \cap Stored' : <<entries[v].at, v>> \in expirations \ gone
    BY <1>6, <1>7, <1>12
  <2>3. \/ entries[u].at <= now
        \/ /\ Cardinality(expirations) >= Capacity
           /\ \A f \in expirations \ gone : entries[u].at <= f[1]
    BY <1>3, <2>1
  <2>4. ASSUME NEW v \in Stored \cap Stored', \A f \in expirations \ gone : entries[u].at <= f[1]
        PROVE  entries[u].at <= entries[v].at
    <3>1. entries[u].at <= <<entries[v].at, v>>[1]
      BY <2>2, <2>4
    <3> QED
      BY <3>1
  <2> QED
    BY <1>14, <2>3, <2>4
<1> QED
  BY <1>5, <1>8, <1>9, <1>10, <1>11, <1>12, <1>13, <1>14, <1>15 DEF TableExact
-----------------------------------------------------------------------------
(* Conversations.                                                          *)

\* Sessions only go, with the end of their conversations or without, and no
\* challenge is sent.
LEMMA SessionsGo ==
    ASSUME IInv, UNCHANGED <<who, minted, issued>>, over' \subseteq Started,
           \A u \in Stored' : u \in Stored /\ entries'[u] = entries[u],
           \A u \in Stored' : entries[u].sess.conv \notin over',
           \A r \in Rounds : Busy(r)' =>
                /\ Busy(r) /\ round'[r].sess = round[r].sess /\ Conv(r) \notin over'
                /\ round'[r].pc # "accept" => round'[r] = round[r]
    PROVE  over' \subseteq Started' /\ Owned' /\ AllKnown' /\ AllBound' /\ AllInOrder' /\ Linear'
<1> USE DEF IInv
<1>1. Started' = Started
  BY DEF Started
<1>2. Owned'
  BY DEF Owned, Conv
<1>3. AllKnown'
  BY <1>1 DEF AllKnown, Known, Conv
<1>4. AllBound'
  BY DEF AllBound, Bound
<1>5. AllInOrder'
  <2>1. \A u \in Stored' : Behind(entries[u].sess)'
    BY DEF AllInOrder, Behind
  <2>2. \A r \in Rounds : round'[r].pc \in {"method", "insert"} => round'[r] = round[r]
    BY DEF Busy
  <2>3. \A r \in Rounds : round'[r].pc = "method" => Behind(round[r].sess)'
    BY <2>2 DEF AllInOrder, Behind
  <2>4. \A r \in Rounds : round'[r].pc = "insert" => Ahead(round[r].sess, round[r].id)'
    BY <2>2 DEF AllInOrder, Ahead
  <2> QED
    BY <2>1, <2>3, <2>4 DEF AllInOrder
<1>6. Linear'
  BY DEF Linear
<1> QED
  BY <1>1, <1>2, <1>3, <1>4, <1>5, <1>6

\* A round ends without a challenge: it was refused, accepted or cancelled.
LEMMA EndStep ==
    ASSUME IInv, NEW r \in Rounds, MethodFails(r) \/ Accept(r) \/ Cancel(r)
    PROVE  IInv'
<1> USE DEF IInv
<1>1. /\ Busy(r) /\ over' = over \cup {Conv(r)}
      /\ round' = [round EXCEPT ![r] = Idle]
      /\ UNCHANGED <<multi, entries, expirations, now, minted, issued, who>>
  BY DEF MethodFails, Accept, Cancel, Conclude, End, Busy, Conv
<1>2. round'[r] = Idle /\ \A q \in Rounds \ {r} : round'[q] = round[q]
  BY <1>1 DEF TypeOK
<1>3. ~Busy(r)' /\ \A q \in Rounds \ {r} : (Busy(q)' <=> Busy(q))
  BY <1>2 DEF Busy, Idle
<1>4. Stored' = Stored /\ Started' = Started
  BY <1>1 DEF Stored, Started
<1>5. over' \subseteq Started /\ over' \subseteq Started'
  BY <1>1, <1>4 DEF TypeOK, AllKnown, Known
<1>6. TypeOK'
  BY <1>1, <1>5 DEF TypeOK
<1>7. TableExact'
  BY <1>1, <1>4 DEF TableExact
<1>8. \A u \in Stored : entries[u].sess.conv \notin over'
  BY <1>1 DEF AllKnown, Known, Owned
<1>9. \A q \in Rounds : Busy(q)' => /\ Busy(q) /\ round'[q] = round[q] /\ Conv(q) \notin over'
  BY <1>1, <1>2, <1>3 DEF AllKnown, Known, Owned
<1>10. Owned' /\ AllKnown' /\ AllBound' /\ AllInOrder' /\ Linear'
  BY <1>1, <1>4, <1>5, <1>8, <1>9, SessionsGo
<1> QED
  BY <1>6, <1>7, <1>10

\* Time passes, or a method has succeeded: nobody else notices.
LEMMA QuietStep ==
    ASSUME IInv, Tick \/ (\E r \in Rounds : MethodSucceeds(r)) \/ UNCHANGED vars
    PROVE  IInv'
<1> USE DEF IInv
<1>1. UNCHANGED <<multi, entries, expirations, minted, issued, who, over>>
  BY DEF Tick, MethodSucceeds, vars
<1>2. now' \in 0 .. MaxTime
  BY EapSessionAssumption DEF Tick, MethodSucceeds, vars, TypeOK
<1> DEFINE RoundsKept ==
        /\ round' \in [Rounds -> {Idle} \cup
                [pc : {"method", "insert", "accept"}, sess : Sessions, id : EapIds]]
        /\ \A q \in Rounds : Busy(q)' =>
            /\ Busy(q) /\ round'[q].sess = round[q].sess
            /\ round'[q].pc # "accept" => round'[q] = round[q]
<1>3. RoundsKept
  <2>1. CASE UNCHANGED round
    BY <2>1 DEF TypeOK, Busy
  <2>2. ASSUME NEW r \in Rounds, MethodSucceeds(r)
        PROVE  RoundsKept
    <3>1. /\ round[r].pc = "method"
          /\ round' = [round EXCEPT ![r] = [round[r] EXCEPT !.pc = "accept"]]
      BY <2>2 DEF MethodSucceeds
    <3>2. Busy(r)
      BY <3>1 DEF Busy
    <3>3. round[r] \in [pc : {"method", "insert", "accept"}, sess : Sessions, id : EapIds]
      BY <3>2 DEF TypeOK, Idle, Busy
    <3> DEFINE x == [round[r] EXCEPT !.pc = "accept"]
    <3>4. /\ x \in [pc : {"method", "insert", "accept"}, sess : Sessions, id : EapIds]
          /\ x.sess = round[r].sess /\ x.pc = "accept"
      BY <3>3
    <3> HIDE DEF x
    <3>5. round' = [round EXCEPT ![r] = x]
      BY <3>1 DEF x
    <3>6. round'[r] = x /\ \A q \in Rounds \ {r} : round'[q] = round[q]
      BY <3>5 DEF TypeOK
    <3> QED
      BY <3>2, <3>4, <3>5, <3>6 DEF TypeOK, Busy
  <2> QED
    BY <2>1, <2>2 DEF Tick, vars
<1>4. Stored' = Stored /\ Started' = Started
  BY <1>1 DEF Stored, Started
<1>5. TypeOK'
  BY <1>1, <1>2, <1>3, <1>4 DEF TypeOK
<1>6. TableExact'
  BY <1>1, <1>4 DEF TableExact
<1>7. over' \subseteq Started
  BY <1>1 DEF TypeOK
<1>8. Owned' /\ AllKnown' /\ AllBound' /\ AllInOrder' /\ Linear'
  BY <1>1, <1>3, <1>4, <1>7, SessionsGo DEF AllKnown, Known
<1> QED
  BY <1>5, <1>6, <1>8
\* A conversation ends as its session is taken out of the store.
LEMMA DropStep ==
    ASSUME IInv, NEW t \in Stored, TakeOut(t), Conclude(entries[t].sess.conv),
           UNCHANGED <<multi, round, now, minted, issued, who>>
    PROVE  IInv'
<1> USE DEF IInv
<1>1. /\ entries' \in [Tokens -> {NoEntry} \cup [sess : Sessions, at : Nat]]
      /\ expirations' \subseteq Nat \X Tokens
      /\ Stored' = Stored \ {t} /\ \A u \in Stored' : entries'[u] = entries[u]
      /\ TableExact'
  BY TakeOutTable
<1>2. over' = over \cup {entries[t].sess.conv} /\ Started' = Started
  BY DEF Conclude, Started
<1>3. over' \subseteq Started
  BY <1>2 DEF TypeOK, AllKnown, Known
<1>4. TypeOK'
  BY <1>1, <1>2, <1>3 DEF TypeOK
<1>5. \A u \in Stored' : entries[u].sess.conv \notin over'
  BY <1>1, <1>2 DEF AllKnown, Known, Owned
<1>6. \A q \in Rounds : Busy(q)' => Busy(q) /\ round'[q] = round[q] /\ Conv(q) \notin over'
  BY <1>2 DEF AllKnown, Known, Owned, Busy
<1>7. Owned' /\ AllKnown' /\ AllBound' /\ AllInOrder' /\ Linear'
  BY <1>1, <1>3, <1>5, <1>6, SessionsGo
<1> QED
  BY <1>1, <1>4, <1>7

\* A session moves from the store to a round, perhaps to another method.
LEMMA ResumeStep ==
    ASSUME IInv, NEW r \in Rounds, ~Busy(r), NEW t \in Stored, TakeOut(t),
           NEW x \in Sessions, Bound(x), x.conv = entries[t].sess.conv,
           x.n = entries[t].sess.n, x.next = entries[t].sess.next,
           Run(r, x), UNCHANGED <<multi, now, minted, issued, who, over>>
    PROVE  IInv'
<1> USE DEF IInv
<1>1. /\ entries' \in [Tokens -> {NoEntry} \cup [sess : Sessions, at : Nat]]
      /\ expirations' \subseteq Nat \X Tokens
      /\ Stored' = Stored \ {t} /\ \A u \in Stored' : entries'[u] = entries[u]
      /\ TableExact'
  BY TakeOutTable
<1> DEFINE y == [pc |-> "method", sess |-> x, id |-> 0]
<1>2. round' = [round EXCEPT ![r] = y]
  BY DEF Run
<1>3. /\ y \in [pc : {"method", "insert", "accept"}, sess : Sessions, id : EapIds]
      /\ y.pc = "method" /\ y.sess = x
  BY EapSessionAssumption DEF EapIds
<1> HIDE DEF y
<1>4. round'[r] = y /\ \A q \in Rounds \ {r} : round'[q] = round[q]
  BY <1>2 DEF TypeOK
<1>5. Busy(r)' /\ \A q \in Rounds \ {r} : (Busy(q)' <=> Busy(q)) /\ Conv(q)' = Conv(q)
  BY <1>3, <1>4 DEF Busy, Conv
<1>6. Conv(r)' = x.conv
  BY <1>3, <1>4 DEF Conv
<1>7. Started' = Started
  BY DEF Started
<1>8. TypeOK'
  BY <1>1, <1>2, <1>3, <1>7 DEF TypeOK
<1>9. Owned'
  BY <1>1, <1>5, <1>6 DEF Owned
<1>10. AllKnown'
  BY <1>1, <1>5, <1>6, <1>7 DEF AllKnown, Known
<1>11. AllBound'
  BY <1>1, <1>3, <1>4, <1>5 DEF AllBound, Bound
<1>12. AllInOrder'
  <2>1. \A u \in Stored' : Behind(entries[u].sess)'
    BY <1>1 DEF AllInOrder, Behind
  <2>2. Behind(x)'
    BY DEF AllInOrder, Behind
  <2>3. \A q \in Rounds : round'[q].pc = "method" => Behind(round[q].sess)'
    BY <1>3, <1>4, <2>2 DEF AllInOrder, Behind
  <2>4. \A q \in Rounds : round'[q].pc = "insert" => Ahead(round[q].sess, round[q].id)'
    BY <1>3, <1>4 DEF AllInOrder, Ahead
  <2> QED
    BY <2>1, <2>3, <2>4 DEF AllInOrder
<1>13. Linear'
  BY DEF Linear
<1> QED
  BY <1>1, <1>8, <1>9, <1>10, <1>11, <1>12, <1>13

\* A pivot keeps the conversation, its identity and its counters, and offers a
\* type for the first time.
LEMMA PivotIs ==
    ASSUME TypeOK, NEW s \in Sessions, Bound(s), NEW t \in Registered, t \notin Range(s.tried)
    PROVE  LET x == Pivot(s, t)
           IN /\ x \in Sessions /\ Bound(x)
              /\ x.conv = s.conv /\ x.n = s.n /\ x.next = s.next
<1> DEFINE x == Pivot(s, t)
<1>1. /\ s.tried \in Seq(Registered) /\ IsInjective(s.tried)
      /\ s.told = who[s.conv] /\ s.name = who[s.conv]
  BY SessionTypes DEF Bound
<1>2. /\ Append(s.tried, t) \in Seq(Registered) /\ IsInjective(Append(s.tried, t))
  <2> DEFINE a == s.tried
             b == Append(a, t)
  <2>1. /\ b \in Seq(Registered) /\ Len(a) \in Nat
        /\ DOMAIN a = 1 .. Len(a) /\ DOMAIN b = 1 .. Len(a) + 1
        /\ \A i \in 1 .. Len(a) : b[i] = a[i]
        /\ b[Len(a) + 1] = t
    BY <1>1
  <2> HIDE DEF a, b
  <2>2. \A k \in 1 .. Len(a) : b[k] = a[k] /\ b[k] # t
    BY <2>1 DEF Range, a
  <2>3. \A i, j \in DOMAIN a : a[i] = a[j] => i = j
    BY <1>1 DEF IsInjective, a
  <2>4. ASSUME NEW i \in DOMAIN b, NEW j \in DOMAIN b, b[i] = b[j] PROVE i = j
    BY <2>1, <2>2, <2>3, <2>4
  <2> QED
    BY <2>1, <2>4 DEF IsInjective, a, b
<1>3. /\ x.conv = s.conv /\ x.n = s.n /\ x.next = s.next /\ x.told = s.name /\ x.name = s.name
      /\ x.tried = Append(s.tried, t)
  BY DEF Pivot, Sessions
<1>4. x \in Sessions
  BY <1>2 DEF Pivot, Sessions
<1> QED
  BY <1>1, <1>2, <1>3, <1>4 DEF Bound

LEMMA ContinuingStep ==
    ASSUME IInv, NEW r \in Rounds, ContinuingRound(r)
    PROVE  IInv'
<1> USE DEF IInv
<1>1. PICK t \in Stored :
        LET s == entries[t].sess
            live == entries[t].at > now
        IN /\ TakeOut(t)
           /\ \/ /\ ~live
                 /\ Conclude(s.conv)
                 /\ UNCHANGED round
              \/ /\ live /\ Run(r, s)
                 /\ UNCHANGED over
              \/ \E want \in Wants :
                 /\ live /\ multi
                 /\ LET desired == Candidates(s, want)
                    IN \/ desired = {} /\ Conclude(s.conv) /\ UNCHANGED round
                       \/ \E i \in desired :
                            /\ \A j \in desired : i <= j
                            /\ Run(r, Pivot(s, want[i]))
                            /\ UNCHANGED over
              \/ /\ live
                 /\ Conclude(s.conv)
                 /\ UNCHANGED round
  BY DEF ContinuingRound
<1>2. ~Busy(r) /\ UNCHANGED <<multi, now, minted, issued, who>>
  BY DEF ContinuingRound, Busy
<1> DEFINE s == entries[t].sess
<1>3. s \in Sessions /\ Bound(s)
  BY StoredTypes DEF Stored, AllBound
<1>4. CASE Conclude(s.conv) /\ UNCHANGED round
  BY <1>1, <1>2, <1>4, DropStep
<1>5. CASE Run(r, s) /\ UNCHANGED over
  BY <1>1, <1>2, <1>3, <1>5, ResumeStep
<1>6. ASSUME NEW want \in Wants, NEW i \in Candidates(s, want),
             Run(r, Pivot(s, want[i])), UNCHANGED over
      PROVE  IInv'
  <2>1. want[i] \in Registered /\ want[i] \notin Range(s.tried)
    BY DEF Candidates
  <2> DEFINE x == Pivot(s, want[i])
  <2>2. x \in Sessions /\ Bound(x) /\ x.conv = s.conv /\ x.n = s.n /\ x.next = s.next
    BY <1>3, <2>1, PivotIs
  <2> HIDE DEF x
  <2>3. Run(r, x)
    BY <1>6 DEF x
  <2> QED
    BY <1>1, <1>2, <1>6, <2>2, <2>3, ResumeStep
<1> QED
  BY <1>1, <1>4, <1>5, <1>6
\* A conversation begins: nobody else has a session of it, and it was sent no
\* challenge.
LEMMA IdentityStep ==
    ASSUME IInv, NEW r \in Rounds, IdentityRound(r)
    PROVE  IInv'
<1> USE DEF IInv
<1>1. PICK c \in Convs \ Started, name \in Names \cup {None} :
        /\ who' = [who EXCEPT ![c] = name]
        /\ Run(r, NewSession(c, Preferred, name))
  BY DEF IdentityRound, ResolvePeerIdentity
<1>2. ~Busy(r) /\ UNCHANGED <<multi, entries, expirations, now, minted, issued, over>>
  BY DEF IdentityRound, Busy
<1>3. PICK x \in Sessions :
        /\ x = NewSession(c, Preferred, name)
        /\ x.conv = c /\ x.told = name /\ x.name = name /\ IsInjective(x.tried)
  <2> DEFINE tried == IF multi THEN <<Preferred>> ELSE <<>>
             z == NewSession(c, Preferred, name)
  <2>1. tried \in Seq(Registered) /\ IsInjective(tried)
    BY EapSessionAssumption DEF IsInjective
  <2>2. 1 \in EapIds /\ 0 \in Nat /\ Preferred \in Registered
    BY EapSessionAssumption DEF EapIds
  <2> HIDE DEF tried
  <2>3. z = [conv |-> c, typ |-> Preferred, told |-> name, next |-> 1, name |-> name,
             tried |-> tried, n |-> 0]
    BY DEF NewSession, tried
  <2> HIDE DEF z
  <2>4. z \in Sessions /\ z.conv = c /\ z.told = name /\ z.name = name /\ IsInjective(z.tried)
    BY <2>1, <2>2, <2>3 DEF Sessions
  <2> QED
    BY <2>4 DEF z
<1> DEFINE y == [pc |-> "method", sess |-> x, id |-> 0]
<1>4. round' = [round EXCEPT ![r] = y]
  BY <1>1, <1>3 DEF Run
<1>5. /\ y \in [pc : {"method", "insert", "accept"}, sess : Sessions, id : EapIds]
      /\ y.pc = "method" /\ y.sess = x
  BY <1>3, EapSessionAssumption DEF EapIds
<1> HIDE DEF y
<1>6. round'[r] = y /\ \A q \in Rounds \ {r} : round'[q] = round[q]
  BY <1>4 DEF TypeOK
<1>7. Busy(r)' /\ \A q \in Rounds \ {r} : (Busy(q)' <=> Busy(q)) /\ Conv(q)' = Conv(q)
  BY <1>5, <1>6 DEF Busy, Conv
<1>8. Conv(r)' = c
  BY <1>3, <1>5, <1>6 DEF Conv
<1>9. Stored' = Stored
  BY <1>2 DEF Stored
<1>10. who'[c] = name /\ \A d \in Convs \ {c} : who'[d] = who[d]
  BY <1>1 DEF TypeOK
<1>11. Started' = Started \cup {c}
  <2>1. name # "unused"
    BY EapOptionAssumption
  <2> QED
    BY <1>10, <2>1 DEF Started
<1>12. c \notin over
  BY DEF TypeOK
<1>13. \A u \in Stored : /\ entries[u].sess.conv \in Convs /\ entries[u].sess.conv # c
                         /\ who'[entries[u].sess.conv] = who[entries[u].sess.conv]
  <2>1. \A u \in Stored : entries[u].sess.conv \in Convs /\ entries[u].sess.conv # c
    BY DEF AllKnown, Known, Started
  <2> QED
    BY <1>10, <2>1
<1>14. \A q \in Rounds : Busy(q) => Conv(q) \in Convs /\ Conv(q) # c /\ who'[Conv(q)] = who[Conv(q)]
  <2>1. \A q \in Rounds : Busy(q) => Conv(q) \in Convs /\ Conv(q) # c
    BY DEF AllKnown, Known, Started
  <2> QED
    BY <1>10, <2>1
<1>15. TypeOK'
  <2>1. who' \in [Convs -> Names \cup {None, "unused"}]
    BY <1>1 DEF TypeOK
  <2> QED
    BY <1>2, <1>4, <1>5, <1>11, <2>1 DEF TypeOK
<1>16. TableExact'
  BY <1>2, <1>9 DEF TableExact
<1>17. Owned'
  BY <1>2, <1>7, <1>8, <1>9, <1>13, <1>14 DEF Owned
<1>18. AllKnown'
  BY <1>2, <1>7, <1>8, <1>9, <1>11, <1>12 DEF AllKnown, Known
<1>19. AllBound'
  <2>1. \A u \in Stored' : Bound(entries[u].sess)'
    BY <1>2, <1>9, <1>13 DEF AllBound, Bound
  <2>2. \A q \in Rounds \ {r} : Busy(q)' => Bound(round[q].sess)'
    BY <1>6, <1>7, <1>14 DEF AllBound, Bound, Conv
  <2>3. Bound(round[r].sess)'
    BY <1>3, <1>5, <1>6, <1>10 DEF Bound
  <2> QED
    BY <2>1, <2>2, <2>3 DEF AllBound
<1>20. AllInOrder'
  <2>1. \A u \in Stored' : Behind(entries[u].sess)'
    BY <1>2, <1>9 DEF AllInOrder, Behind
  <2>2. Behind(x)'
    BY <1>2, <1>3 DEF Behind, AllKnown
  <2>3. \A q \in Rounds : round'[q].pc = "method" => Behind(round[q].sess)'
    BY <1>2, <1>5, <1>6, <2>2 DEF AllInOrder, Behind
  <2>4. \A q \in Rounds : round'[q].pc = "insert" => Ahead(round[q].sess, round[q].id)'
    BY <1>2, <1>5, <1>6 DEF AllInOrder, Ahead
  <2> QED
    BY <2>1, <2>3, <2>4 DEF AllInOrder
<1>21. Linear'
  BY <1>2 DEF Linear
<1> QED
  BY <1>15, <1>16, <1>17, <1>18, <1>19, <1>20, <1>21

\* The identifier of a request differs from that of the one before, since at
\* most two identifiers are allocated for it.
LEMMA AllocateIs ==
    ASSUME NEW last \in EapIds, NEW s, s.next = (last + 1) % IdCount, NEW peer \in EapIds
    PROVE  Allocate(s, peer) # last
<1> DEFINE N == IdCount
           a == (last + 1) % N
           b == (a + 1) % N
<1>1. N \in Nat /\ N > 2 /\ last \in Nat /\ last < N
  BY EapSessionAssumption DEF EapIds
<1> HIDE DEF N
<1>2. a = (IF last + 1 = N THEN 0 ELSE last + 1)
  <2>1. CASE last + 1 = N
    BY <1>1, <2>1
  <2>2. CASE last + 1 < N
    BY <1>1, <2>2
  <2> QED
    BY <1>1, <2>1, <2>2
<1> HIDE DEF a
<1>3. a \in Nat /\ a < N /\ a # last
  BY <1>1, <1>2
<1>4. b = (IF a + 1 = N THEN 0 ELSE a + 1)
  <2>1. CASE a + 1 = N
    BY <1>1, <1>3, <2>1
  <2>2. CASE a + 1 < N
    BY <1>1, <1>3, <2>2
  <2> QED
    BY <1>1, <1>3, <2>1, <2>2
<1> HIDE DEF b
<1>5. b # last
  BY <1>1, <1>2, <1>4
<1>6. a % N = a
  BY <1>1, <1>3
<1>7. Allocate(s, peer) \in {a, b}
  BY <1>6 DEF Allocate, a, b, N
<1> QED
  BY <1>3, <1>5, <1>7

LEMMA AllocateType ==
    ASSUME NEW s \in Sessions, NEW peer \in EapIds
    PROVE  Allocate(s, peer) \in EapIds /\ (Allocate(s, peer) + 1) % IdCount \in EapIds
<1>1. \A k \in Nat : k % IdCount \in EapIds
  BY EapSessionAssumption DEF EapIds
<1>2. s.next \in Nat
  BY SessionTypes DEF EapIds
<1>3. Allocate(s, peer) \in EapIds
  <2>1. s.next % IdCount \in EapIds
    BY <1>1, <1>2
  <2>2. (s.next % IdCount) + 1 \in Nat
    BY <2>1 DEF EapIds
  <2>3. ((s.next % IdCount) + 1) % IdCount \in EapIds
    BY <1>1, <2>2
  <2> QED
    BY <2>1, <2>3 DEF Allocate
<1>4. Allocate(s, peer) + 1 \in Nat
  BY <1>3 DEF EapIds
<1> QED
  BY <1>1, <1>3, <1>4

\* The method goes on: the next request gets its identifier.
LEMMA ContinuesStep ==
    ASSUME IInv, NEW r \in Rounds, MethodContinues(r)
    PROVE  IInv'
<1> USE DEF IInv
<1>1. round[r].pc = "method" /\ UNCHANGED <<multi, entries, expirations, now, minted, issued, who, over>>
  BY DEF MethodContinues
<1>2. PICK peer \in EapIds :
        LET s == round[r].sess
            id == Allocate(s, peer)
        IN round' = [round EXCEPT ![r] =
            [pc |-> "insert", id |-> id,
             sess |-> [s EXCEPT !.next = (id + 1) % IdCount, !.n = @ + 1]]]
  BY DEF MethodContinues
<1>3. Busy(r) /\ round[r].sess \in Sessions /\ Behind(round[r].sess)
  BY <1>1, RoundTypes DEF AllInOrder, Busy
<1>4. PICK s \in Sessions : s = round[r].sess
  BY <1>3
<1>5. PICK id \in EapIds : id = Allocate(s, peer) /\ (id + 1) % IdCount \in EapIds
  BY AllocateType
<1>6. PICK x \in Sessions :
        /\ x = [s EXCEPT !.next = (id + 1) % IdCount, !.n = @ + 1]
        /\ x.conv = s.conv /\ x.told = s.told /\ x.name = s.name /\ x.tried = s.tried
        /\ x.next = (id + 1) % IdCount /\ x.n = s.n + 1
  <2> DEFINE z == [s EXCEPT !.next = (id + 1) % IdCount, !.n = s.n + 1]
  <2>1. s.n + 1 \in Nat
    BY SessionTypes
  <2>2. /\ z \in Sessions
        /\ z.conv = s.conv /\ z.told = s.told /\ z.name = s.name /\ z.tried = s.tried
        /\ z.next = (id + 1) % IdCount /\ z.n = s.n + 1
    BY <1>5, <2>1 DEF Sessions
  <2> QED
    BY <2>2
<1> DEFINE y == [pc |-> "insert", id |-> id, sess |-> x]
<1>7. round' = [round EXCEPT ![r] = y]
  BY <1>2, <1>4, <1>5, <1>6
<1>8. /\ y \in [pc : {"method", "insert", "accept"}, sess : Sessions, id : EapIds]
      /\ y.pc = "insert" /\ y.sess = x /\ y.id = id
  OBVIOUS
<1> HIDE DEF y
<1>9. round'[r] = y /\ \A q \in Rounds \ {r} : round'[q] = round[q]
  BY <1>7 DEF TypeOK
<1>10. \A q \in Rounds : (Busy(q)' <=> Busy(q)) /\ Conv(q)' = Conv(q)
  BY <1>3, <1>4, <1>6, <1>8, <1>9 DEF Busy, Conv
<1>11. Stored' = Stored /\ Started' = Started
  BY <1>1 DEF Stored, Started
<1>12. TypeOK'
  BY <1>1, <1>7, <1>8, <1>11 DEF TypeOK
<1>13. TableExact'
  BY <1>1, <1>11 DEF TableExact
<1>14. Owned'
  BY <1>1, <1>10, <1>11 DEF Owned
<1>15. AllKnown'
  BY <1>1, <1>10, <1>11 DEF AllKnown, Known
<1>16. AllBound'
  <2>1. \A u \in Stored' : Bound(entries[u].sess)'
    BY <1>1, <1>11 DEF AllBound, Bound
  <2>2. \A q \in Rounds \ {r} : Busy(q)' => Bound(round[q].sess)'
    BY <1>1, <1>9, <1>10 DEF AllBound, Bound
  <2>3. Bound(round[r].sess)'
    <3>1. s.told = who[s.conv] /\ s.name = who[s.conv] /\ IsInjective(s.tried)
      BY <1>3, <1>4 DEF AllBound, Bound
    <3>2. x.told = who'[x.conv] /\ x.name = who'[x.conv] /\ IsInjective(x.tried)
      BY <1>1, <1>6, <3>1
    <3>3. round'[r].sess = x
      BY <1>8, <1>9
    <3> QED
      BY <3>2, <3>3 DEF Bound
  <2> QED
    BY <2>1, <2>2, <2>3 DEF AllBound
<1>17. AllInOrder'
  <2>1. \A u \in Stored' : Behind(entries[u].sess)'
    BY <1>1, <1>11 DEF AllInOrder, Behind
  <2>2. Ahead(x, id)'
    <3> SUFFICES ASSUME NEW u \in 1 .. minted, issued[u].conv = x.conv
                 PROVE  /\ issued[u].n < x.n
                        /\ x.n = issued[u].n + 1 => issued[u].id # id
      BY <1>1, <1>6 DEF Ahead
    <3>1. u \in Tokens
      BY EapSessionAssumption DEF TypeOK, Tokens
    <3>2. issued[u].n \in Nat /\ issued[u].id \in EapIds /\ s.n \in Nat
      BY <3>1, SessionTypes DEF TypeOK
    <3>3. /\ issued[u].n <= s.n
          /\ issued[u].n = s.n => s.next = (issued[u].id + 1) % IdCount
      BY <1>3, <1>4, <1>6 DEF Behind
    <3>4. issued[u].n = s.n => issued[u].id # id
      BY <1>5, <3>2, <3>3, AllocateIs
    <3> QED
      BY <1>6, <3>2, <3>3, <3>4
  <2>3. \A q \in Rounds : round'[q].pc = "method" => Behind(round[q].sess)'
    BY <1>1, <1>8, <1>9 DEF AllInOrder, Behind
  <2>4. \A q \in Rounds : round'[q].pc = "insert" => Ahead(round[q].sess, round[q].id)'
    BY <1>1, <1>8, <1>9, <2>2 DEF AllInOrder, Ahead
  <2> QED
    BY <2>1, <2>3, <2>4 DEF AllInOrder
<1>18. Linear'
  BY <1>1 DEF Linear
<1> QED
  BY <1>12, <1>13, <1>14, <1>15, <1>16, <1>17, <1>18

\* The session goes into the store under a fresh State, which the challenge
\* carries.
LEMMA CommitStep ==
    ASSUME IInv, NEW r \in Rounds, Commit(r)
    PROVE  IInv'
<1> USE DEF IInv
<1>1. /\ round[r].pc = "insert" /\ minted < MaxTokens
      /\ Put(minted + 1, round[r].sess) /\ minted' = minted + 1
      /\ issued' = [issued EXCEPT ![minted + 1] =
            [conv |-> round[r].sess.conv, n |-> round[r].sess.n, id |-> round[r].id]]
      /\ round' = [round EXCEPT ![r] = Idle]
      /\ UNCHANGED <<multi, now, who, over>>
  BY DEF Commit, End
<1>2. Busy(r) /\ round[r].sess \in Sessions /\ round[r].id \in EapIds
  BY <1>1, RoundTypes DEF Busy
<1>3. PICK s \in Sessions, id \in EapIds : s = round[r].sess /\ id = round[r].id
  BY <1>2
<1>4. minted \in Nat
  BY DEF TypeOK
<1>5. PICK t \in Tokens : t = minted + 1
  BY <1>1, <1>4, EapSessionAssumption DEF TypeOK, Tokens
<1> DEFINE x == [conv |-> s.conv, n |-> s.n, id |-> id]
<1>6. /\ x \in [conv : 0 .. MaxConvs, n : Nat, id : EapIds]
      /\ x.conv = s.conv /\ x.n = s.n /\ x.id = id
  BY SessionTypes, EapSessionAssumption DEF Convs
<1> HIDE DEF x
<1>7. issued' = [issued EXCEPT ![t] = x]
  BY <1>1, <1>3, <1>5 DEF x
<1>8. issued'[t] = x /\ \A u \in Tokens \ {t} : issued'[u] = issued[u]
  BY <1>7 DEF TypeOK
<1>9. /\ \A u \in 1 .. minted : u \in Tokens /\ u # t
      /\ 1 .. minted' = (1 .. minted) \cup {t}
  <2>1. minted' = t /\ t \in 1 .. MaxTokens /\ t = minted + 1
    BY <1>1, <1>5 DEF Tokens
  <2>2. \A u \in 1 .. minted : u \in Tokens /\ u # t
    BY <1>4, <2>1, EapSessionAssumption DEF Tokens
  <2>3. \A u : u \in 1 .. minted' <=> u \in (1 .. minted) \cup {t}
    BY <1>4, <2>1
  <2> QED
    BY <2>2, <2>3
<1>10. t \notin Stored
  BY <1>4, <1>5 DEF AllKnown
<1>11. /\ entries' \in [Tokens -> {NoEntry} \cup [sess : Sessions, at : Nat]]
       /\ expirations' \subseteq Nat \X Tokens
       /\ t \in Stored' /\ entries'[t].sess = s
       /\ \A u \in Stored' \ {t} : u \in Stored /\ entries'[u] = entries[u]
       /\ TableExact'
  BY <1>1, <1>3, <1>5, <1>10, PutTable
<1>12. round'[r] = Idle /\ \A q \in Rounds \ {r} : round'[q] = round[q]
  BY <1>1 DEF TypeOK
<1>13. ~Busy(r)' /\ \A q \in Rounds \ {r} : (Busy(q)' <=> Busy(q)) /\ Conv(q)' = Conv(q)
  BY <1>12 DEF Busy, Conv, Idle
<1>14. Started' = Started
  BY <1>1 DEF Started
<1>15. /\ s.conv = Conv(r) /\ Known(s.conv) /\ Bound(s) /\ Ahead(s, id)
  BY <1>1, <1>2, <1>3 DEF Conv, AllKnown, AllBound, AllInOrder
<1>16. /\ \A u \in Stored : entries[u].sess.conv # s.conv
       /\ \A q \in Rounds \ {r} : Busy(q) => Conv(q) # s.conv
  BY <1>2, <1>15 DEF Owned
<1>17. TypeOK'
  <2>1. issued' \in [Tokens -> [conv : 0 .. MaxConvs, n : Nat, id : EapIds]]
    BY <1>6, <1>7 DEF TypeOK
  <2>2. minted' \in 0 .. MaxTokens
    BY <1>1, <1>4, EapSessionAssumption
  <2> QED
    BY <1>1, <1>11, <1>14, <2>1, <2>2 DEF TypeOK
<1>18. Owned'
  <2>1. \A u, v \in Stored' : entries'[u].sess.conv = entries'[v].sess.conv => u = v
    BY <1>11, <1>16 DEF Owned
  <2>2. \A p, q \in Rounds : (Busy(p)' /\ Busy(q)' /\ Conv(p)' = Conv(q)') => p = q
    BY <1>13 DEF Owned
  <2>3. \A u \in Stored', q \in Rounds : Busy(q)' => entries'[u].sess.conv # Conv(q)'
    BY <1>11, <1>13, <1>16 DEF Owned
  <2> QED
    BY <2>1, <2>2, <2>3 DEF Owned
<1>19. AllKnown'
  <2>1. \A u \in Stored' : u <= minted' /\ Known(entries[u].sess.conv)'
    <3> SUFFICES ASSUME NEW u \in Stored'
                 PROVE  /\ u <= minted'
                        /\ entries'[u].sess.conv \in Started' /\ entries'[u].sess.conv \notin over'
      BY DEF Known
    <3>1. CASE u = t
      BY <1>1, <1>4, <1>5, <1>11, <1>14, <1>15, <3>1 DEF Known
    <3>2. CASE u # t
      <4>1. u \in Stored /\ entries'[u] = entries[u] /\ u \in Nat
        BY <1>11, <3>2 DEF Stored, Tokens
      <4>2. u <= minted /\ Known(entries[u].sess.conv)
        BY <4>1 DEF AllKnown
      <4> QED
        BY <1>1, <1>4, <1>14, <4>1, <4>2 DEF Known
    <3> QED
      BY <3>1, <3>2
  <2>2. \A q \in Rounds : Busy(q)' => Conv(q)' \in Started' /\ Conv(q)' \notin over'
    BY <1>1, <1>13, <1>14 DEF AllKnown, Known
  <2>3. \A u \in 1 .. minted' : issued'[u].conv \in Started'
    BY <1>6, <1>8, <1>9, <1>14, <1>15 DEF AllKnown, Known
  <2> QED
    BY <2>1, <2>2, <2>3 DEF AllKnown, Known
<1>20. AllBound'
  <2>1. \A u \in Stored' : Bound(entries[u].sess)'
    <3> SUFFICES ASSUME NEW u \in Stored'
                 PROVE  LET z == entries'[u].sess
                        IN z.told = who[z.conv] /\ z.name = who[z.conv] /\ IsInjective(z.tried)
      BY <1>1 DEF Bound
    <3>1. CASE u = t
      BY <1>11, <1>15, <3>1 DEF Bound
    <3>2. CASE u # t
      BY <1>11, <3>2 DEF AllBound, Bound
    <3> QED
      BY <3>1, <3>2
  <2>2. \A q \in Rounds : Busy(q)' => Bound(round[q].sess)'
    BY <1>1, <1>12, <1>13 DEF AllBound, Bound
  <2> QED
    BY <2>1, <2>2 DEF AllBound
<1>21. \A u \in 1 .. minted : issued'[u] = issued[u]
  BY <1>8, <1>9
<1>22. AllInOrder'
  <2>1. \A z \in Sessions : z.conv # s.conv /\ Behind(z) => Behind(z)'
    BY <1>6, <1>8, <1>9, <1>21 DEF Behind
  <2>2. \A z \in Sessions, k \in EapIds : z.conv # s.conv /\ Ahead(z, k) => Ahead(z, k)'
    BY <1>6, <1>8, <1>9, <1>21 DEF Ahead
  <2>3. Behind(s)'
    <3> SUFFICES ASSUME NEW u \in 1 .. minted', issued'[u].conv = s.conv
                 PROVE  /\ issued'[u].n <= s.n
                        /\ issued'[u].n = s.n => s.next = (issued'[u].id + 1) % IdCount
      BY DEF Behind
    <3>1. CASE u = t
      BY <1>6, <1>8, <1>15, <3>1, SessionTypes DEF Ahead
    <3>2. CASE u # t
      <4>1. u \in 1 .. minted /\ u \in Tokens
        BY <1>9, <3>2
      <4>2. issued'[u] = issued[u] /\ issued[u].n \in Nat /\ s.n \in Nat
        BY <1>21, <4>1, SessionTypes DEF TypeOK
      <4>3. issued[u].n < s.n
        BY <1>15, <4>1, <4>2 DEF Ahead
      <4> QED
        BY <4>2, <4>3
    <3> QED
      BY <3>1, <3>2
  <2>4. ASSUME NEW u \in Stored' PROVE Behind(entries[u].sess)'
    <3>1. CASE u = t
      BY <1>11, <2>3, <3>1 DEF Behind
    <3>2. CASE u # t
      <4>1. u \in Stored /\ entries'[u] = entries[u] /\ u \in Tokens
        BY <1>11, <3>2 DEF Stored
      <4>2. PICK z \in Sessions : z = entries[u].sess
        BY <4>1, StoredTypes
      <4>3. z.conv # s.conv /\ Behind(z)
        BY <1>16, <4>1, <4>2 DEF AllInOrder
      <4>4. Behind(z)'
        BY <2>1, <4>3
      <4> QED
        BY <4>1, <4>2, <4>4 DEF Behind
    <3> QED
      BY <3>1, <3>2
  <2>5. ASSUME NEW q \in Rounds, round'[q].pc \in {"method", "insert"}
        PROVE  /\ q # r /\ round'[q] = round[q] /\ Busy(q) /\ round[q].id \in EapIds
               /\ round[q].sess \in Sessions /\ round[q].sess.conv # s.conv
    <3>1. q # r /\ round'[q] = round[q]
      BY <1>12, <2>5 DEF Idle
    <3>2. Busy(q)
      BY <2>5, <3>1 DEF Busy
    <3> QED
      BY <1>16, <3>1, <3>2, RoundTypes DEF Conv
  <2>6. ASSUME NEW q \in Rounds, round'[q].pc = "method" PROVE Behind(round[q].sess)'
    <3>1. PICK z \in Sessions : z = round[q].sess /\ z.conv # s.conv /\ round'[q] = round[q]
      BY <2>5, <2>6
    <3>2. Behind(z)
      BY <2>6, <3>1 DEF AllInOrder
    <3>3. Behind(z)'
      BY <2>1, <3>1, <3>2
    <3> QED
      BY <3>1, <3>3 DEF Behind
  <2>7. ASSUME NEW q \in Rounds, round'[q].pc = "insert" PROVE Ahead(round[q].sess, round[q].id)'
    <3>1. PICK z \in Sessions, k \in EapIds :
            z = round[q].sess /\ z.conv # s.conv /\ round'[q] = round[q] /\ k = round[q].id
      BY <2>5, <2>7
    <3>2. Ahead(z, k)
      BY <2>7, <3>1 DEF AllInOrder
    <3>3. Ahead(z, k)'
      BY <2>2, <3>1, <3>2
    <3> QED
      BY <3>1, <3>3 DEF Ahead
  <2> QED
    BY <2>4, <2>6, <2>7 DEF AllInOrder
<1>23. Linear'
  <2> SUFFICES ASSUME NEW u \in 1 .. minted', NEW v \in 1 .. minted', u # v,
                      issued'[u].conv = issued'[v].conv
               PROVE  /\ issued'[u].n # issued'[v].n
                      /\ issued'[v].n = issued'[u].n + 1 => issued'[v].id # issued'[u].id
    BY DEF Linear
  <2>1. \A w \in 1 .. minted :
            /\ issued'[w] = issued[w] /\ issued[w].n \in Nat
            /\ issued[w].conv = s.conv =>
                issued[w].n < s.n /\ (s.n = issued[w].n + 1 => issued[w].id # id)
    BY <1>9, <1>15, <1>21 DEF Ahead, TypeOK
  <2>2. s.n \in Nat
    BY SessionTypes
  <2>3. CASE u = t
    <3>1. v \in 1 .. minted
      BY <1>9, <2>3
    <3>2. issued'[u] = x /\ issued'[v] = issued[v] /\ issued[v].conv = s.conv
      BY <1>6, <1>8, <2>1, <2>3, <3>1
    <3> QED
      BY <1>6, <2>1, <2>2, <3>1, <3>2
  <2>4. CASE v = t
    <3>1. u \in 1 .. minted
      BY <1>9, <2>4
    <3>2. issued'[v] = x /\ issued'[u] = issued[u] /\ issued[u].conv = s.conv
      BY <1>6, <1>8, <2>1, <2>4, <3>1
    <3> QED
      BY <1>6, <2>1, <2>2, <3>1, <3>2
  <2>5. CASE u # t /\ v # t
    <3>1. u \in 1 .. minted /\ v \in 1 .. minted
      BY <1>9, <2>5
    <3> QED
      BY <2>1, <3>1 DEF Linear
  <2> QED
    BY <2>3, <2>4, <2>5
<1> QED
  BY <1>11, <1>17, <1>18, <1>19, <1>20, <1>22, <1>23
-----------------------------------------------------------------------------
(* The invariant, and what follows from it.                                *)

LEMMA InitInv == Init => IInv
<1> SUFFICES ASSUME Init PROVE IInv
  OBVIOUS
<1> USE DEF Init
<1>1. Stored = {} /\ Started = {}
  BY DEF Stored, Started
<1>2. TypeOK
  <2>1. NotIssued \in [conv : 0 .. MaxConvs, n : Nat, id : EapIds]
    BY EapSessionAssumption DEF NotIssued, EapIds
  <2> QED
    BY <1>1, <2>1, EapSessionAssumption DEF TypeOK
<1>3. TableExact
  BY <1>1, FS_EmptySet, EapSessionAssumption DEF TableExact
<1>4. \A r \in Rounds : ~Busy(r) /\ round[r].pc = "idle"
  BY DEF Busy, Idle
<1>5. Owned /\ AllKnown /\ AllBound /\ AllInOrder /\ Linear
  BY <1>1, <1>4 DEF Owned, AllKnown, AllBound, AllInOrder, Linear
<1> QED
  BY <1>2, <1>3, <1>5 DEF IInv

LEMMA StepInv == IInv /\ [Next]_vars => IInv'
<1> SUFFICES ASSUME IInv, [Next]_vars PROVE IInv'
  OBVIOUS
<1>1. CASE Tick \/ UNCHANGED vars
  BY <1>1, QuietStep
<1>2. ASSUME NEW r \in Rounds, RoundStep(r) PROVE IInv'
  BY <1>2, IdentityStep, ContinuingStep, ContinuesStep, CommitStep, QuietStep, EndStep
     DEF RoundStep
<1> QED
  BY <1>1, <1>2 DEF Next

\* The invariant of the session store and its rounds holds however rounds
\* overlap, are repeated or are cancelled.
THEOREM Invariance == Spec => []IInv
<1> QED
  BY InitInv, StepInv, PTL DEF Spec

\* SessionsExact: the table keeps its limit and its index (insert, remove), a
\* session is in one place at a time (take), and no two challenges are the same
\* step of a conversation, nor do successive ones share an EAP identifier
\* (allocate_eap_id).
THEOREM SessionsExactHolds == Spec => []SessionsExact
<1>1. IInv => SessionsExact
  <2> SUFFICES ASSUME IInv PROVE SessionsExact
    OBVIOUS
  <2>1. OneOwner
    <3> SUFFICES ASSUME NEW c \in Convs
                 PROVE  /\ Cardinality(Holders(c)) <= 1
                        /\ c \in over => Holders(c) = {}
      BY DEF OneOwner
    <3>1. ASSUME NEW h \in Holders(c)
          PROVE  \/ \E t \in Stored : h = <<"store", t>> /\ entries[t].sess.conv = c
                 \/ \E r \in Rounds : h = <<"round", r>> /\ Busy(r) /\ Conv(r) = c
      BY <3>1 DEF Holders, Busy, Conv
    <3>2. ASSUME NEW h \in Holders(c), NEW g \in Holders(c) PROVE h = g
      BY <3>1, <3>2 DEF IInv, Owned
    <3>3. ASSUME c \in over PROVE Holders(c) = {}
      BY <3>1, <3>3 DEF IInv, AllKnown, Known
    <3>4. Cardinality(Holders(c)) <= 1
      <4>1. CASE Holders(c) = {}
        BY <4>1, FS_EmptySet
      <4>2. CASE Holders(c) # {}
        <5>1. PICK h : Holders(c) = {h}
          BY <3>2, <4>2
        <5>2. Cardinality({h}) = 1
          BY FS_Singleton
        <5> QED
          BY <5>1, <5>2
      <4> QED
        BY <4>1, <4>2
    <3> QED
      BY <3>3, <3>4
  <2> QED
    BY <2>1 DEF SessionsExact, IInv
<1> QED
  BY <1>1, Invariance, PTL

\* NegotiationSound: the method of a conversation was told the identity that
\* the conversation began with (notify_peer_identity), and no type is offered
\* twice, so that the offers are at most the registered types (tried_types).
THEOREM NegotiationSoundHolds == Spec => []NegotiationSound
<1>1. IInv => NegotiationSound
  <2> SUFFICES ASSUME IInv PROVE NegotiationSound
    OBVIOUS
  <2>1. BoundToIdentity
    BY DEF BoundToIdentity, IInv, AllBound, Bound, Busy
  <2>2. OfferedOnce
    <3> SUFFICES ASSUME NEW r \in Rounds, round[r].pc # "idle"
                 PROVE  /\ IsInjective(round[r].sess.tried)
                        /\ Len(round[r].sess.tried) <= Cardinality(Registered)
      BY DEF OfferedOnce
    <3> DEFINE a == round[r].sess.tried
    <3>1. Busy(r) /\ IsInjective(a)
      BY DEF Busy, IInv, AllBound, Bound
    <3>2. a \in Seq(Registered)
      BY <3>1, RoundTypes, SessionTypes DEF IInv
    <3> HIDE DEF a
    <3>3. a \in Injection(1 .. Len(a), Registered) /\ Len(a) \in Nat
      BY <3>1, <3>2 DEF Injection
    <3>4. Cardinality(1 .. Len(a)) <= Cardinality(Registered)
      BY <3>3, FS_Injection, EapSessionAssumption
    <3>5. Cardinality(1 .. Len(a)) = Len(a)
      <4>1. 1 \in Int /\ Len(a) \in Int
        BY <3>3
      <4>2. Cardinality(1 .. Len(a)) = IF 1 > Len(a) THEN 0 ELSE Len(a) - 1 + 1
        BY <4>1, FS_Interval
      <4> QED
        BY <3>3, <4>2
    <3> QED
      BY <3>1, <3>4, <3>5 DEF a
  <2> QED
    BY <2>1, <2>2 DEF NegotiationSound
<1> QED
  BY <1>1, Invariance, PTL

\* OnlyEarliestEvicted: an unexpired session leaves the store only into a round
\* that resumes or ends it, or as the first to expire of a full table
\* (evict_expired, evict_first).
THEOREM OnlyEarliestEvictedHolds == Spec => OnlyEarliestEvicted
<1> DEFINE Kept ==
        \A t \in Stored :
            t \notin Stored' /\ entries[t].at > now =>
                \/ \E r \in Rounds :
                    round'[r].sess # None /\ round'[r].sess.conv = entries[t].sess.conv
                \/ entries[t].sess.conv \in over'
                \/ /\ Cardinality(Stored) >= Capacity
                   /\ \A u \in Stored \cap Stored' : entries[t].at <= entries[u].at
<1>1. IInv /\ [Next]_vars => [Kept]_vars
  <2> SUFFICES ASSUME IInv, Next PROVE Kept
    OBVIOUS
  <2> SUFFICES ASSUME NEW t \in Stored, t \notin Stored', entries[t].at > now
               PROVE  \/ \E r \in Rounds : /\ round'[r].sess # None
                                           /\ round'[r].sess.conv = entries[t].sess.conv
                      \/ entries[t].sess.conv \in over'
                      \/ /\ Cardinality(Stored) >= Capacity
                         /\ \A u \in Stored \cap Stored' : entries[t].at <= entries[u].at
    OBVIOUS
  <2>1. entries' # entries
    BY DEF Stored
  <2>2. PICK r \in Rounds : ContinuingRound(r) \/ Commit(r)
    BY <2>1 DEF Next, Tick, RoundStep, IdentityRound, MethodContinues, MethodSucceeds,
                MethodFails, Accept, Cancel
  <2>3. t \in Tokens /\ entries[t].sess \in Sessions /\ entries[t].at \in Nat
    BY StoredTypes DEF IInv, Stored
  <2>4. CASE ContinuingRound(r)
    <3>1. PICK u \in Stored :
            /\ TakeOut(u)
            /\ \/ Conclude(entries[u].sess.conv)
               \/ Run(r, entries[u].sess)
               \/ \E k \in Registered : /\ k \notin Range(entries[u].sess.tried)
                                        /\ Run(r, Pivot(entries[u].sess, k))
      BY <2>4 DEF ContinuingRound, Candidates
    <3>2. u = t
      BY <3>1, TakeOutTable DEF IInv
    <3>3. CASE Conclude(entries[u].sess.conv)
      BY <3>2, <3>3 DEF Conclude
    <3>4. ASSUME NEW x, Run(r, x), x.conv = entries[t].sess.conv, x # None
          PROVE  round'[r].sess # None /\ round'[r].sess.conv = entries[t].sess.conv
      BY <3>4 DEF Run, IInv, TypeOK
    <3>5. ASSUME NEW k \in Registered, k \notin Range(entries[t].sess.tried),
                 Run(r, Pivot(entries[t].sess, k))
          PROVE  round'[r].sess # None /\ round'[r].sess.conv = entries[t].sess.conv
      <4>1. Bound(entries[t].sess)
        BY DEF IInv, AllBound
      <4>2. /\ Pivot(entries[t].sess, k) \in Sessions
            /\ Pivot(entries[t].sess, k).conv = entries[t].sess.conv
        BY <2>3, <3>5, <4>1, PivotIs DEF IInv
      <4> QED
        BY <3>4, <3>5, <4>2, SessionTypes
    <3> QED
      BY <2>3, <3>1, <3>2, <3>3, <3>4, <3>5, SessionTypes
  <2>5. CASE Commit(r)
    <3>1. /\ round[r].pc = "insert" /\ minted < MaxTokens /\ Put(minted + 1, round[r].sess)
      BY <2>5 DEF Commit
    <3>2. round[r].sess \in Sessions
      BY <3>1, RoundTypes DEF IInv, Busy
    <3>3. minted + 1 \in Tokens /\ minted + 1 \notin Stored
      BY <3>1, EapSessionAssumption DEF IInv, TypeOK, AllKnown, Tokens
    <3>4. \/ entries[t].at <= now
          \/ /\ Cardinality(Stored) >= Capacity
             /\ \A v \in Stored \cap Stored' : entries[t].at <= entries[v].at
      BY <3>1, <3>2, <3>3, PutTable DEF IInv
    <3>5. now \in Nat
      BY EapSessionAssumption DEF IInv, TypeOK
    <3> QED
      BY <2>3, <3>4, <3>5
  <2> QED
    BY <2>2, <2>4, <2>5
<1> QED
  BY <1>1, Invariance, PTL DEF Spec, OnlyEarliestEvicted

-----------------------------------------------------------------------------
(* The framing of TLS in EAP.                                             *)

Byte == 0 .. 255

\* The tunnel is as far in a message as the Fragmenter.
PipeTypes ==
    /\ mtu \in Mtus
    /\ frag # None => /\ frag \in [bytes : Messages, offset : Nat, mtu : Mtus, extra : {0}, emitted : BOOLEAN]
                      /\ frag.mtu = mtu
                      /\ IF frag.emitted THEN 0 < frag.offset /\ frag.offset < Len(frag.bytes)
                         ELSE frag.offset = 0
                      /\ tx = [bytes |-> frag.bytes, offset |-> frag.offset]
    /\ rx \in [buf : Seq(Byte), expected : Nat \cup {None}, single : BOOLEAN]

\* Between honest ends the receiver has exactly what the sender has cut off.
PipeHonest ==
    honest => /\ ~ended /\ got = sent
              /\ IF frag # None /\ frag.emitted
                 THEN rx.buf = SubSeq(frag.bytes, 1, frag.offset) /\ rx.expected = Len(frag.bytes)
                 ELSE rx.buf = <<>> /\ rx.expected = None

PipeInv == PipeTypes /\ PipeHonest /\ Pipe!BufferBounded /\ Pipe!NothingLeaks

\* An octet in front of a sequence, and a sequence in front of another.
LEMMA Headed ==
    ASSUME NEW S, NEW b \in S, NEW s \in Seq(S)
    PROVE  LET t == <<b>> \o s
           IN t \in Seq(S) /\ t # <<>> /\ t[1] = b /\ Tail(t) = s
<1> DEFINE t == <<b>> \o s
<1>0. Len(s) \in Nat
  BY LenProperties
<1>1. <<b>> \in Seq(S) /\ Len(<<b>>) = 1 /\ <<b>>[1] = b
  OBVIOUS
<1>2. /\ t \in Seq(S) /\ Len(t) = 1 + Len(s)
      /\ \A i \in 1 .. 1 + Len(s) : t[i] = IF i <= 1 THEN <<b>>[i] ELSE s[i - 1]
  BY <1>1, ConcatProperties
<1> HIDE DEF t
<1>3. t # <<>> /\ t[1] = b
  BY <1>0, <1>1, <1>2
<1>4. Tail(t) \in Seq(S) /\ Len(Tail(t)) = Len(s) /\ \A i \in 1 .. Len(s) : Tail(t)[i] = t[i + 1]
  BY <1>0, <1>2, <1>3, HeadTailProperties
<1>5. \A i \in 1 .. Len(s) : Tail(t)[i] = s[i]
  BY <1>0, <1>2, <1>4
<1>6. Tail(t) = s
  BY <1>4, <1>5, SeqEqual
<1> QED
  BY <1>2, <1>3, <1>6 DEF t

LEMMA Dropped ==
    ASSUME NEW S, NEW h \in Seq(S), NEW s \in Seq(S)
    PROVE  Pipe!Drop(h \o s, Len(h)) = s
<1> DEFINE t == h \o s
           k == Len(h)
           n == Len(s)
           d == SubSeq(t, k + 1, Len(t))
<1>1. k \in Nat /\ n \in Nat
  BY LenProperties
<1>2. /\ t \in Seq(S) /\ Len(t) = k + n
      /\ \A i \in 1 .. k + n : t[i] = IF i <= k THEN h[i] ELSE s[i - k]
  BY ConcatProperties
<1> HIDE DEF t, k, n
<1>3. \A i \in k + 1 .. k + n : t[i] \in S
  BY <1>1, <1>2, ElementOfSeq
<1>4. /\ SubSeq(t, k + 1, k + n) \in Seq(S)
      /\ Len(SubSeq(t, k + 1, k + n)) = IF k + 1 <= k + n THEN (k + n) - (k + 1) + 1 ELSE 0
      /\ \A i \in 1 .. (k + n) - (k + 1) + 1 : SubSeq(t, k + 1, k + n)[i] = t[(k + 1) + i - 1]
  <2>1. k + 1 \in Int /\ k + n \in Int
    BY <1>1
  <2> QED
    BY <1>3, <2>1, SubSeqProperties
<1>5. d \in Seq(S) /\ Len(d) = n
  BY <1>1, <1>2, <1>4
<1>6. ASSUME NEW i \in 1 .. n PROVE d[i] = s[i]
  <2>1. i \in 1 .. (k + n) - (k + 1) + 1 /\ (k + 1) + i - 1 = k + i /\ k + i \in 1 .. k + n
    BY <1>1
  <2>2. d[i] = t[k + i]
    BY <1>2, <1>4, <2>1
  <2> QED
    BY <1>1, <1>2, <2>1, <2>2
<1> HIDE DEF d
<1>7. d = s
  BY <1>5, <1>6, SeqEqual DEF n
<1> QED
  BY <1>7 DEF Pipe!Drop, d, t, k

\* A length of four octets is read as it was written.
LEMMA BigEndian ==
    ASSUME NEW n \in Nat, n \div 65536 < 65536
    PROVE  /\ Pipe!ToBE32(n) \in Seq(Byte) /\ Len(Pipe!ToBE32(n)) = 4
           /\ Pipe!FromBE32(Pipe!ToBE32(n)) = n
<1> DEFINE a == n \div 16777216
           b == n \div 65536
           c == n \div 256
<1>1. a \in Nat /\ b \in Nat /\ c \in Nat
  OBVIOUS
<1>2. n = 256 * c + (n % 256) /\ n % 256 \in Byte
  BY DEF Byte
<1>3. c = 256 * b + (c % 256) /\ c % 256 \in Byte
  BY DEF Byte
<1>4. b = 256 * a + (b % 256) /\ b % 256 \in Byte
  BY DEF Byte
<1>5. a % 256 = a /\ a % 256 \in Byte
  BY DEF Byte
<1>6. Pipe!ToBE32(n) = <<a % 256, b % 256, c % 256, n % 256>>
  BY DEF Pipe!ToBE32
<1> HIDE DEF a, b, c
<1>7. ((a * 256 + (b % 256)) * 256 + (c % 256)) * 256 + (n % 256) = n
  BY <1>1, <1>2, <1>3, <1>4 DEF Byte
<1> DEFINE d == a % 256
           e == b % 256
           g == c % 256
           h == n % 256
<1> HIDE DEF d, e, g, h
<1>8. d \in Byte /\ e \in Byte /\ g \in Byte /\ h \in Byte /\ Pipe!ToBE32(n) = <<d, e, g, h>>
  BY <1>2, <1>3, <1>4, <1>5, <1>6 DEF d, e, g, h
<1>9. ((d * 256 + e) * 256 + g) * 256 + h = n
  BY <1>5, <1>7 DEF d, e, g, h
<1> QED
  BY <1>8, <1>9 DEF Pipe!FromBE32

LEMMA Flags ==
    ASSUME NEW x \in {0, 64}
    PROVE  /\ Pipe!ClearBit(x, Pipe!LBit) = x /\ Pipe!SetBit(x, Pipe!LBit) = x + 128
           /\ ~Pipe!HasBit(x, Pipe!LBit) /\ Pipe!HasBit(x + 128, Pipe!LBit)
           /\ Pipe!HasBit(x, Pipe!MBit) <=> x = 64
           /\ Pipe!HasBit(x + 128, Pipe!MBit) <=> x = 64
           /\ Pipe!SetBit(0, Pipe!MBit) = 64 /\ x \in Byte /\ x + 128 \in Byte
BY DEF Pipe!ClearBit, Pipe!SetBit, Pipe!HasBit, Pipe!LBit, Pipe!MBit, Byte

\* Frame::parse reads what framing::encode wrote.
LEMMA FrameThrough ==
    ASSUME Pipe!FramePipeAssumption, NEW x \in {0, 64}, NEW total \in (0 .. MaxTotal) \cup {None},
           NEW payload \in Seq(Byte)
    PROVE  LET td == Pipe!Encode(x, total, payload)
               f == Pipe!Parse(td)
           IN /\ td \in Seq(Byte) /\ td # <<>> /\ f # Pipe!Malformed
              /\ f.total = total /\ f.payload = payload
              /\ Pipe!HasBit(f.flags, Pipe!LBit) <=> total # None
              /\ Pipe!HasBit(f.flags, Pipe!MBit) <=> x = 64
<1> DEFINE td == Pipe!Encode(x, total, payload)
           f == Pipe!Parse(td)
<1>0. \A y : y \in Byte => y # None
  BY DEF Byte, Pipe!FramePipeAssumption
<1>1. CASE total = None
  <2>1. td = <<x>> \o payload
    <3>1. td = (<<x>> \o <<>>) \o payload
      BY <1>1, Flags DEF Pipe!Encode
    <3>2. <<x>> \o <<>> = <<x>>
      BY Flags, ConcatEmptySeq
    <3> QED
      BY <3>1, <3>2
  <2> HIDE DEF td
  <2>2. td \in Seq(Byte) /\ td # <<>> /\ td[1] = x /\ Tail(td) = payload
    BY <2>1, Flags, Headed
  <2>3. f = [flags |-> x, total |-> None, payload |-> payload]
    BY <2>2, Flags DEF Pipe!Parse
  <2>4. x # None
    BY <1>0, Flags
  <2> QED
    BY <1>1, <2>2, <2>3, <2>4, Flags DEF Pipe!Malformed, td
<1>2. CASE total # None
  <2> DEFINE w == Pipe!ToBE32(total)
             rest == w \o payload
  <2>1. total \in Nat /\ total \div 65536 < 65536
    BY <1>2 DEF Pipe!FramePipeAssumption
  <2>2. w \in Seq(Byte) /\ Len(w) = 4 /\ Pipe!FromBE32(w) = total
    BY <2>1, BigEndian
  <2> HIDE DEF w
  <2>3. x + 128 \in Byte /\ <<x + 128>> \in Seq(Byte)
    BY Flags
  <2>4. td = <<x + 128>> \o rest
    <3>1. td = (<<x + 128>> \o w) \o payload
      BY <1>2, Flags DEF Pipe!Encode, w
    <3> QED
      BY <2>2, <2>3, <3>1, ConcatAssociative
  <2>5. /\ rest \in Seq(Byte) /\ Len(rest) = 4 + Len(payload) /\ Len(payload) \in Nat
        /\ \A i \in 1 .. 4 : rest[i] = w[i]
    <3>0. Len(payload) \in Nat /\ w \in Seq(Byte)
      BY <2>2, LenProperties
    <3>1. /\ rest \in Seq(Byte) /\ Len(rest) = Len(w) + Len(payload)
          /\ \A i \in 1 .. Len(w) + Len(payload) : rest[i] = IF i <= Len(w) THEN w[i] ELSE payload[i - Len(w)]
      BY <3>0, ConcatProperties
    <3> HIDE DEF rest
    <3> QED
      BY <2>2, <3>0, <3>1
  <2>6. Pipe!Drop(rest, 4) = payload
    BY <2>2, Dropped
  <2> HIDE DEF td, rest
  <2>7. td \in Seq(Byte) /\ td # <<>> /\ td[1] = x + 128 /\ Tail(td) = rest
    BY <2>3, <2>4, <2>5, Headed
  <2>8. Pipe!FromBE32(rest) = total
    BY <2>2, <2>5 DEF Pipe!FromBE32
  <2>9. f = [flags |-> x + 128, total |-> total, payload |-> payload]
    <3>1. ~(Len(rest) < 4) /\ Pipe!HasBit(x + 128, Pipe!LBit)
      BY <2>5, Flags
    <3> QED
      BY <2>6, <2>7, <2>8, <3>1, Zenon DEF Pipe!Parse
  <2>10. x + 128 # None
    BY <1>0, Flags
  <2> QED
    BY <1>2, <2>7, <2>9, <2>10, Flags DEF Pipe!Malformed, td
<1> QED
  BY <1>1, <1>2
LEMMA ParseType ==
    ASSUME NEW td \in Seq(Byte), td # <<>>, Pipe!Parse(td) # Pipe!Malformed
    PROVE  LET f == Pipe!Parse(td)
           IN f.payload \in Seq(Byte) /\ (Pipe!HasBit(f.flags, Pipe!LBit) => f.total \in Nat)
<1> DEFINE rest == Tail(td)
<1>1. rest \in Seq(Byte) /\ Len(rest) \in Nat
  BY HeadTailProperties, LenProperties
<1> HIDE DEF rest
<1>2. CASE ~Pipe!HasBit(td[1], Pipe!LBit)
  <2>1. Pipe!Parse(td) = [flags |-> td[1], total |-> None, payload |-> rest]
    BY <1>2 DEF Pipe!Parse, rest
  <2> QED
    BY <1>1, <1>2, <2>1
<1>3. CASE Pipe!HasBit(td[1], Pipe!LBit) /\ ~(Len(rest) < 4)
  <2>1. Pipe!Parse(td) = [flags |-> td[1], total |-> Pipe!FromBE32(rest), payload |-> Pipe!Drop(rest, 4)]
    BY <1>3, Zenon DEF Pipe!Parse, rest
  <2>2. Pipe!FromBE32(rest) \in Nat
    <3>0. rest[1] \in Byte /\ rest[2] \in Byte /\ rest[3] \in Byte /\ rest[4] \in Byte
      BY <1>1, <1>3, ElementOfSeq
    <3>1. rest[1] \in Nat /\ rest[2] \in Nat /\ rest[3] \in Nat /\ rest[4] \in Nat
      <4>1. \A y \in Byte : y \in Nat
        BY DEF Byte
      <4> QED
        BY <3>0, <4>1
    <3> DEFINE a == rest[1]
               b == rest[2]
               c == rest[3]
               d == rest[4]
    <3> HIDE DEF a, b, c, d
    <3>2. ((a * 256 + b) * 256 + c) * 256 + d \in Nat
      <4>1. a \in Nat /\ b \in Nat /\ c \in Nat /\ d \in Nat
        BY <3>1 DEF a, b, c, d
      <4> QED
        BY <4>1
    <3> QED
      BY <3>2 DEF Pipe!FromBE32, a, b, c, d
  <2>3. Pipe!Drop(rest, 4) \in Seq(Byte)
    <3>1. \A i \in 4 + 1 .. Len(rest) : rest[i] \in Byte
      BY <1>1, ElementOfSeq
    <3>2. 4 + 1 \in Int /\ Len(rest) \in Int
      BY <1>1
    <3> QED
      BY <3>1, <3>2, SubSeqProperties DEF Pipe!Drop
  <2> QED
    BY <2>1, <2>2, <2>3
<1>4. CASE Pipe!HasBit(td[1], Pipe!LBit) /\ Len(rest) < 4
  <2>1. Pipe!Parse(td) = Pipe!Malformed
    BY <1>4, Zenon DEF Pipe!Parse, rest
  <2> QED
    BY <2>1
<1> QED
  BY <1>2, <1>3, <1>4

\* What is held after a frame that the Reassembler accepts: within the limit,
\* and, unless the message is complete, short of the length that was declared.
LEMMA PushBounded ==
    ASSUME Pipe!FramePipeAssumption, Pipe!BufferBounded,
           rx \in [buf : Seq(Byte), expected : Nat \cup {None}, single : BOOLEAN],
           NEW f, f.payload \in Seq(Byte), Pipe!HasBit(f.flags, Pipe!LBit) => f.total \in Nat,
           ~Pipe!Refuses(rx, f)
    PROVE  LET q == Pipe!Push(rx, f)
           IN /\ q \in [buf : Seq(Byte), expected : Nat \cup {None}, single : BOOLEAN]
              /\ q.buf = rx.buf \o f.payload /\ Len(q.buf) <= MaxTotal
              /\ ~Pipe!IsComplete(q) => /\ q.expected # None => Len(q.buf) < q.expected
                                        /\ q.expected = None => q.buf = <<>>
<1> DEFINE lbit == Pipe!HasBit(f.flags, Pipe!LBit)
           mbit == Pipe!HasBit(f.flags, Pipe!MBit)
           expected == IF lbit THEN f.total ELSE rx.expected
           buf == rx.buf \o f.payload
           q == Pipe!Push(rx, f)
<1>0. None \notin Nat /\ MaxTotal \in Nat
  BY DEF Pipe!FramePipeAssumption
<1>1. /\ buf \in Seq(Byte) /\ Len(buf) = Len(rx.buf) + Len(f.payload)
      /\ Len(rx.buf) \in Nat /\ Len(f.payload) \in Nat
  <2>1. rx.buf \in Seq(Byte)
    OBVIOUS
  <2>2. Len(rx.buf) \in Nat /\ Len(f.payload) \in Nat
    BY <2>1, LenProperties
  <2> QED
    BY <2>1, <2>2, ConcatProperties
<1>2. /\ ~(lbit /\ (rx.expected # None \/ rx.buf # <<>>))
      /\ ~(~lbit /\ mbit /\ ~(rx.expected # None \/ rx.buf # <<>>))
      /\ ~Pipe!Overflows(rx, expected, f)
  BY DEF Pipe!Refuses
<1>3. q = [buf |-> buf, expected |-> expected, single |-> rx.single \/ (expected = None /\ ~mbit)]
  BY DEF Pipe!Push
<1>4. expected \in Nat \cup {None}
  OBVIOUS
<1> HIDE DEF expected, buf, q
<1>5. q.buf = buf /\ q.expected = expected
  BY <1>3
<1>6. q \in [buf : Seq(Byte), expected : Nat \cup {None}, single : BOOLEAN]
  <2>1. (rx.single \/ (expected = None /\ ~mbit)) \in BOOLEAN
    BY Zenon
  <2> HIDE DEF mbit
  <2> QED
    BY <1>1, <1>3, <1>4, <2>1
<1>7. CASE expected # None
  <2>1. expected <= MaxTotal /\ Len(buf) <= expected /\ expected \in Nat
    BY <1>0, <1>1, <1>2, <1>4, <1>7 DEF Pipe!Overflows
  <2>2. ~Pipe!IsComplete(q) => Len(buf) < expected
    BY <1>1, <1>5, <1>7, <2>1 DEF Pipe!IsComplete
  <2> QED
    BY <1>0, <1>1, <1>5, <1>6, <1>7, <2>1, <2>2 DEF q, buf
<1>8. CASE expected = None
  <2>1. ~lbit /\ rx.expected = None /\ rx.buf = <<>>
    BY <1>0, <1>8 DEF expected, Pipe!BufferBounded
  <2>2. ~mbit
    BY <1>2, <2>1
  <2>3. Len(f.payload) <= MaxTotal /\ Len(buf) = Len(f.payload)
    <3>1. Len(rx.buf) = 0
      BY <2>1, EmptySeq
    <3> QED
      BY <1>0, <1>1, <1>2, <1>8, <3>1 DEF Pipe!Overflows
  <2>4. q.single = TRUE
    BY <1>3, <1>8, <2>2
  <2>5. ~Pipe!IsComplete(q) => q.buf = <<>>
    BY <1>5, <1>8, <2>4 DEF Pipe!IsComplete
  <2> QED
    BY <1>5, <1>6, <1>8, <2>3, <2>5 DEF q, buf
<1> QED
  BY <1>7, <1>8

\* Whatever arrives, the buffer stays within its bounds, and is what arrived
\* since the last delivery.
LEMMA Received ==
    ASSUME Pipe!FramePipeAssumption, PipeInv, NEW td \in Seq(Byte), Pipe!Receive(td)
    PROVE  /\ rx' \in [buf : Seq(Byte), expected : Nat \cup {None}, single : BOOLEAN]
           /\ Pipe!BufferBounded' /\ Pipe!NothingLeaks'
<1> DEFINE f == Pipe!Parse(td)
           q == Pipe!Push(rx, f)
           in == Pipe!Ingest(rx, td)
           Held == [buf : Seq(Byte), expected : Nat \cup {None}, single : BOOLEAN]
<1>0. /\ None \notin Nat /\ None \notin Seq(Byte) /\ MaxTotal \in Nat
      /\ rx \in Held /\ since = rx.buf /\ Pipe!BufferBounded
  BY DEF Pipe!FramePipeAssumption, PipeInv, PipeTypes, Pipe!NothingLeaks, Byte
<1>1. /\ rx' = in.r
      /\ since' = IF in.err THEN since ELSE IF in.msg # None THEN <<>> ELSE since \o f.payload
  BY DEF Pipe!Receive
<1>2. CASE td = <<>>
  <2>1. in = [r |-> rx, msg |-> None, err |-> FALSE] /\ f.payload = <<>>
    BY <1>2 DEF Pipe!Ingest, Pipe!Parse, Pipe!Malformed
  <2>2. rx' = rx /\ since' = since \o <<>>
    BY <1>1, <2>1
  <2>3. since' = since
    BY <1>0, <2>2, ConcatEmptySeq
  <2> QED
    BY <1>0, <2>2, <2>3 DEF Pipe!BufferBounded, Pipe!NothingLeaks
<1>3. CASE td # <<>> /\ (f = Pipe!Malformed \/ Pipe!Refuses(rx, f))
  <2>1. in = [r |-> rx, msg |-> None, err |-> TRUE]
    BY <1>3, Zenon DEF Pipe!Ingest
  <2>2. rx' = rx /\ since' = since
    BY <1>1, <2>1
  <2> QED
    BY <1>0, <2>2 DEF Pipe!BufferBounded, Pipe!NothingLeaks
<1>4. CASE td # <<>> /\ ~(f = Pipe!Malformed \/ Pipe!Refuses(rx, f))
  <2>1. f.payload \in Seq(Byte) /\ (Pipe!HasBit(f.flags, Pipe!LBit) => f.total \in Nat)
    BY <1>4, ParseType
  <2>2. /\ q \in Held /\ q.buf = rx.buf \o f.payload /\ Len(q.buf) <= MaxTotal
        /\ ~Pipe!IsComplete(q) => /\ q.expected # None => Len(q.buf) < q.expected
                                  /\ q.expected = None => q.buf = <<>>
    BY <1>0, <1>4, <2>1, PushBounded
  <2>3. CASE Pipe!IsComplete(q)
    <3>1. in = [r |-> Pipe!NewReassembler, msg |-> q.buf, err |-> FALSE]
      BY <1>4, <2>3, Zenon DEF Pipe!Ingest
    <3>2. q.buf # None
      BY <1>0, <2>2
    <3>3. rx' = Pipe!NewReassembler /\ since' = <<>>
      BY <1>1, <3>1, <3>2
    <3>4. rx' \in Held /\ rx'.buf = <<>> /\ rx'.expected = None /\ Len(<<>>) = 0
      BY <3>3, EmptySeq DEF Pipe!NewReassembler
    <3> QED
      BY <1>0, <3>3, <3>4 DEF Pipe!BufferBounded, Pipe!NothingLeaks
  <2>4. CASE ~Pipe!IsComplete(q)
    <3>1. in = [r |-> q, msg |-> None, err |-> FALSE]
      BY <1>4, <2>4, Zenon DEF Pipe!Ingest
    <3>2. rx' = q /\ since' = since \o f.payload
      BY <1>1, <3>1
    <3> QED
      BY <1>0, <2>2, <2>4, <3>2 DEF Pipe!BufferBounded, Pipe!NothingLeaks
  <2> QED
    BY <2>3, <2>4
<1> QED
  BY <1>2, <1>3, <1>4
\* The fragment that goes out, and what is left of the message.
LEMMA FragmentIs ==
    ASSUME Pipe!FramePipeAssumption, PipeTypes, frag # None
    PROVE  LET n == Len(frag.bytes)
               take == Pipe!AtMost(n - frag.offset, mtu)
               x == IF frag.offset + take < n THEN 64 ELSE 0
               total == IF ~frag.emitted /\ n > mtu THEN n ELSE None
               payload == SubSeq(frag.bytes, frag.offset + 1, frag.offset + take)
           IN /\ frag.bytes \in Seq(Byte) /\ n \in Nat /\ n <= MaxTotal
              /\ mtu \in Nat \ {0} /\ frag.offset \in 0 .. n
              /\ take \in Nat /\ frag.offset + take <= n /\ take <= mtu
              /\ frag.offset + take < n => take = mtu
              /\ n <= mtu /\ frag.offset = 0 => take = n
              /\ x \in {0, 64} /\ total \in (0 .. MaxTotal) \cup {None}
              /\ payload \in Seq(Byte) /\ Len(payload) = take
              /\ Pipe!NextFragment(frag) = Pipe!Encode(x, total, payload)
              /\ Pipe!EmitFrame(tx, mtu) = Pipe!Encode(x, total, payload)
              /\ Pipe!Advance(frag) = [frag EXCEPT !.offset = frag.offset + take, !.emitted = TRUE]
<1> DEFINE bytes == frag.bytes
           o == frag.offset
           n == Len(bytes)
           take == Pipe!AtMost(n - o, mtu)
           x == IF o + take < n THEN 64 ELSE 0
           total == IF ~frag.emitted /\ n > mtu THEN n ELSE None
           payload == SubSeq(bytes, o + 1, o + take)
<1>1. /\ bytes \in Messages /\ o \in Nat /\ frag.mtu = mtu /\ frag.extra = 0 /\ mtu \in Mtus
      /\ frag.emitted \in BOOLEAN
      /\ IF frag.emitted THEN 0 < o /\ o < n ELSE o = 0
      /\ tx = [bytes |-> bytes, offset |-> o]
  BY DEF PipeTypes
<1>2. /\ bytes \in Seq(Byte) /\ n <= MaxTotal /\ MaxTotal \in Nat /\ mtu \in Nat \ {0}
  BY <1>1 DEF Pipe!FramePipeAssumption, Byte
<1>3. n \in Nat /\ \A i \in 1 .. n : bytes[i] \in Byte
  BY <1>2, LenProperties, ElementOfSeq
<1> HIDE DEF n, bytes, o
<1>4. o \in 0 .. n
  BY <1>1, <1>3
<1>5. /\ take \in Nat /\ o + take <= n /\ take <= mtu
      /\ o + take < n => take = mtu
      /\ n <= mtu /\ o = 0 => take = n
  BY <1>2, <1>3, <1>4 DEF Pipe!AtMost
<1>6. total \in (0 .. MaxTotal) \cup {None} /\ x \in {0, 64}
  BY <1>2, <1>3
<1>7. Pipe!NextFragment(frag) = Pipe!Encode(x, total, payload)
  <2>1. (IF frag.emitted THEN 0 ELSE frag.extra) = 0
    BY <1>1
  <2>2. Pipe!SetBit(0, Pipe!MBit) = 64
    BY Flags
  <2> QED
    BY <1>1, <2>1, <2>2, Zenon DEF Pipe!NextFragment, n, bytes, o
<1>8. Pipe!EmitFrame(tx, mtu) = Pipe!Encode(x, total, payload)
  <2>1. tx.bytes = bytes /\ tx.offset = o /\ Pipe!MBit = 64
    BY <1>1 DEF Pipe!MBit
  <2>2. tx.offset = 0 <=> ~frag.emitted
    BY <1>1, <2>1
  <2> QED
    BY <2>1, <2>2 DEF Pipe!EmitFrame, n
<1>9. Pipe!Advance(frag) = [frag EXCEPT !.offset = o + take, !.emitted = TRUE]
  BY <1>1 DEF Pipe!Advance, n, bytes, o
<1> HIDE DEF take
<1>10. payload \in Seq(Byte) /\ Len(payload) = take
  <2>1. \A i \in o + 1 .. o + take : bytes[i] \in Byte
    BY <1>3, <1>4, <1>5
  <2>2. o + 1 \in Int /\ o + take \in Int
    BY <1>4, <1>5
  <2>3. payload \in Seq(Byte) /\ Len(payload) = IF o + 1 <= o + take THEN (o + take) - (o + 1) + 1 ELSE 0
    BY <2>1, <2>2, SubSeqProperties
  <2> HIDE DEF payload
  <2> QED
    BY <1>4, <1>5, <2>3
<1> QED
  BY <1>1, <1>2, <1>3, <1>4, <1>5, <1>6, <1>7, <1>8, <1>9, <1>10 DEF n, bytes, o, take

\* What an honest fragment does to the receiver that has the ones before it.
LEMMA Arrives ==
    ASSUME Pipe!FramePipeAssumption, PipeInv, honest, frag # None
    PROVE  LET n == Len(frag.bytes)
               to == frag.offset + Pipe!AtMost(n - frag.offset, mtu)
               in == Pipe!Ingest(rx, Pipe!NextFragment(frag))
           IN /\ ~in.err
              /\ to < n => in.msg = None /\ in.r.buf = SubSeq(frag.bytes, 1, to) /\ in.r.expected = n
              /\ ~(to < n) => /\ in.r.buf = <<>> /\ in.r.expected = None
                              /\ in.msg = IF frag.bytes = <<>> THEN None ELSE frag.bytes
<1> DEFINE bytes == frag.bytes
           o == frag.offset
           n == Len(bytes)
           take == Pipe!AtMost(n - o, mtu)
           to == o + take
           x == IF to < n THEN 64 ELSE 0
           total == IF ~frag.emitted /\ n > mtu THEN n ELSE None
           payload == SubSeq(bytes, o + 1, to)
           td == Pipe!NextFragment(frag)
           f == Pipe!Parse(td)
           q == Pipe!Push(rx, f)
           in == Pipe!Ingest(rx, td)
<1> SUFFICES /\ ~in.err
             /\ to < n => in.msg = None /\ in.r.buf = SubSeq(bytes, 1, to) /\ in.r.expected = n
             /\ ~(to < n) => /\ in.r.buf = <<>> /\ in.r.expected = None
                             /\ in.msg = IF bytes = <<>> THEN None ELSE bytes
  BY Zenon
<1>0. PipeTypes /\ None \notin Nat /\ None \notin Seq(Byte) /\ MaxTotal \in Nat
  BY DEF PipeInv, Pipe!FramePipeAssumption, Byte
<1>1. /\ bytes \in Seq(Byte) /\ n \in Nat /\ n <= MaxTotal
      /\ mtu \in Nat \ {0} /\ o \in 0 .. n
      /\ take \in Nat /\ to <= n /\ take <= mtu
      /\ to < n => take = mtu
      /\ n <= mtu /\ o = 0 => take = n
      /\ x \in {0, 64} /\ total \in (0 .. MaxTotal) \cup {None}
      /\ payload \in Seq(Byte) /\ Len(payload) = take
      /\ td = Pipe!Encode(x, total, payload)
  BY <1>0, FragmentIs
<1>2. /\ td # <<>> /\ f # Pipe!Malformed /\ f.total = total /\ f.payload = payload
      /\ Pipe!HasBit(f.flags, Pipe!LBit) <=> total # None
      /\ Pipe!HasBit(f.flags, Pipe!MBit) <=> to < n
  <2> HIDE DEF x, total, payload, td
  <2>1. /\ td # <<>> /\ f # Pipe!Malformed /\ f.total = total /\ f.payload = payload
        /\ Pipe!HasBit(f.flags, Pipe!LBit) <=> total # None
        /\ Pipe!HasBit(f.flags, Pipe!MBit) <=> x = 64
    <3>1. /\ x \in {0, 64} /\ total \in (0 .. MaxTotal) \cup {None} /\ payload \in Seq(Byte)
          /\ td = Pipe!Encode(x, total, payload)
      BY <1>1, Zenon
    <3>2. LET w == Pipe!Encode(x, total, payload)
              g == Pipe!Parse(w)
          IN /\ w # <<>> /\ g # Pipe!Malformed /\ g.total = total /\ g.payload = payload
             /\ Pipe!HasBit(g.flags, Pipe!LBit) <=> total # None
             /\ Pipe!HasBit(g.flags, Pipe!MBit) <=> x = 64
      BY <3>1, FrameThrough
    <3> QED
      BY <3>1, <3>2, Zenon
  <2> QED
    BY <2>1 DEF x
<1>3. /\ IF frag.emitted THEN rx.buf = SubSeq(bytes, 1, o) /\ rx.expected = n /\ 0 < o /\ o < n
         ELSE rx.buf = <<>> /\ rx.expected = None /\ o = 0
      /\ rx.buf \in Seq(Byte) /\ frag.emitted \in BOOLEAN
  BY DEF PipeInv, PipeHonest, PipeTypes
<1>4. /\ in = IF Pipe!Refuses(rx, f) THEN [r |-> rx, msg |-> None, err |-> TRUE]
              ELSE IF Pipe!IsComplete(q) THEN [r |-> Pipe!NewReassembler, msg |-> q.buf, err |-> FALSE]
              ELSE [r |-> q, msg |-> None, err |-> FALSE]
  <2> HIDE DEF td
  <2> QED
    BY <1>2, Zenon DEF Pipe!Ingest
<1> HIDE DEF bytes, o, n, take, td, f, in
<1>5. /\ q.buf = rx.buf \o payload
      /\ q.expected = IF total # None THEN total ELSE rx.expected
      /\ q.expected = None => q.single = (rx.single \/ ~(to < n))
  BY <1>2 DEF Pipe!Push
<1>6. SubSeq(bytes, 1, o) \o payload = SubSeq(bytes, 1, to)
  <2>1. 1 \in 1 .. Len(bytes) + 1 /\ o \in 1 - 1 .. Len(bytes) /\ to \in o .. Len(bytes)
    BY <1>1 DEF n
  <2> QED
    BY <1>1, <2>1, ConcatAdjacentSubSeq
<1>7. q.buf = SubSeq(bytes, 1, to) /\ Len(q.buf) = to /\ q.buf \in Seq(Byte)
  <2>1. o = 0 => SubSeq(bytes, 1, o) = <<>>
    BY SubSeqEmpty
  <2>2. q.buf = SubSeq(bytes, 1, to)
    BY <1>3, <1>5, <1>6, <2>1
  <2>3. \A i \in 1 .. to : bytes[i] \in Byte
    BY <1>1, ElementOfSeq DEF n
  <2>4. to \in Int /\ 1 \in Int /\ to \in Nat
    BY <1>1
  <2>5. SubSeq(bytes, 1, to) \in Seq(Byte) /\ Len(SubSeq(bytes, 1, to)) = IF 1 <= to THEN to - 1 + 1 ELSE 0
    BY <2>3, <2>4, SubSeqProperties
  <2> HIDE DEF to
  <2> QED
    BY <2>2, <2>4, <2>5
<1>8. to = n => SubSeq(bytes, 1, to) = bytes
  BY <1>1, SubSeqFull DEF n
<1>9. bytes = <<>> <=> n = 0
  BY <1>1, EmptySeq DEF n
<1>10. Len(rx.buf) + Len(payload) = to /\ Len(payload) <= MaxTotal
  <2>1. Len(q.buf) = Len(rx.buf) + Len(payload)
    BY <1>1, <1>3, <1>5, ConcatProperties
  <2>2. take <= MaxTotal
    BY <1>0, <1>1
  <2> QED
    BY <1>1, <1>7, <2>1, <2>2
<1> HIDE DEF payload, q
\* A message of one frame.
<1>11. CASE ~frag.emitted /\ n <= mtu
  <2>1. total = None /\ to = n /\ o = 0 /\ rx.buf = <<>> /\ rx.expected = None
    BY <1>1, <1>3, <1>11
  <2> HIDE DEF total, to
  <2>2. ~Pipe!Refuses(rx, f)
    BY <1>0, <1>1, <1>2, <1>10, <2>1 DEF Pipe!Refuses, Pipe!Overflows
  <2>3. q.expected = None /\ q.single = TRUE
    <3>1. q.expected = None /\ ~(to < n)
      BY <1>1, <1>5, <2>1
    <3> QED
      BY <1>5, <3>1, Zenon
  <2>4. Pipe!IsComplete(q) <=> bytes # <<>>
    BY <1>7, <1>8, <2>1, <2>3 DEF Pipe!IsComplete
  <2>5. CASE bytes = <<>>
    <3>1. in = [r |-> q, msg |-> None, err |-> FALSE]
      BY <1>4, <2>2, <2>4, <2>5
    <3>2. q.buf = <<>> /\ ~(to < n)
      BY <1>1, <1>7, <1>8, <2>1, <2>5
    <3>3. ~in.err /\ in.msg = None /\ in.r.buf = <<>> /\ in.r.expected = None
      BY <2>3, <3>1, <3>2
    <3> QED
      BY <2>5, <3>2, <3>3
  <2>6. CASE bytes # <<>>
    <3>1. in = [r |-> Pipe!NewReassembler, msg |-> q.buf, err |-> FALSE]
      BY <1>4, <2>2, <2>4, <2>6
    <3> QED
      BY <1>1, <1>7, <1>8, <2>1, <2>6, <3>1 DEF Pipe!NewReassembler
  <2> QED
    BY <2>5, <2>6
\* The first of several frames.
<1>12. CASE ~frag.emitted /\ n > mtu
  <2>1. total = n /\ to = mtu /\ to < n /\ o = 0 /\ rx.buf = <<>> /\ rx.expected = None /\ total # None
    BY <1>0, <1>1, <1>3, <1>12
  <2> HIDE DEF total, to
  <2>2. ~Pipe!Refuses(rx, f)
    BY <1>0, <1>1, <1>2, <1>10, <2>1 DEF Pipe!Refuses, Pipe!Overflows
  <2>3. q.expected = n
    BY <1>5, <2>1
  <2>4. ~Pipe!IsComplete(q)
    BY <1>0, <1>1, <1>7, <2>1, <2>3 DEF Pipe!IsComplete
  <2>5. in = [r |-> q, msg |-> None, err |-> FALSE]
    BY <1>4, <2>2, <2>4
  <2> QED
    BY <1>7, <2>1, <2>3, <2>5
\* Another one.
<1>13. CASE frag.emitted
  <2>1. total = None /\ rx.expected = n /\ n # None /\ 0 < o /\ o < n
    BY <1>0, <1>1, <1>3, <1>13
  <2>2. to \in Nat /\ to <= n
    BY <1>1
  <2> HIDE DEF total, to
  <2>3. ~Pipe!Refuses(rx, f)
    BY <1>0, <1>1, <1>2, <1>10, <2>1, <2>2 DEF Pipe!Refuses, Pipe!Overflows
  <2>4. q.expected = n
    BY <1>5, <2>1
  <2>5. Pipe!IsComplete(q) <=> to = n
    BY <1>7, <2>1, <2>4 DEF Pipe!IsComplete
  <2>6. CASE to < n
    <3>1. in = [r |-> q, msg |-> None, err |-> FALSE]
      BY <1>1, <1>4, <2>2, <2>3, <2>5, <2>6
    <3> QED
      BY <1>7, <2>4, <2>6, <3>1
  <2>7. CASE ~(to < n)
    <3>1. to = n
      BY <1>1, <2>2, <2>7
    <3>2. in = [r |-> Pipe!NewReassembler, msg |-> q.buf, err |-> FALSE]
      BY <1>4, <2>3, <2>5, <3>1
    <3>3. bytes # <<>>
      BY <1>1, <1>9, <2>1
    <3> QED
      BY <1>7, <1>8, <2>7, <3>1, <3>2, <3>3 DEF Pipe!NewReassembler
  <2> QED
    BY <2>6, <2>7
<1> QED
  BY <1>1, <1>3, <1>11, <1>12, <1>13

\* A fragment leaves the Fragmenter and the tunnel at the same place.
LEMMA PipeSend ==
    ASSUME Pipe!FramePipeAssumption, PipeInv, Pipe!SendFragment
    PROVE  PipeInv'
<1> DEFINE bytes == frag.bytes
           o == frag.offset
           n == Len(bytes)
           take == Pipe!AtMost(n - o, mtu)
           to == o + take
           td == Pipe!NextFragment(frag)
           in == Pipe!Ingest(rx, td)
           rest == Pipe!Advance(frag)
<1>0. PipeTypes /\ PipeHonest
  BY DEF PipeInv
<1>1. /\ frag # None /\ ~ended /\ Pipe!Receive(td) /\ UNCHANGED <<mtu, honest>>
      /\ IF Pipe!Exhausted(rest)
         THEN /\ frag' = None /\ tx' = Pipe!NoTx
              /\ sent' = IF bytes = <<>> THEN sent ELSE Append(sent, bytes)
         ELSE frag' = rest /\ tx' = Pipe!AfterEmit(tx, mtu) /\ UNCHANGED sent
  BY DEF Pipe!SendFragment
<1>2. /\ bytes \in Seq(Byte) /\ n \in Nat /\ mtu \in Nat \ {0} /\ o \in 0 .. n
      /\ take \in Nat /\ to <= n
      /\ to < n => take = mtu
      /\ rest = [frag EXCEPT !.offset = to, !.emitted = TRUE]
  BY <1>0, <1>1, FragmentIs
<1>3. td \in Seq(Byte)
  <2> DEFINE x == IF to < n THEN 64 ELSE 0
             total == IF ~frag.emitted /\ n > mtu THEN n ELSE None
             payload == SubSeq(bytes, o + 1, to)
  <2>1. /\ x \in {0, 64} /\ total \in (0 .. MaxTotal) \cup {None} /\ payload \in Seq(Byte)
        /\ td = Pipe!Encode(x, total, payload)
    BY <1>0, <1>1, FragmentIs
  <2> HIDE DEF x, total, payload, td
  <2> QED
    BY <2>1, FrameThrough
<1>4. /\ rx' \in [buf : Seq(Byte), expected : Nat \cup {None}, single : BOOLEAN]
      /\ Pipe!BufferBounded' /\ Pipe!NothingLeaks'
  BY <1>1, <1>3, Received
<1>5. /\ rx' = in.r /\ ended' = in.err
      /\ got' = IF in.msg = None THEN got ELSE Append(got, in.msg)
  BY <1>1 DEF Pipe!Receive
<1>6. honest => /\ ~in.err
                /\ to < n => in.msg = None /\ in.r.buf = SubSeq(bytes, 1, to) /\ in.r.expected = n
                /\ ~(to < n) => /\ in.r.buf = <<>> /\ in.r.expected = None
                                /\ in.msg = IF bytes = <<>> THEN None ELSE bytes
  BY <1>1, Arrives
<1>7. /\ frag \in [bytes : Messages, offset : Nat, mtu : Mtus, extra : {0}, emitted : BOOLEAN]
      /\ frag.mtu = mtu /\ tx = [bytes |-> bytes, offset |-> o] /\ mtu \in Mtus
  BY <1>0, <1>1 DEF PipeTypes
<1>8. bytes # None
  BY <1>2 DEF Pipe!FramePipeAssumption, Byte
<1> HIDE DEF take, td, in, n
<1>9. to \in Nat
  BY <1>2
<1>10. /\ rest \in [bytes : Messages, offset : Nat, mtu : Mtus, extra : {0}, emitted : BOOLEAN]
       /\ rest.bytes = bytes /\ rest.offset = to /\ rest.emitted = TRUE /\ rest.mtu = mtu
  BY <1>2, <1>7, <1>9
<1>11. Pipe!Exhausted(rest) <=> ~(to < n)
  BY <1>2, <1>9, <1>10 DEF Pipe!Exhausted, n
<1> HIDE DEF rest
<1>12. CASE to < n
  <2>1. frag' = rest /\ tx' = Pipe!AfterEmit(tx, mtu) /\ sent' = sent /\ rest # None
    BY <1>1, <1>10, <1>11, <1>12 DEF Pipe!FramePipeAssumption
  <2>2. tx' = [bytes |-> bytes, offset |-> to]
    <3>1. tx.bytes = bytes /\ tx.offset = o
      BY <1>7
    <3>2. Pipe!AfterEmit(tx, mtu) = [tx EXCEPT !.offset = o + take]
      BY <1>12, <3>1 DEF Pipe!AfterEmit, n, take
    <3> QED
      BY <1>7, <2>1, <3>2
  <2>3. 0 < to
    BY <1>2, <1>12
  <2> HIDE DEF to, bytes
  <2>4. PipeTypes'
    <3>1. frag'.emitted = TRUE /\ 0 < frag'.offset /\ frag'.offset < Len(frag'.bytes)
      BY <1>10, <1>12, <2>1, <2>3 DEF n
    <3> QED
      BY <1>1, <1>4, <1>7, <1>10, <2>1, <2>2, <3>1 DEF PipeTypes
  <2>5. PipeHonest'
    <3>1. honest' = honest /\ (honest => got = sent)
      BY <1>0, <1>1 DEF PipeHonest
    <3>2. honest => /\ ~ended' /\ got' = sent'
                    /\ rx'.buf = SubSeq(frag'.bytes, 1, frag'.offset) /\ rx'.expected = Len(frag'.bytes)
      BY <1>5, <1>6, <1>10, <1>12, <2>1, <3>1 DEF n
    <3>3. frag' # None /\ frag'.emitted
      BY <1>10, <2>1
    <3> QED
      BY <3>1, <3>2, <3>3 DEF PipeHonest
  <2> QED
    BY <1>4, <2>4, <2>5 DEF PipeInv
<1>13. CASE ~(to < n)
  <2>1. frag' = None /\ sent' = IF bytes = <<>> THEN sent ELSE Append(sent, bytes)
    BY <1>1, <1>11, <1>13
  <2> HIDE DEF to, bytes
  <2>2. PipeTypes'
    BY <1>1, <1>4, <1>7, <2>1 DEF PipeTypes
  <2>3. PipeHonest'
    <3>1. honest' = honest /\ (honest => got = sent)
      BY <1>0, <1>1 DEF PipeHonest
    <3>2. honest => /\ ~ended' /\ got' = sent' /\ rx'.buf = <<>> /\ rx'.expected = None
      BY <1>5, <1>6, <1>8, <1>13, <2>1, <3>1
    <3> QED
      BY <2>1, <3>1, <3>2 DEF PipeHonest
  <2> QED
    BY <1>4, <2>2, <2>3 DEF PipeInv
<1> QED
  BY <1>12, <1>13

LEMMA PipeStep ==
    ASSUME Pipe!FramePipeAssumption, PipeInv, [Pipe!Next]_(Pipe!vars)
    PROVE  PipeInv'
<1>1. ASSUME NEW m \in Messages, Pipe!Begin(m)
      PROVE  PipeInv'
  <2> DEFINE g == Pipe!NewFragmenter(m, mtu, 0)
  <2>1. /\ frag = None /\ frag' = g /\ tx' = [bytes |-> m, offset |-> 0]
        /\ UNCHANGED <<mtu, rx, ended, honest, sent, got, since>>
    BY <1>1 DEF Pipe!Begin
  <2>2. /\ mtu \in Mtus /\ g.bytes = m /\ g.offset = 0 /\ g.mtu = mtu /\ g.emitted = FALSE
        /\ g \in [bytes : Messages, offset : Nat, mtu : Mtus, extra : {0}, emitted : BOOLEAN]
    BY DEF Pipe!NewFragmenter, PipeInv, PipeTypes
  <2> HIDE DEF g
  <2>3. PipeTypes'
    BY <2>1, <2>2 DEF PipeInv, PipeTypes
  <2>4. PipeHonest'
    BY <2>1, <2>2 DEF PipeInv, PipeHonest
  <2> QED
    BY <2>1, <2>3, <2>4 DEF PipeInv, Pipe!BufferBounded, Pipe!NothingLeaks
<1>2. CASE Pipe!SendFragment
  BY <1>2, PipeSend
<1>3. ASSUME NEW td \in Rogue, Pipe!SendRogue(td)
      PROVE  PipeInv'
  <2>1. Pipe!Receive(td) /\ honest' = FALSE /\ UNCHANGED <<mtu, frag, tx>> /\ td \in Seq(Byte)
    BY <1>3 DEF Pipe!SendRogue, Pipe!FramePipeAssumption, Byte
  <2>2. /\ rx' \in [buf : Seq(Byte), expected : Nat \cup {None}, single : BOOLEAN]
        /\ Pipe!BufferBounded' /\ Pipe!NothingLeaks'
    BY <2>1, Received
  <2> QED
    BY <2>1, <2>2 DEF PipeInv, PipeTypes, PipeHonest
<1>4. CASE UNCHANGED Pipe!vars
  BY <1>4 DEF Pipe!vars, PipeInv, PipeTypes, PipeHonest, Pipe!BufferBounded, Pipe!NothingLeaks
<1> QED
  BY <1>1, <1>2, <1>3, <1>4 DEF Pipe!Next

LEMMA PipeInitial == ASSUME Pipe!FramePipeAssumption, Pipe!Init PROVE PipeInv
<1>1. <<>> \in Seq(Byte) /\ Len(<<>>) = 0 /\ MaxTotal \in Nat
  BY EmptySeq DEF Pipe!FramePipeAssumption
<1> QED
  BY <1>1 DEF Pipe!Init, PipeInv, PipeTypes, PipeHonest, Pipe!BufferBounded, Pipe!NothingLeaks,
              Pipe!NewReassembler

\* For messages of any lengths, any frame_mtu and any limit: without rogue
\* frames nothing is refused and every message arrives whole, once and in
\* order (Fragmenter::next, Reassembler::push); the tunnel cuts as the
\* Fragmenter does; and whatever type-data a peer sends, the receiver never
\* holds more than its limit, nor anything of an earlier message.
THEOREM FramesExactHolds ==
    ASSUME Pipe!FramePipeAssumption
    PROVE  Pipe!Spec => [](/\ Pipe!RoundTrip /\ Pipe!TunnelCutsAlike
                           /\ Pipe!BufferBounded /\ Pipe!NothingLeaks)
<1>1. Pipe!Init => PipeInv
  BY PipeInitial
<1>2. PipeInv /\ [Pipe!Next]_(Pipe!vars) => PipeInv'
  BY PipeStep
<1>3. PipeInv => /\ Pipe!RoundTrip /\ Pipe!TunnelCutsAlike
                 /\ Pipe!BufferBounded /\ Pipe!NothingLeaks
  <2> SUFFICES ASSUME PipeInv PROVE Pipe!RoundTrip /\ Pipe!TunnelCutsAlike
    BY DEF PipeInv
  <2>1. Pipe!RoundTrip
    BY DEF PipeInv, PipeHonest, Pipe!RoundTrip
  <2>2. Pipe!TunnelCutsAlike
    BY FragmentIs DEF PipeInv, Pipe!TunnelCutsAlike
  <2> QED
    BY <2>1, <2>2
<1> QED
  BY <1>1, <1>2, <1>3, PTL DEF Pipe!Spec

-----------------------------------------------------------------------------
(* The methods that prove a password.                                      *)

\* Among the responses S is one that proves the secret of the user over the
\* challenge of conversation v.
Proven(v, user, S) ==
    /\ user \in DOMAIN Secrets
    /\ \E d \in S :
        IF v.kind = "MD5"
        THEN d.kind = "MD5" /\ d.body = Pw!Md5Response(1, Secrets[user], v.m.chal)
        ELSE d.kind = "MSCHAPv2" /\ d.body.nt.user = user
             /\ d.body.nt.chal = v.m.chal /\ d.body.nt.secret = Secrets[user]

\* What a conversation has sent, and what it has been shown, is what the state
\* of its method says; n challenges are drawn.
Md5Stands(v, n, S) ==
    /\ v.m \in [kind : {"MD5"}, state : {"AwaitingResponse"}, user : Users \cup {None},
                chal : 1 .. n, reqid : Nat]
    /\ v.sent = {1}
    /\ v.out = "running" => v.m.reqid = 1
    /\ v.out = "success" => Proven(v, v.m.user, S)

NativeStands(v, n, S) ==
    /\ v.m \in [kind : {"MSCHAPv2"}, user : Users \cup {None}, chal : 1 .. n, reqid : {None},
                state : {"AwaitingResponse", "AwaitingSuccessAck", "AwaitingFailureAck"}]
    /\ v.m.state = "AwaitingResponse" => v.sent = {1}
    /\ v.m.state = "AwaitingSuccessAck" => v.sent = {1, 3} /\ Proven(v, v.m.user, S)
    /\ v.m.state = "AwaitingFailureAck" => v.sent = {1, 4}
    /\ v.out = "success" => v.m.state = "AwaitingSuccessAck"

InnerStands(v, n, S) ==
    /\ v.m \in [user : Users \cup {None}, chal : (1 .. n) \cup {None}, id : Nat,
                authed : Users \cup {None},
                state : {"AwaitingIdentity", "AwaitingChallengeResponse",
                         "AwaitingSuccessAck", "AwaitingFailureAck"}]
    /\ v.m.state = "AwaitingIdentity" => v.sent = {} /\ v.m.chal = None
    /\ v.m.state # "AwaitingIdentity" => v.m.chal # None
    /\ v.m.state = "AwaitingChallengeResponse" => v.sent = {1}
    /\ v.m.state = "AwaitingSuccessAck" => v.sent = {1, 3} /\ Proven(v, v.m.authed, S)
    /\ v.m.state = "AwaitingFailureAck" => v.sent = {1, 4}
    /\ v.out = "success" => v.m.state = "AwaitingSuccessAck"

Stands(v, n, S) ==
    /\ v = [kind |-> v.kind, m |-> v.m, id |-> v.id, out |-> v.out, sent |-> v.sent]
    /\ v.id \in Nat
    /\ \/ v.kind = "unused" /\ v.sent = {} /\ v.out = "none"
       \/ v.kind = "MD5" /\ Md5Stands(v, n, S)
       \/ v.kind = "MSCHAPv2" /\ NativeStands(v, n, S)
       \/ v.kind = "inner" /\ InnerStands(v, n, S)

Drew(v) == 1 \in v.sent

PasswordInv ==
    /\ drawn \in Nat
    /\ DOMAIN conv = Talks
    /\ \A c \in Talks : Stands(conv[c], drawn, computed)
    /\ \A c, d \in Talks :
        c # d /\ Drew(conv[c]) /\ Drew(conv[d]) => conv[c].m.chal # conv[d].m.chal

LEMMA StandsOn ==
    ASSUME NEW v, NEW n \in Nat, NEW k \in Nat, n <= k, NEW S, NEW T, S \subseteq T, Stands(v, n, S)
    PROVE  Stands(v, k, T)
<1>1. 1 .. n \subseteq 1 .. k
  OBVIOUS
<1>2. \A u : Proven(v, u, S) => Proven(v, u, T)
  BY Zenon DEF Proven
<1>3. Md5Stands(v, n, S) => Md5Stands(v, k, T)
  BY <1>1, <1>2 DEF Md5Stands
<1>4. NativeStands(v, n, S) => NativeStands(v, k, T)
  BY <1>1, <1>2 DEF NativeStands
<1>5. InnerStands(v, n, S) => InnerStands(v, k, T)
  BY <1>1, <1>2 DEF InnerStands
<1> QED
  BY <1>3, <1>4, <1>5, Zenon DEF Stands

\* A conversation that has drawn a challenge has one of those drawn.
LEMMA DrewOne ==
    ASSUME NEW v, NEW n \in Nat, NEW S, Stands(v, n, S), Drew(v), None \notin Nat
    PROVE  v.m.chal \in 1 .. n
<1>1. CASE v.kind = "MD5" /\ Md5Stands(v, n, S)
  BY <1>1 DEF Md5Stands
<1>2. CASE v.kind = "MSCHAPv2" /\ NativeStands(v, n, S)
  BY <1>2 DEF NativeStands
<1>3. CASE v.kind = "inner" /\ InnerStands(v, n, S)
  BY <1>3 DEF InnerStands, Drew
<1> QED
  BY <1>1, <1>2, <1>3 DEF Stands, Drew

\* One conversation moves on, with its own challenge or the next one.
LEMMA OneMoves ==
    ASSUME PasswordInv, None \notin Nat, NEW c \in Talks, NEW w, conv' = [conv EXCEPT ![c] = w],
           UNCHANGED computed, drawn' \in {drawn, drawn + 1},
           Stands(w, drawn', computed),
           Drew(w) => \/ w.m.chal = drawn + 1
                      \/ Drew(conv[c]) /\ w.m.chal = conv[c].m.chal
    PROVE  PasswordInv'
<1>1. drawn \in Nat /\ drawn' \in Nat /\ drawn <= drawn'
  BY DEF PasswordInv
<1>2. DOMAIN conv' = Talks /\ conv'[c] = w /\ \A d \in Talks : d # c => conv'[d] = conv[d]
  BY DEF PasswordInv
<1>3. \A d \in Talks : Stands(conv'[d], drawn', computed')
  <2>1. \A d \in Talks : Stands(conv[d], drawn', computed)
    BY <1>1, StandsOn DEF PasswordInv
  <2> QED
    BY <1>2, <2>1, Zenon
<1>4. \A d \in Talks : d # c /\ Drew(conv[d]) /\ Drew(w) => conv[d].m.chal # w.m.chal
  <2> SUFFICES ASSUME NEW d \in Talks, d # c, Drew(conv[d]), Drew(w)
               PROVE  conv[d].m.chal # w.m.chal
    OBVIOUS
  <2>1. conv[d].m.chal \in 1 .. drawn
    BY <1>1, DrewOne DEF PasswordInv
  <2>2. CASE w.m.chal = drawn + 1
    BY <1>1, <2>1, <2>2
  <2>3. CASE Drew(conv[c]) /\ w.m.chal = conv[c].m.chal
    BY <2>3, Zenon DEF PasswordInv
  <2> QED
    BY <2>2, <2>3
<1>5. \A d, e \in Talks :
        d # e /\ Drew(conv'[d]) /\ Drew(conv'[e]) => conv'[d].m.chal # conv'[e].m.chal
  <2> SUFFICES ASSUME NEW d \in Talks, NEW e \in Talks, d # e, Drew(conv'[d]), Drew(conv'[e])
               PROVE  conv'[d].m.chal # conv'[e].m.chal
    OBVIOUS
  <2>1. CASE d = c
    BY <1>2, <1>4, <2>1, Zenon
  <2>2. CASE e = c
    BY <1>2, <1>4, <2>2, Zenon
  <2>3. CASE d # c /\ e # c
    BY <1>2, <2>3, Zenon DEF PasswordInv
  <2> QED
    BY <2>1, <2>2, <2>3
<1> QED
  BY <1>1, <1>2, <1>3, <1>5, Zenon DEF PasswordInv, Drew

\* The record that Sent leaves of a conversation.
After(v, r, id) ==
    [kind |-> v.kind, m |-> IF v.kind = "inner" THEN r.m ELSE Pw!NotifyRequestId(r.m, id),
     id |-> id, out |-> IF r.out.k = "continue" THEN "running" ELSE r.out.k,
     sent |-> v.sent \cup (IF r.out.k = "continue" THEN {r.out.msg.op} ELSE {})]

\* The body of a packet is one that somebody computed.
Seen(body, kind, S) == body # Garbled => \E d \in S : d.kind = kind /\ d.body = body

LEMMA Md5Goes ==
    ASSUME NEW v, NEW n \in Nat, NEW S, Stands(v, n, S), v.kind = "MD5", v.out = "running",
           NEW pkt, Seen(pkt.body, "MD5", S), NEW id \in Nat
    PROVE  LET w == After(v, Pw!Md5Step(v.m, pkt), id)
           IN Stands(w, n, S) /\ w.m.chal = v.m.chal
<1> DEFINE r == Pw!Md5Step(v.m, pkt)
           w == After(v, r, id)
<1>1. Md5Stands(v, n, S)
  BY DEF Stands
<1>2. r.m = v.m /\ r.out \in {Pw!Success, Pw!Failure, Pw!Error}
  BY DEF Pw!Md5Step, Pw!Result
<1>3. r.out.k # "continue"
  BY <1>2 DEF Pw!Success, Pw!Failure, Pw!Error
<1>4. r.out = Pw!Success => Proven(v, v.m.user, S)
  <2> SUFFICES ASSUME r.out = Pw!Success PROVE Proven(v, v.m.user, S)
    OBVIOUS
  <2>0. Pw!Success # Pw!Failure /\ Pw!Success # Pw!Error
    BY DEF Pw!Success, Pw!Failure, Pw!Error
  <2>1. /\ pkt.body # Garbled /\ Pw!SecretOf(v.m.user) # None
        /\ pkt.body = Pw!Md5Response(v.m.reqid, Pw!SecretOf(v.m.user), v.m.chal)
    BY <2>0 DEF Pw!Md5Step, Pw!Result
  <2>2. v.m.user \in DOMAIN Secrets /\ Pw!SecretOf(v.m.user) = Secrets[v.m.user]
    BY <2>1 DEF Pw!SecretOf
  <2>3. v.m.reqid = 1
    BY <1>1 DEF Md5Stands
  <2> QED
    BY <2>1, <2>2, <2>3 DEF Proven, Seen
<1>5. w.m = [v.m EXCEPT !.reqid = id]
  BY <1>1, <1>2 DEF After, Pw!NotifyRequestId, Md5Stands
<1>6. /\ w.kind = "MD5" /\ w.id = id /\ w.out = r.out.k /\ w.sent = v.sent
      /\ w = [kind |-> w.kind, m |-> w.m, id |-> w.id, out |-> w.out, sent |-> w.sent]
  BY <1>3 DEF After
<1>7. w.out \in {"success", "failure", "error"} /\ (w.out = "success" => r.out = Pw!Success)
  BY <1>2, <1>6 DEF Pw!Success, Pw!Failure, Pw!Error
<1> HIDE DEF w, r
<1>8. w.m.chal = v.m.chal /\ w.m.user = v.m.user
  BY <1>1, <1>5 DEF Md5Stands
<1>9. w.out = "success" => Proven(w, w.m.user, S)
  BY <1>4, <1>6, <1>7, <1>8 DEF Proven
<1>10. Md5Stands(w, n, S)
  BY <1>1, <1>5, <1>6, <1>7, <1>9 DEF Md5Stands
<1> QED
  BY <1>6, <1>8, <1>10 DEF Stands, w, r

LEMMA ProvesIt ==
    ASSUME NEW v, NEW S, NEW user, NEW body, v.kind # "MD5", Pw!Proves(user, v.m.chal, body),
           body # Garbled, Seen(body, "MSCHAPv2", S)
    PROVE  Proven(v, user, S)
<1>1. user \in DOMAIN Secrets /\ Pw!SecretOf(user) = Secrets[user]
  BY DEF Pw!Proves, Pw!SecretOf
<1>2. body.nt.user = user /\ body.nt.chal = v.m.chal /\ body.nt.secret = Secrets[user]
  BY <1>1 DEF Pw!Proves, Pw!NtResponse
<1> QED
  BY <1>1, <1>2, Zenon DEF Proven, Seen

\* The same challenge, and the same proofs for it.
LEMMA ProvenOn ==
    ASSUME NEW v, NEW w, NEW S, NEW user, Proven(v, user, S), w.kind = v.kind, w.m.chal = v.m.chal
    PROVE  Proven(w, user, S)
BY DEF Proven

LEMMA NativeGoes ==
    ASSUME NEW v, NEW n \in Nat, NEW S, Stands(v, n, S), v.kind = "MSCHAPv2",
           NEW pkt, pkt.op = 2 => Seen(pkt.body, "MSCHAPv2", S), NEW id \in Nat
    PROVE  LET w == After(v, Pw!NativeStep(v.m, pkt), id)
           IN Stands(w, n, S) /\ w.m.chal = v.m.chal
<1> DEFINE r == Pw!NativeStep(v.m, pkt)
           w == After(v, r, id)
           Goes(s) == [v.m EXCEPT !.state = s]
           Ended == {"success", "failure", "error"}
<1>1. NativeStands(v, n, S)
  BY DEF Stands
<1>2. \/ /\ r.m = v.m /\ r.out \in {Pw!Success, Pw!Failure, Pw!Error}
         /\ r.out = Pw!Success => v.m.state = "AwaitingSuccessAck"
      \/ /\ v.m.state = "AwaitingResponse" /\ r.m = Goes("AwaitingSuccessAck")
         /\ r.out = Pw!Continue([op |-> 3, chal |-> None])
         /\ pkt.op = 2 /\ pkt.body # Garbled /\ Pw!Proves(v.m.user, v.m.chal, pkt.body)
      \/ /\ v.m.state = "AwaitingResponse" /\ r.m = Goes("AwaitingFailureAck")
         /\ r.out = Pw!Continue([op |-> 4, chal |-> None])
  <2>0. Pw!Success # Pw!Failure /\ Pw!Success # Pw!Error
    BY DEF Pw!Success, Pw!Failure, Pw!Error
  <2> QED
    BY <2>0 DEF Pw!NativeStep, Pw!Result, Pw!OpResponse, Pw!OpSuccess, Pw!OpFailure
<1>3. /\ w.kind = "MSCHAPv2" /\ w.id = id
      /\ w = [kind |-> w.kind, m |-> w.m, id |-> w.id, out |-> w.out, sent |-> w.sent]
      /\ w.out = IF r.out.k = "continue" THEN "running" ELSE r.out.k
      /\ w.sent = v.sent \cup (IF r.out.k = "continue" THEN {r.out.msg.op} ELSE {})
  BY DEF After
<1>4. v.m.kind = "MSCHAPv2"
  BY <1>1 DEF NativeStands
<1>5. r.m.kind = "MSCHAPv2" => w.m = r.m
  BY DEF After, Pw!NotifyRequestId
<1> HIDE DEF r, w
<1>6. CASE /\ r.m = v.m /\ r.out \in {Pw!Success, Pw!Failure, Pw!Error}
           /\ r.out = Pw!Success => v.m.state = "AwaitingSuccessAck"
  <2>1. w.m = v.m
    BY <1>4, <1>5, <1>6
  <2>2. w.sent = v.sent /\ (w.out = "success" => v.m.state = "AwaitingSuccessAck")
    BY <1>3, <1>6 DEF Pw!Success, Pw!Failure, Pw!Error
  <2>3. Proven(v, v.m.user, S) => Proven(w, w.m.user, S)
    BY <1>3, <2>1, ProvenOn
  <2>4. NativeStands(w, n, S)
    BY <1>1, <2>1, <2>2, <2>3 DEF NativeStands
  <2> QED
    BY <1>3, <2>1, <2>4 DEF Stands, w, r
<1>7. CASE /\ v.m.state = "AwaitingResponse" /\ r.m = Goes("AwaitingSuccessAck")
           /\ r.out = Pw!Continue([op |-> 3, chal |-> None])
           /\ pkt.op = 2 /\ pkt.body # Garbled /\ Pw!Proves(v.m.user, v.m.chal, pkt.body)
  <2>1. w.m = Goes("AwaitingSuccessAck")
    BY <1>1, <1>5, <1>7 DEF NativeStands
  <2>2. /\ w.m \in [kind : {"MSCHAPv2"}, user : Users \cup {None}, chal : 1 .. n, reqid : {None},
                    state : {"AwaitingSuccessAck"}]
        /\ w.m.chal = v.m.chal /\ w.m.user = v.m.user
    BY <1>1, <2>1 DEF NativeStands
  <2>3. w.out = "running" /\ w.sent = v.sent \cup {3}
    BY <1>3, <1>7 DEF Pw!Continue
  <2>4. w.sent = {1, 3}
    BY <1>1, <1>7, <2>3 DEF NativeStands
  <2>5. Proven(v, v.m.user, S)
    BY <1>7, ProvesIt
  <2>6. Proven(w, w.m.user, S)
    BY <1>3, <2>2, <2>5, ProvenOn
  <2>7. NativeStands(w, n, S)
    BY <2>2, <2>3, <2>4, <2>6 DEF NativeStands
  <2> QED
    BY <1>3, <2>2, <2>7 DEF Stands, w, r
<1>8. CASE /\ v.m.state = "AwaitingResponse" /\ r.m = Goes("AwaitingFailureAck")
           /\ r.out = Pw!Continue([op |-> 4, chal |-> None])
  <2>1. w.m = Goes("AwaitingFailureAck")
    BY <1>1, <1>5, <1>8 DEF NativeStands
  <2>2. /\ w.m \in [kind : {"MSCHAPv2"}, user : Users \cup {None}, chal : 1 .. n, reqid : {None},
                    state : {"AwaitingFailureAck"}]
        /\ w.m.chal = v.m.chal
    BY <1>1, <2>1 DEF NativeStands
  <2>3. w.out = "running" /\ w.sent = v.sent \cup {4}
    BY <1>3, <1>8 DEF Pw!Continue
  <2>4. w.sent = {1, 4}
    BY <1>1, <1>8, <2>3 DEF NativeStands
  <2>5. NativeStands(w, n, S)
    BY <2>2, <2>3, <2>4 DEF NativeStands
  <2> QED
    BY <1>3, <2>2, <2>5 DEF Stands, w, r
<1> QED
  BY <1>2, <1>6, <1>7, <1>8

\* A packet for the inner method: an Identity names one of the users.
InnerPacket(pkt, S) ==
    pkt # Garbled => /\ pkt.typ = "Identity" => pkt.body \in Users
                     /\ pkt.typ # "Identity" => Seen(pkt.body, "MSCHAPv2", S) \/ pkt.op # 2

\* Steps of the inner method, field by field.
LEMMA InnerAsked ==
    ASSUME NEW U, NEW C, NEW I, NEW Q, NEW m \in [user : U, chal : C, id : I, authed : U, state : Q],
           NEW s, NEW u \in U, NEW k, NEW i \in I
    PROVE  [m EXCEPT !.state = s, !.user = u, !.chal = k, !.id = i]
                \in [user : U, chal : {k}, id : I, authed : U, state : {s}]
OBVIOUS

LEMMA InnerShown ==
    ASSUME NEW U, NEW C, NEW I, NEW Q, NEW m \in [user : U, chal : C, id : I, authed : U, state : Q],
           NEW s, NEW u, NEW i \in I
    PROVE  [m EXCEPT !.state = s, !.id = i, !.authed = u]
                \in [user : U, chal : {m.chal}, id : I, authed : {u}, state : {s}]
OBVIOUS

LEMMA InnerDenied ==
    ASSUME NEW U, NEW C, NEW I, NEW Q, NEW m \in [user : U, chal : C, id : I, authed : U, state : Q],
           NEW s, NEW i \in I
    PROVE  [m EXCEPT !.state = s, !.id = i]
                \in [user : U, chal : {m.chal}, id : I, authed : U, state : {s}]
OBVIOUS

\* The inner method draws the next challenge, or keeps its own.
LEMMA InnerGoes ==
    ASSUME NEW v, NEW n \in Nat, NEW S, Stands(v, n, S), v.kind = "inner",
           NEW pkt, InnerPacket(pkt, S), NEW id \in Nat, None \notin Nat, IdCount \in Nat \ {0}
    PROVE  LET r == Pw!InnerStep(v.m, pkt, n + 1)
               w == After(v, r, id)
           IN /\ w.m = r.m
              /\ \/ Stands(w, n, S) /\ w.m.chal = v.m.chal
                    /\ (Drew(w) => Drew(v))
                 \/ Stands(w, n + 1, S) /\ w.m.chal = n + 1 /\ v.m.chal # n + 1
<1> DEFINE r == Pw!InnerStep(v.m, pkt, n + 1)
           w == After(v, r, id)
           next == Pw!NextId(v.m.id)
<1>1. InnerStands(v, n, S)
  BY DEF Stands
<1>2. \/ /\ r.m = v.m /\ r.out \in {Pw!Success, Pw!Failure, Pw!Error}
         /\ r.out = Pw!Success => v.m.state = "AwaitingSuccessAck"
      \/ /\ v.m.state = "AwaitingIdentity" /\ pkt # Garbled /\ pkt.typ = "Identity"
         /\ r.m = [v.m EXCEPT !.state = "AwaitingChallengeResponse", !.user = pkt.body,
                              !.chal = n + 1, !.id = next]
         /\ r.out = Pw!Mschap(v.m, 1, n + 1)
      \/ /\ v.m.state = "AwaitingChallengeResponse"
         /\ r.m = [v.m EXCEPT !.state = "AwaitingSuccessAck", !.id = next, !.authed = v.m.user]
         /\ r.out = Pw!Mschap(v.m, 3, None)
         /\ pkt # Garbled /\ pkt.typ = "MSCHAPv2" /\ pkt.op = 2
         /\ pkt.body # Garbled /\ Pw!Proves(v.m.user, v.m.chal, pkt.body)
      \/ /\ v.m.state = "AwaitingChallengeResponse"
         /\ r.m = [v.m EXCEPT !.state = "AwaitingFailureAck", !.id = next]
         /\ r.out = Pw!Mschap(v.m, 4, None)
  <2>0. Pw!Success # Pw!Failure /\ Pw!Success # Pw!Error
    BY DEF Pw!Success, Pw!Failure, Pw!Error
  <2>1. CASE pkt = Garbled \/ pkt.code # "Response"
    <3>1. r = Pw!Result(v.m, Pw!Error)
      BY <2>1 DEF Pw!InnerStep
    <3> QED
      BY <2>0, <3>1 DEF Pw!Result
  <2>2. CASE ~(pkt = Garbled \/ pkt.code # "Response") /\ v.m.state = "AwaitingIdentity" /\ pkt.typ = "Identity"
    BY <2>2 DEF Pw!InnerStep, Pw!Result, Pw!OpChallenge
  <2>3. CASE ~(pkt = Garbled \/ pkt.code # "Response") /\ v.m.state = "AwaitingChallengeResponse" /\ pkt.typ = "MSCHAPv2"
    <3>1. r = Pw!InnerVerify(v.m, pkt)
      BY <2>3 DEF Pw!InnerStep
    <3> QED
      BY <2>0, <2>3, <3>1 DEF Pw!InnerVerify, Pw!Result, Pw!OpResponse, Pw!OpSuccess, Pw!OpFailure
  <2>4. CASE /\ ~(pkt = Garbled \/ pkt.code # "Response")
             /\ v.m.state \in {"AwaitingSuccessAck", "AwaitingFailureAck"} /\ pkt.typ = "MSCHAPv2"
    <3>1. r = Pw!InnerAck(v.m, pkt)
      BY <2>4 DEF Pw!InnerStep
    <3> QED
      BY <2>0, <2>4, <3>1 DEF Pw!InnerAck, Pw!Result
  <2>5. CASE /\ ~(pkt = Garbled \/ pkt.code # "Response")
             /\ ~(v.m.state = "AwaitingIdentity" /\ pkt.typ = "Identity")
             /\ ~(v.m.state = "AwaitingChallengeResponse" /\ pkt.typ = "MSCHAPv2")
             /\ ~(v.m.state \in {"AwaitingSuccessAck", "AwaitingFailureAck"} /\ pkt.typ = "MSCHAPv2")
    <3>1. r = Pw!Result(v.m, Pw!Error)
      BY <2>5 DEF Pw!InnerStep
    <3> QED
      BY <2>0, <3>1 DEF Pw!Result
  <2> QED
    BY <2>1, <2>2, <2>3, <2>4, <2>5, Zenon
<1>3. /\ w.kind = "inner" /\ w.id = id /\ w.m = r.m
      /\ w = [kind |-> w.kind, m |-> w.m, id |-> w.id, out |-> w.out, sent |-> w.sent]
      /\ w.out = IF r.out.k = "continue" THEN "running" ELSE r.out.k
      /\ w.sent = v.sent \cup (IF r.out.k = "continue" THEN {r.out.msg.op} ELSE {})
  BY DEF After
<1> DEFINE U == Users \cup {None}
           C == (1 .. n) \cup {None}
           Q == {"AwaitingIdentity", "AwaitingChallengeResponse",
                 "AwaitingSuccessAck", "AwaitingFailureAck"}
<1>4. v.m \in [user : U, chal : C, id : Nat, authed : U, state : Q] /\ next \in Nat
  BY <1>1 DEF Pw!NextId, InnerStands
<1> HIDE DEF r, w, next, U, C, Q
<1> SUFFICES \/ InnerStands(w, n, S) /\ w.m.chal = v.m.chal /\ (Drew(w) => Drew(v))
             \/ InnerStands(w, n + 1, S) /\ w.m.chal = n + 1 /\ v.m.chal # n + 1
  BY <1>3 DEF Stands, w, r
<1>5. CASE /\ r.m = v.m /\ r.out \in {Pw!Success, Pw!Failure, Pw!Error}
           /\ r.out = Pw!Success => v.m.state = "AwaitingSuccessAck"
  <2>1. w.m = v.m
    BY <1>3, <1>5
  <2>2. w.sent = v.sent /\ (w.out = "success" => v.m.state = "AwaitingSuccessAck")
    BY <1>3, <1>5 DEF Pw!Success, Pw!Failure, Pw!Error
  <2>3. Proven(v, v.m.authed, S) => Proven(w, w.m.authed, S)
    BY <1>3, <2>1, ProvenOn
  <2>4. InnerStands(w, n, S)
    BY <1>1, <2>1, <2>2, <2>3 DEF InnerStands
  <2> QED
    BY <2>1, <2>2, <2>4 DEF Drew
<1>6. CASE /\ v.m.state = "AwaitingIdentity" /\ pkt # Garbled /\ pkt.typ = "Identity"
           /\ r.m = [v.m EXCEPT !.state = "AwaitingChallengeResponse", !.user = pkt.body,
                                !.chal = n + 1, !.id = next]
           /\ r.out = Pw!Mschap(v.m, 1, n + 1)
  <2>1. pkt.body \in U
    BY <1>6 DEF InnerPacket, U
  <2>2. w.m \in [user : U, chal : {n + 1}, id : Nat, authed : U, state : {"AwaitingChallengeResponse"}]
    <3>1. [v.m EXCEPT !.state = "AwaitingChallengeResponse", !.user = pkt.body, !.chal = n + 1, !.id = next]
            \in [user : U, chal : {n + 1}, id : Nat, authed : U, state : {"AwaitingChallengeResponse"}]
      BY <1>4, <2>1, InnerAsked
    <3> QED
      BY <1>3, <1>6, <3>1, Zenon
  <2>3. w.out = "running" /\ w.sent = v.sent \cup {1}
    BY <1>3, <1>6 DEF Pw!Mschap, Pw!Continue
  <2>4. w.sent = {1} /\ v.m.chal = None
    BY <1>1, <1>6, <2>3 DEF InnerStands
  <2>5. n + 1 \in Nat /\ n + 1 \in 1 .. n + 1 /\ n + 1 # None
    OBVIOUS
  <2>6. InnerStands(w, n + 1, S)
    BY <2>2, <2>3, <2>4, <2>5 DEF InnerStands, U
  <2> QED
    BY <2>2, <2>4, <2>5, <2>6
<1>7. CASE /\ v.m.state = "AwaitingChallengeResponse"
           /\ r.m = [v.m EXCEPT !.state = "AwaitingSuccessAck", !.id = next, !.authed = v.m.user]
           /\ r.out = Pw!Mschap(v.m, 3, None)
           /\ pkt # Garbled /\ pkt.typ = "MSCHAPv2" /\ pkt.op = 2
           /\ pkt.body # Garbled /\ Pw!Proves(v.m.user, v.m.chal, pkt.body)
  <2>1. v.m.user \in U /\ v.m.chal \in C
    BY <1>4
  <2>0. w.m \in [user : U, chal : {v.m.chal}, id : Nat, authed : {v.m.user}, state : {"AwaitingSuccessAck"}]
    <3>1. [v.m EXCEPT !.state = "AwaitingSuccessAck", !.id = next, !.authed = v.m.user]
            \in [user : U, chal : {v.m.chal}, id : Nat, authed : {v.m.user}, state : {"AwaitingSuccessAck"}]
      BY <1>4, <2>1, InnerShown
    <3> QED
      BY <1>3, <1>7, <3>1, Zenon
  <2>2. w.out = "running" /\ w.sent = v.sent \cup {3}
    BY <1>3, <1>7 DEF Pw!Mschap, Pw!Continue
  <2>3. w.sent = {1, 3} /\ v.sent = {1} /\ w.m.chal # None
    BY <1>1, <1>7, <2>0, <2>2 DEF InnerStands
  <2>4. Seen(pkt.body, "MSCHAPv2", S)
    BY <1>7 DEF InnerPacket
  <2>5. Proven(v, v.m.user, S)
    BY <1>7, <2>4, ProvesIt
  <2>6. Proven(w, w.m.authed, S)
    BY <1>3, <2>0, <2>5, ProvenOn
  <2>7. InnerStands(w, n, S)
    BY <2>0, <2>1, <2>2, <2>3, <2>6 DEF InnerStands, U, C
  <2> QED
    BY <2>0, <2>3, <2>7 DEF Drew
<1>8. CASE /\ v.m.state = "AwaitingChallengeResponse"
           /\ r.m = [v.m EXCEPT !.state = "AwaitingFailureAck", !.id = next]
           /\ r.out = Pw!Mschap(v.m, 4, None)
  <2>1. v.m.user \in U /\ v.m.chal \in C
    BY <1>4
  <2>0. w.m \in [user : U, chal : {v.m.chal}, id : Nat, authed : U, state : {"AwaitingFailureAck"}]
    <3>1. [v.m EXCEPT !.state = "AwaitingFailureAck", !.id = next]
            \in [user : U, chal : {v.m.chal}, id : Nat, authed : U, state : {"AwaitingFailureAck"}]
      BY <1>4, <2>1, InnerDenied
    <3> QED
      BY <1>3, <1>8, <3>1, Zenon
  <2>2. w.out = "running" /\ w.sent = v.sent \cup {4}
    BY <1>3, <1>8 DEF Pw!Mschap, Pw!Continue
  <2>3. w.sent = {1, 4} /\ v.sent = {1} /\ w.m.chal # None
    BY <1>1, <1>8, <2>0, <2>2 DEF InnerStands
  <2>4. InnerStands(w, n, S)
    BY <2>0, <2>1, <2>2, <2>3 DEF InnerStands, U, C
  <2> QED
    BY <2>0, <2>3, <2>4 DEF Drew
<1> QED
  BY <1>2, <1>5, <1>6, <1>7, <1>8

LEMMA PacketsAre ==
    ASSUME None \notin Nat, NEW kind, NEW pkt \in Pw!Packets(kind)
    PROVE  /\ pkt.typ = "MSCHAPv2"
           /\ pkt.op = 2 => Seen(pkt.body, IF kind = "MD5" THEN "MD5" ELSE "MSCHAPv2", computed)
<1>1. CASE pkt \in [code : {"Response"}, typ : {"MSCHAPv2"}, op : {None, 3, 4}, body : {None}]
  <2>1. pkt.op \in {None, 3, 4} /\ pkt.typ = "MSCHAPv2" /\ pkt.body = None
    BY <1>1
  <2> QED
    BY <2>1 DEF Seen
<1>2. CASE pkt \in [code : {"Response"}, typ : {"MSCHAPv2"}, op : {2}, body : Pw!Bodies(kind)]
  <2>1. pkt.typ = "MSCHAPv2" /\ pkt.body \in Pw!Bodies(kind)
    BY <1>2
  <2> QED
    BY <2>1, Zenon DEF Pw!Bodies, Seen
<1> QED
  BY <1>1, <1>2 DEF Pw!Packets, Pw!OpSuccess, Pw!OpFailure, Pw!OpResponse

LEMMA OpenKeeps ==
    ASSUME PasswordInv, Pw!PasswordAssumption, Pw!RoundsAssumption,
           NEW c \in Talks, NEW kind \in {"MD5", "MSCHAPv2", "inner"}, NEW name \in Users \cup {None},
           Pw!Open(c, kind, name)
    PROVE  PasswordInv'
<1>0. drawn \in Nat /\ None \notin Nat /\ IdCount \in Nat \ {0} /\ UNCHANGED computed
  BY DEF PasswordInv, Pw!RoundsAssumption, Pw!PasswordAssumption, Pw!Open
<1>1. CASE kind = "inner"
  <2> DEFINE m == Pw!InnerStart(Pw!NewInner).m
             w == [kind |-> "inner", m |-> m, id |-> 0, out |-> "running", sent |-> {}]
  <2>1. conv' = [conv EXCEPT ![c] = w] /\ drawn' = drawn
    BY <1>1 DEF Pw!Open, Pw!Unused
  <2>2. m = [state |-> "AwaitingIdentity", user |-> None, chal |-> None, id |-> Pw!NextId(1), authed |-> None]
    BY DEF Pw!InnerStart, Pw!NewInner, Pw!Result
  <2>3. Pw!NextId(1) \in Nat
    BY <1>0 DEF Pw!NextId
  <2>4. Stands(w, drawn, computed)
    BY <1>0, <2>2, <2>3 DEF Stands, InnerStands
  <2>5. ~Drew(w)
    BY DEF Drew
  <2> HIDE DEF w
  <2> QED
    BY <1>0, <2>1, <2>4, <2>5, OneMoves
<1>2. CASE kind \in {"MD5", "MSCHAPv2"}
  <2> DEFINE m == [kind |-> kind, state |-> "AwaitingResponse", user |-> name, chal |-> drawn + 1,
                   reqid |-> IF kind = "MD5" THEN 1 ELSE None]
             w == [kind |-> kind, m |-> m, id |-> 1, out |-> "running", sent |-> {1}]
             r == Pw!NativeStart(Pw!NotifyPeerIdentity(Pw!NewNative(kind), name), drawn + 1)
  <2>1. Pw!NotifyPeerIdentity(Pw!NewNative(kind), name)
          = [kind |-> kind, state |-> "Init", user |-> name, chal |-> None, reqid |-> None]
    BY DEF Pw!NotifyPeerIdentity, Pw!NewNative
  <2>2. r.m = [kind |-> kind, state |-> "AwaitingResponse", user |-> name, chal |-> drawn + 1, reqid |-> None]
    <3> DEFINE p == Pw!NotifyPeerIdentity(Pw!NewNative(kind), name)
    <3>1. p.state = "Init"
      BY <2>1
    <3>2. r.m = [p EXCEPT !.state = "AwaitingResponse", !.chal = drawn + 1]
      BY <3>1 DEF Pw!NativeStart, Pw!Result
    <3>3. p \in [kind : {kind}, state : {"Init"}, user : {name}, chal : {None}, reqid : {None}]
      BY <2>1
    <3> HIDE DEF p, r
    <3>4. r.m \in [kind : {kind}, state : {"AwaitingResponse"}, user : {name}, chal : {drawn + 1}, reqid : {None}]
      BY <3>2, <3>3
    <3> QED
      BY <3>4
  <2>3. Pw!NotifyRequestId(r.m, 1) = m
    BY <1>2, <2>2 DEF Pw!NotifyRequestId
  <2>4. drawn' = drawn + 1
        /\ conv' = [conv EXCEPT ![c] = [kind |-> kind, m |-> Pw!NotifyRequestId(r.m, 1), id |-> 1,
                                        out |-> "running", sent |-> {1}]]
    BY <1>2 DEF Pw!Open, Pw!OpChallenge
  <2>5. conv' = [conv EXCEPT ![c] = w]
    BY <2>3, <2>4
  <2>6. drawn + 1 \in Nat /\ drawn + 1 \in 1 .. drawn + 1
    BY <1>0
  <2>7. kind = "MD5" => Stands(w, drawn + 1, computed)
    BY <2>6 DEF Stands, Md5Stands
  <2>8. kind = "MSCHAPv2" => Stands(w, drawn + 1, computed)
    BY <2>6 DEF Stands, NativeStands
  <2>9. Stands(w, drawn', computed)
    BY <1>2, <2>4, <2>7, <2>8
  <2>10. w.m.chal = drawn + 1
    OBVIOUS
  <2> HIDE DEF w
  <2> QED
    BY <1>0, <2>4, <2>5, <2>9, <2>10, OneMoves
<1> QED
  BY <1>1, <1>2

LEMMA ComputeKeeps ==
    ASSUME PasswordInv, NEW c \in Talks, NEW name \in Users, NEW secret \in Passwords,
           Pw!Compute(c, name, secret)
    PROVE  PasswordInv'
<1>1. conv' = conv /\ drawn' = drawn /\ computed \subseteq computed' /\ drawn \in Nat /\ drawn <= drawn
  BY DEF Pw!Compute, PasswordInv
<1>2. \A d \in Talks : Stands(conv[d], drawn, computed')
  BY <1>1, StandsOn DEF PasswordInv
<1> QED
  BY <1>1, <1>2, Zenon DEF PasswordInv, Drew

LEMMA DeliverKeeps ==
    ASSUME PasswordInv, Pw!PasswordAssumption, Pw!RoundsAssumption,
           NEW c \in Talks, NEW pkt \in Pw!Packets(conv[c].kind), Pw!Deliver(c, pkt)
    PROVE  PasswordInv'
<1> DEFINE v == conv[c]
           id == Pw!NextId(v.id)
           r == IF v.kind = "MD5" THEN Pw!Md5Step(v.m, pkt) ELSE Pw!NativeStep(v.m, pkt)
           w == After(v, r, id)
<1>1. /\ drawn \in Nat /\ None \notin Nat /\ IdCount \in Nat \ {0}
      /\ UNCHANGED <<drawn, computed>> /\ Stands(v, drawn, computed)
  BY DEF PasswordInv, Pw!RoundsAssumption, Pw!PasswordAssumption, Pw!Deliver
<1>2. /\ v.kind \in {"MD5", "MSCHAPv2"} /\ v.out = "running"
      /\ v.kind = "MD5" => pkt.op = 2
      /\ conv' = [conv EXCEPT ![c] = w]
  BY DEF Pw!Deliver, Pw!Sent, After, Pw!OpResponse
<1>3. id \in Nat
  BY <1>1 DEF Pw!NextId, Stands
<1>4. CASE v.kind = "MD5"
  <2>1. Seen(pkt.body, "MD5", computed)
    BY <1>1, <1>2, <1>4, PacketsAre
  <2>2. Stands(w, drawn, computed) /\ w.m.chal = v.m.chal
    <3>1. r = Pw!Md5Step(v.m, pkt)
      BY <1>4
    <3> HIDE DEF r, id
    <3>2. Stands(After(v, Pw!Md5Step(v.m, pkt), id), drawn, computed)
          /\ After(v, Pw!Md5Step(v.m, pkt), id).m.chal = v.m.chal
      BY <1>1, <1>2, <1>3, <1>4, <2>1, Md5Goes
    <3> QED
      BY <3>1, <3>2
  <2>3. Drew(v)
    BY <1>1, <1>4 DEF Stands, Md5Stands, Drew
  <2> HIDE DEF w
  <2> QED
    BY <1>1, <1>2, <2>2, <2>3, OneMoves
<1>5. CASE v.kind = "MSCHAPv2"
  <2>1. pkt.op = 2 => Seen(pkt.body, "MSCHAPv2", computed)
    BY <1>1, <1>5, PacketsAre
  <2>2. Stands(w, drawn, computed) /\ w.m.chal = v.m.chal
    <3>1. r = Pw!NativeStep(v.m, pkt)
      BY <1>5
    <3> HIDE DEF r, id
    <3>2. Stands(After(v, Pw!NativeStep(v.m, pkt), id), drawn, computed)
          /\ After(v, Pw!NativeStep(v.m, pkt), id).m.chal = v.m.chal
      <4> HIDE DEF v
      <4> QED
        BY <1>1, <1>3, <1>5, <2>1, NativeGoes
    <3> QED
      BY <3>1, <3>2
  <2>3. Drew(v)
    BY <1>1, <1>5 DEF Stands, NativeStands, Drew
  <2> HIDE DEF w
  <2> QED
    BY <1>1, <1>2, <2>2, <2>3, OneMoves
<1> QED
  BY <1>2, <1>4, <1>5

LEMMA DeliverInnerKeeps ==
    ASSUME PasswordInv, Pw!PasswordAssumption, Pw!RoundsAssumption,
           NEW c \in Talks, NEW pkt, InnerPacket(pkt, computed), Pw!DeliverInner(c, pkt)
    PROVE  PasswordInv'
<1> DEFINE v == conv[c]
           id == Pw!NextId(v.id)
           r == Pw!InnerStep(v.m, pkt, drawn + 1)
           w == After(v, r, id)
<1>1. /\ drawn \in Nat /\ None \notin Nat /\ IdCount \in Nat \ {0}
      /\ UNCHANGED computed /\ Stands(v, drawn, computed)
  BY DEF PasswordInv, Pw!RoundsAssumption, Pw!PasswordAssumption, Pw!DeliverInner
<1>2. /\ v.kind = "inner" /\ conv' = [conv EXCEPT ![c] = w]
      /\ drawn' = IF r.m.chal # v.m.chal THEN drawn + 1 ELSE drawn
  BY DEF Pw!DeliverInner, Pw!Sent, After
<1>3. id \in Nat
  BY <1>1 DEF Pw!NextId, Stands
<1>4. /\ w.m = r.m
      /\ \/ Stands(w, drawn, computed) /\ w.m.chal = v.m.chal /\ (Drew(w) => Drew(v))
         \/ Stands(w, drawn + 1, computed) /\ w.m.chal = drawn + 1 /\ v.m.chal # drawn + 1
  BY <1>1, <1>2, <1>3, InnerGoes
<1> HIDE DEF w, r
<1>5. CASE Stands(w, drawn, computed) /\ w.m.chal = v.m.chal /\ (Drew(w) => Drew(v))
  <2>1. drawn' = drawn
    BY <1>2, <1>4, <1>5
  <2> QED
    BY <1>1, <1>2, <1>5, <2>1, OneMoves
<1>6. CASE Stands(w, drawn + 1, computed) /\ w.m.chal = drawn + 1 /\ v.m.chal # drawn + 1
  <2>1. drawn' = drawn + 1
    BY <1>2, <1>4, <1>6
  <2> QED
    BY <1>1, <1>2, <1>6, <2>1, OneMoves
<1> QED
  BY <1>4, <1>5, <1>6

LEMMA PasswordImplies ==
    ASSUME PasswordInv, Pw!RoundsAssumption
    PROVE  Pw!AcceptsFreshProof /\ Pw!AnnouncedFirst /\ Pw!OneTry
<1>1. Pw!AcceptsFreshProof
  <2> SUFFICES ASSUME NEW c \in Talks, conv[c].out = "success"
               PROVE  /\ Pw!Exposed(c) \in DOMAIN Secrets
                      /\ \E d \in computed :
                          IF conv[c].kind = "MD5"
                          THEN d.kind = "MD5" /\ d.body = Pw!Md5Response(1, Secrets[Pw!Exposed(c)], conv[c].m.chal)
                          ELSE d.kind = "MSCHAPv2" /\ d.body.nt.user = Pw!Exposed(c)
                               /\ d.body.nt.chal = conv[c].m.chal /\ d.body.nt.secret = Secrets[Pw!Exposed(c)]
    BY DEF Pw!AcceptsFreshProof
  <2>1. Stands(conv[c], drawn, computed)
    BY DEF PasswordInv
  <2>2. Proven(conv[c], Pw!Exposed(c), computed)
    BY <2>1 DEF Stands, Md5Stands, NativeStands, InnerStands, Pw!Exposed
  <2> QED
    BY <2>2, Zenon DEF Proven
<1>2. \A c \in Talks : /\ (conv[c].kind \in {"MSCHAPv2", "inner"} /\ conv[c].out = "success"
                              => 3 \in conv[c].sent /\ 4 \notin conv[c].sent)
                       /\ ~(3 \in conv[c].sent /\ 4 \in conv[c].sent)
  <2> SUFFICES ASSUME NEW c \in Talks
               PROVE  /\ (conv[c].kind \in {"MSCHAPv2", "inner"} /\ conv[c].out = "success"
                             => 3 \in conv[c].sent /\ 4 \notin conv[c].sent)
                      /\ ~(3 \in conv[c].sent /\ 4 \in conv[c].sent)
    OBVIOUS
  <2>1. Stands(conv[c], drawn, computed)
    BY DEF PasswordInv
  <2>2. CASE conv[c].kind = "MD5" /\ Md5Stands(conv[c], drawn, computed)
    BY <2>2 DEF Md5Stands
  <2>3. CASE conv[c].kind = "MSCHAPv2" /\ NativeStands(conv[c], drawn, computed)
    BY <2>3 DEF NativeStands
  <2>4. CASE conv[c].kind = "inner" /\ InnerStands(conv[c], drawn, computed)
    BY <2>4 DEF InnerStands
  <2> QED
    BY <2>1, <2>2, <2>3, <2>4 DEF Stands
<1>3. Pw!AnnouncedFirst
  BY <1>2 DEF Pw!AnnouncedFirst, Pw!OpSuccess, Pw!OpFailure
<1>4. Pw!OneTry
  BY <1>2 DEF PasswordInv, Drew, Pw!OneTry, Pw!OpSuccess, Pw!OpFailure, Pw!OpChallenge
<1> QED
  BY <1>1, <1>3, <1>4

\* For any number of conversations, users and passwords, over a network that
\* delivers any response to anyone any number of times: success needs a proof
\* over the conversation's own last challenge, of the secret of the user whom
\* it then exposes; MSCHAPv2 succeeds only after its Success message; and no
\* challenge serves two conversations or two verdicts (step of EapMd5,
\* EapMsChapV2 and MsChapV2Server).
THEOREM ProofsFresh ==
    ASSUME Pw!PasswordAssumption, Pw!RoundsAssumption
    PROVE  Pw!Spec => [](Pw!AcceptsFreshProof /\ Pw!AnnouncedFirst /\ Pw!OneTry)
<1>1. Pw!Init => PasswordInv
  BY DEF Pw!Init, PasswordInv, Pw!Unused, Stands, Drew
<1>2. PasswordInv /\ [Pw!Next]_Pw!vars => PasswordInv'
  <2> SUFFICES ASSUME PasswordInv, [Pw!Next]_Pw!vars PROVE PasswordInv'
    OBVIOUS
  <2>1. CASE UNCHANGED Pw!vars
    BY <2>1, Zenon DEF PasswordInv, Pw!vars, Drew
  <2>2. ASSUME NEW c \in Talks, NEW kind \in {"MD5", "MSCHAPv2", "inner"}, NEW name \in Users \cup {None},
               Pw!Open(c, kind, name)
        PROVE  PasswordInv'
    BY <2>2, OpenKeeps
  <2>3. ASSUME NEW c \in Talks, NEW name \in Users, NEW secret \in Passwords, Pw!Compute(c, name, secret)
        PROVE  PasswordInv'
    BY <2>3, ComputeKeeps
  <2>4. ASSUME NEW c \in Talks, NEW pkt \in Pw!Packets(conv[c].kind), Pw!Deliver(c, pkt)
        PROVE  PasswordInv'
    BY <2>4, DeliverKeeps
  <2>5. ASSUME NEW c \in Talks,
               NEW pkt \in Pw!Packets("inner") \cup
                   {[code |-> "Response", typ |-> "Identity", op |-> None, body |-> u] : u \in Users},
               Pw!DeliverInner(c, pkt)
        PROVE  PasswordInv'
    <3>1. InnerPacket(pkt, computed)
      <4>1. CASE pkt \in Pw!Packets("inner")
        BY <4>1, PacketsAre DEF InnerPacket, Pw!RoundsAssumption
      <4>2. CASE pkt \in {[code |-> "Response", typ |-> "Identity", op |-> None, body |-> u] : u \in Users}
        BY <4>2 DEF InnerPacket
      <4> QED
        BY <2>5, <4>1, <4>2
    <3> QED
      BY <2>5, <3>1, DeliverInnerKeeps
  <2>6. ASSUME NEW c \in Talks, Pw!DeliverInner(c, Garbled)
        PROVE  PasswordInv'
    <3>1. InnerPacket(Garbled, computed)
      BY DEF InnerPacket
    <3> QED
      BY <2>6, <3>1, DeliverInnerKeeps
  <2> QED
    BY <2>1, <2>2, <2>3, <2>4, <2>5, <2>6, Zenon DEF Pw!Next
<1>3. PasswordInv => Pw!AcceptsFreshProof /\ Pw!AnnouncedFirst /\ Pw!OneTry
  BY PasswordImplies
<1> QED
  BY <1>1, <1>2, <1>3, PTL DEF Pw!Spec
=============================================================================
