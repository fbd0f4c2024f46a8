--------------------------- MODULE TlsStreamProofs ---------------------------
(***************************************************************************)
(* Proofs about TlsStream, for any plans of the peer and messages of the   *)
(* driver, any limits of a frame and any room in the socket.               *)
(*                                                                         *)
(* The first part is about sequences of sequences, the second about what   *)
(* each step does to the octets on their way in and out.                   *)
(***************************************************************************)
EXTENDS TlsStream, SequenceTheorems, WellFoundedInduction, TLAPS

-----------------------------------------------------------------------------
(* Flattening.                                                             *)

\* A set of naturals has a least element.
LEMMA LeastNatural ==
    ASSUME NEW T \in SUBSET Nat, T # {}
    PROVE  \E x \in T : \A y \in T : x <= y
<1> DEFINE Less == {s \in Nat \X Nat : s[1] < s[2]}
<1>1. OpToRel(<, Nat) = Less
  BY DEF OpToRel
<1>2. IsWellFoundedOn(Less, Nat)
  BY <1>1, NatLessThanWellFounded
<1> HIDE DEF Less
<1>3. PICK x \in T : \A y \in T : <<y, x>> \notin Less
  BY <1>2, WFMin
<1>4. ASSUME NEW y \in T PROVE x <= y
  <2>1. x \in Nat /\ y \in Nat /\ <<y, x>> \notin Less
    BY <1>3
  <2> QED
    BY <2>1 DEF Less
<1> QED
  BY <1>4

\* Induction over the naturals, for a set of them.
LEMMA SetInduction ==
    ASSUME NEW T \in SUBSET Nat, 0 \in T, \A n \in T : n + 1 \in T
    PROVE  \A n \in Nat : n \in T
<1>1. SUFFICES ASSUME Nat \ T # {} PROVE FALSE
  OBVIOUS
<1>2. PICK x \in Nat \ T : \A y \in Nat \ T : x <= y
  BY <1>1, LeastNatural
<1>3. x - 1 \in Nat /\ ~(x <= x - 1)
  BY <1>2
<1>4. (x - 1) + 1 \in T
  BY <1>2, <1>3
<1> QED
  BY <1>2, <1>3, <1>4

\* g is the recursive function of FlattenSeq on the first n sequences.
Flattens(g, ss, n) ==
    \A i \in 1 .. n : g[i] = IF i = 1 THEN ss[i] ELSE g[i - 1] \o ss[i]

Flatten(ss) ==
    CHOOSE f : f = [i \in 1 .. Len(ss) |-> IF i = 1 THEN ss[i] ELSE f[i - 1] \o ss[i]]

LEMMA FlattenIs ==
    ASSUME NEW S, NEW ss \in Seq(S)
    PROVE  FlattenSeq(ss) = IF ss = <<>> THEN <<>> ELSE Flatten(ss)[Len(ss)]
<1>1. FlattenSeq(ss) = IF Len(ss) = 0 THEN ss ELSE Flatten(ss)[Len(ss)]
  BY DEF FlattenSeq, Flatten
<1>2. ss = <<>> <=> Len(ss) = 0
  BY EmptySeq
<1> QED
  BY <1>1, <1>2

\* It has one solution.
LEMMA FlattensSame ==
    ASSUME NEW g, NEW h, NEW ss, NEW tt, NEW n \in Nat,
           Flattens(g, ss, n), Flattens(h, tt, n), \A i \in 1 .. n : ss[i] = tt[i]
    PROVE  \A i \in 1 .. n : g[i] = h[i]
<1> DEFINE Same == {m \in Nat : m \in 1 .. n => g[m] = h[m]}
<1>1. 0 \in Same
  OBVIOUS
<1>2. ASSUME NEW m \in Same PROVE m + 1 \in Same
  <2>1. SUFFICES ASSUME m + 1 \in 1 .. n PROVE g[m + 1] = h[m + 1]
    OBVIOUS
  <2>2. CASE m = 0
    BY <2>1, <2>2 DEF Flattens
  <2>3. CASE m # 0
    <3>1. m \in 1 .. n /\ (m + 1) - 1 = m /\ m + 1 # 1
      BY <2>1, <2>3
    <3>2. g[m] = h[m]
      BY <3>1
    <3>3. g[m + 1] = g[m] \o ss[m + 1] /\ h[m + 1] = h[m] \o tt[m + 1]
      BY <2>1, <3>1 DEF Flattens
    <3> QED
      BY <2>1, <3>2, <3>3
  <2> QED
    BY <2>2, <2>3
<1>3. \A m \in Nat : m \in Same
  <2> HIDE DEF Same
  <2>1. Same \in SUBSET Nat
    BY DEF Same
  <2> QED
    BY <1>1, <1>2, <2>1, SetInduction
<1> QED
  BY <1>3

\* The recursion has a solution, of the right type.
LEMMA FlattenDefined ==
    ASSUME NEW S, NEW ss \in Seq(Seq(S))
    PROVE  Flatten(ss) \in [1 .. Len(ss) -> Seq(S)] /\ Flattens(Flatten(ss), ss, Len(ss))
<1> DEFINE Done == {n \in Nat : n <= Len(ss) => \E g \in [1 .. n -> Seq(S)] : Flattens(g, ss, n)}
<1>0. Len(ss) \in Nat /\ \A i \in 1 .. Len(ss) : ss[i] \in Seq(S)
  BY LenProperties, ElementOfSeq
<1>1. 0 \in Done
  <2> DEFINE g == [i \in 1 .. 0 |-> <<>>]
  <2>1. g \in [1 .. 0 -> Seq(S)]
    OBVIOUS
  <2>2. Flattens(g, ss, 0)
    BY DEF Flattens
  <2> QED
    BY <2>1, <2>2
<1>2. ASSUME NEW n \in Done PROVE n + 1 \in Done
  <2>1. SUFFICES ASSUME n + 1 <= Len(ss)
                 PROVE  \E g \in [1 .. n + 1 -> Seq(S)] : Flattens(g, ss, n + 1)
    OBVIOUS
  <2>2. n \in Nat /\ n <= Len(ss) /\ n + 1 \in 1 .. Len(ss)
    BY <1>0, <2>1
  <2>3. PICK g \in [1 .. n -> Seq(S)] : Flattens(g, ss, n)
    BY <2>2
  <2> DEFINE last == IF n = 0 THEN ss[1] ELSE g[n] \o ss[n + 1]
             h == [i \in 1 .. n + 1 |-> IF i = n + 1 THEN last ELSE g[i]]
  <2>4. last \in Seq(S)
    <3>1. CASE n = 0
      BY <1>0, <2>2, <3>1
    <3>2. CASE n # 0
      <4>1. g[n] \in Seq(S) /\ ss[n + 1] \in Seq(S)
        BY <1>0, <2>2, <2>3, <3>2
      <4>2. g[n] \o ss[n + 1] \in Seq(S)
        BY <4>1, ConcatProperties
      <4> QED
        BY <3>2, <4>2
    <3> QED
      BY <3>1, <3>2
  <2>5. h \in [1 .. n + 1 -> Seq(S)]
    BY <2>2, <2>3, <2>4
  <2>6. ASSUME NEW i \in 1 .. n + 1
        PROVE  h[i] = IF i = 1 THEN ss[i] ELSE h[i - 1] \o ss[i]
    <3>1. CASE i = n + 1
      <4>1. h[i] = last
        BY <3>1
      <4>2. n # 0 => h[i - 1] = g[n]
        BY <2>2, <3>1
      <4> QED
        BY <2>2, <3>1, <4>1, <4>2
    <3>2. CASE i # n + 1
      <4>1. i \in 1 .. n /\ h[i] = g[i]
        BY <2>2, <3>2
      <4>2. i # 1 => h[i - 1] = g[i - 1]
        BY <2>2, <4>1
      <4> QED
        BY <2>3, <4>1, <4>2 DEF Flattens
    <3> QED
      BY <3>1, <3>2
  <2> HIDE DEF h
  <2>7. Flattens(h, ss, n + 1)
    BY <2>6 DEF Flattens
  <2> QED
    BY <2>5, <2>7
<1>3. \A n \in Nat : n \in Done
  <2> HIDE DEF Done
  <2>1. Done \in SUBSET Nat
    BY DEF Done
  <2> QED
    BY <1>1, <1>2, <2>1, SetInduction
<1>4. PICK g \in [1 .. Len(ss) -> Seq(S)] : Flattens(g, ss, Len(ss))
  BY <1>0, <1>3
<1>5. g = [i \in 1 .. Len(ss) |-> IF i = 1 THEN ss[i] ELSE g[i - 1] \o ss[i]]
  BY <1>4 DEF Flattens
<1> DEFINE f == Flatten(ss)
<1>6. f = [i \in 1 .. Len(ss) |-> IF i = 1 THEN ss[i] ELSE f[i - 1] \o ss[i]]
  BY <1>5 DEF Flatten
<1> HIDE DEF f
<1>7. Flattens(f, ss, Len(ss))
  <2>1. \A i \in 1 .. Len(ss) : f[i] = IF i = 1 THEN ss[i] ELSE f[i - 1] \o ss[i]
    BY <1>6
  <2> QED
    BY <2>1 DEF Flattens
<1>8. \A i \in 1 .. Len(ss) : f[i] = g[i]
  BY <1>0, <1>4, <1>7, FlattensSame
<1>9. f \in [1 .. Len(ss) -> Seq(S)]
  <2>1. f = [i \in 1 .. Len(ss) |-> f[i]]
    BY <1>6
  <2> QED
    BY <1>4, <1>8, <2>1
<1> QED
  BY <1>7, <1>9 DEF f

LEMMA FlattenEmpty == FlattenSeq(<<>>) = <<>>
<1>1. <<>> \in Seq({})
  BY EmptySeq
<1> QED
  BY <1>1, FlattenIs

LEMMA FlattenType ==
    ASSUME NEW S, NEW ss \in Seq(Seq(S))
    PROVE  FlattenSeq(ss) \in Seq(S)
<1>1. CASE ss = <<>>
  BY <1>1, FlattenEmpty, EmptySeq
<1>2. CASE ss # <<>>
  <2>1. Len(ss) \in 1 .. Len(ss)
    BY <1>2, EmptySeq
  <2> QED
    BY <1>2, <2>1, FlattenDefined, FlattenIs
<1> QED
  BY <1>1, <1>2

\* One more sequence is put behind the others.
LEMMA FlattenAppend ==
    ASSUME NEW S, NEW ss \in Seq(Seq(S)), NEW s \in Seq(S)
    PROVE  FlattenSeq(Append(ss, s)) = FlattenSeq(ss) \o s
<1> DEFINE tt == Append(ss, s)
           n == Len(ss)
<1>1. /\ n \in Nat /\ tt \in Seq(Seq(S)) /\ tt # <<>> /\ Len(tt) = n + 1
      /\ tt[n + 1] = s /\ \A i \in 1 .. n : tt[i] = ss[i]
  BY LenProperties, AppendProperties
<1> HIDE DEF tt
<1>2. FlattenSeq(tt) = Flatten(tt)[n + 1]
  BY <1>1, FlattenIs
<1>3. Flattens(Flatten(tt), tt, n + 1)
  BY <1>1, FlattenDefined
<1>4. CASE ss = <<>>
  <2>1. n = 0 /\ FlattenSeq(ss) = <<>>
    BY <1>4, EmptySeq, FlattenEmpty
  <2>2. Flatten(tt)[n + 1] = s
    BY <1>1, <1>3, <2>1 DEF Flattens
  <2> QED
    BY <1>2, <2>1, <2>2, ConcatEmptySeq DEF tt
<1>5. CASE ss # <<>>
  <2>1. n \in 1 .. n /\ (n + 1) - 1 = n /\ n + 1 # 1
    BY <1>1, <1>5, EmptySeq
  <2>2. Flattens(Flatten(tt), tt, n)
    BY <1>1, <1>3 DEF Flattens
  <2>3. Flattens(Flatten(ss), ss, n)
    BY FlattenDefined
  <2>4. Flatten(tt)[n] = Flatten(ss)[n]
    BY <1>1, <2>1, <2>2, <2>3, FlattensSame
  <2>5. Flatten(tt)[n + 1] = Flatten(tt)[n] \o s
    <3>1. n + 1 \in 1 .. n + 1
      BY <1>1
    <3> QED
      BY <1>1, <1>3, <2>1, <3>1 DEF Flattens
  <2>6. FlattenSeq(ss) = Flatten(ss)[n]
    BY <1>5, FlattenIs
  <2> QED
    BY <1>2, <2>4, <2>5, <2>6 DEF tt
<1> QED
  BY <1>4, <1>5

LEMMA FlattenConcat ==
    ASSUME NEW S, NEW ss \in Seq(Seq(S)), NEW tt \in Seq(Seq(S))
    PROVE  FlattenSeq(ss \o tt) = FlattenSeq(ss) \o FlattenSeq(tt)
<1> DEFINE Part(n) == SubSeq(tt, 1, n)
           Done == {n \in Nat : n <= Len(tt) =>
                        FlattenSeq(ss \o Part(n)) = FlattenSeq(ss) \o FlattenSeq(Part(n))}
<1>1. Len(tt) \in Nat /\ \A i \in 1 .. Len(tt) : tt[i] \in Seq(S)
  BY LenProperties, ElementOfSeq
<1>2. 0 \in Done
  <2>1. Part(0) = <<>>
    BY SubSeqEmpty
  <2>2. ss \o <<>> = ss /\ FlattenSeq(ss) \o <<>> = FlattenSeq(ss)
    BY FlattenType, ConcatEmptySeq
  <2> QED
    BY <2>1, <2>2, FlattenEmpty
<1>3. ASSUME NEW n \in Done PROVE n + 1 \in Done
  <2>1. SUFFICES ASSUME n + 1 <= Len(tt)
                 PROVE  FlattenSeq(ss \o Part(n + 1)) = FlattenSeq(ss) \o FlattenSeq(Part(n + 1))
    OBVIOUS
  <2>2. n \in Nat /\ n + 1 \in 1 .. Len(tt) /\ n <= Len(tt)
    BY <1>1, <2>1
  <2> DEFINE p == Part(n)
             x == tt[n + 1]
  <2>3. p \in Seq(Seq(S)) /\ x \in Seq(S)
    BY <1>1, <2>2, SubSeqProperties
  <2>4. Part(n + 1) = Append(p, x)
    <3>1. Part(n + 1) = SubSeq(tt, 1, (n + 1) - 1) \o <<tt[n + 1]>>
      BY <2>2, SubSeqRecursiveSecond
    <3> QED
      BY <2>2, <2>3, <3>1, AppendIsConcat
  <2>5. FlattenSeq(ss \o p) = FlattenSeq(ss) \o FlattenSeq(p)
    BY <2>2
  <2> HIDE DEF p, x
  <2>6. ss \o Append(p, x) = Append(ss \o p, x)
    <3>1. <<x>> \in Seq(Seq(S)) /\ ss \o p \in Seq(Seq(S))
      BY <2>3, ConcatProperties
    <3> QED
      BY <2>3, <3>1, AppendIsConcat, ConcatAssociative
  <2>7. FlattenSeq(Append(ss \o p, x)) = FlattenSeq(ss \o p) \o x
    BY <2>3, ConcatProperties, FlattenAppend
  <2>8. (FlattenSeq(ss) \o FlattenSeq(p)) \o x = FlattenSeq(ss) \o (FlattenSeq(p) \o x)
    <3>1. FlattenSeq(ss) \in Seq(S) /\ FlattenSeq(p) \in Seq(S) /\ x \in Seq(S)
      BY <2>3, FlattenType
    <3> QED
      BY <3>1, ConcatAssociative
  <2>9. FlattenSeq(p) \o x = FlattenSeq(Append(p, x))
    BY <2>3, FlattenAppend
  <2> QED
    BY <2>4, <2>5, <2>6, <2>7, <2>8, <2>9
<1>4. Len(tt) \in Done
  <2>1. Done \in SUBSET Nat
    OBVIOUS
  <2> HIDE DEF Done
  <2> QED
    BY <1>1, <1>2, <1>3, <2>1, SetInduction
<1>5. Part(Len(tt)) = tt
  BY SubSeqFull
<1> HIDE DEF Part
<1> QED
  BY <1>1, <1>4, <1>5

-----------------------------------------------------------------------------
(* The octets among items.                                                 *)

Octet(i) == IF IsData(i) THEN <<i>> ELSE <<>>
Octets(items) == [i \in DOMAIN items |-> Octet(items[i])]

LEMMA OctetType ==
    ASSUME NEW x \in Items
    PROVE  Octet(x) \in Seq(Nat) /\ <<x>> \in Seq(Items)
<1>1. IsData(x) => x \in Nat
  BY DEF IsData, Items
<1> QED
  BY <1>1 DEF Octet

LEMMA OctetsType ==
    ASSUME NEW s \in Seq(Items)
    PROVE  /\ Octets(s) \in Seq(Seq(Nat)) /\ Len(Octets(s)) = Len(s)
           /\ \A i \in 1 .. Len(s) : Octets(s)[i] = Octet(s[i])
<1>1. Len(s) \in Nat /\ DOMAIN s = 1 .. Len(s) /\ \A i \in 1 .. Len(s) : s[i] \in Items
  BY LenProperties, ElementOfSeq
<1>2. \A i \in 1 .. Len(s) : Octet(s[i]) \in Seq(Nat)
  BY <1>1, OctetType
<1>3. Octets(s) \in [1 .. Len(s) -> Seq(Nat)]
  BY <1>1, <1>2 DEF Octets
<1>4. \A i \in 1 .. Len(s) : Octets(s)[i] = Octet(s[i])
  BY <1>1 DEF Octets
<1> HIDE DEF Octets
<1>5. Octets(s) \in Seq(Seq(Nat)) /\ Len(Octets(s)) = Len(s)
  BY <1>1, <1>3
<1> QED
  BY <1>4, <1>5

LEMMA DataIs ==
    ASSUME NEW s
    PROVE  Data(s) = FlattenSeq(Octets(s))
BY DEF Data, Octets, Octet

LEMMA DataType ==
    ASSUME NEW s \in Seq(Items)
    PROVE  Data(s) \in Seq(Nat)
BY DataIs, OctetsType, FlattenType

LEMMA DataConcat ==
    ASSUME NEW s \in Seq(Items), NEW t \in Seq(Items)
    PROVE  Data(s \o t) = Data(s) \o Data(t)
<1>1. /\ Len(s) \in Nat /\ Len(t) \in Nat
      /\ s \o t \in Seq(Items) /\ Len(s \o t) = Len(s) + Len(t)
      /\ \A i \in 1 .. Len(s) + Len(t) :
            (s \o t)[i] = IF i <= Len(s) THEN s[i] ELSE t[i - Len(s)]
  BY LenProperties, ConcatProperties
<1> DEFINE a == Octets(s)
           b == Octets(t)
           c == Octets(s \o t)
<1>2. /\ a \in Seq(Seq(Nat)) /\ Len(a) = Len(s) /\ \A i \in 1 .. Len(s) : a[i] = Octet(s[i])
      /\ b \in Seq(Seq(Nat)) /\ Len(b) = Len(t) /\ \A i \in 1 .. Len(t) : b[i] = Octet(t[i])
      /\ c \in Seq(Seq(Nat)) /\ Len(c) = Len(s) + Len(t)
      /\ \A i \in 1 .. Len(s) + Len(t) : c[i] = Octet((s \o t)[i])
  BY <1>1, OctetsType
<1> HIDE DEF a, b, c
<1>3. /\ a \o b \in Seq(Seq(Nat)) /\ Len(a \o b) = Len(s) + Len(t)
      /\ \A i \in 1 .. Len(s) + Len(t) :
            (a \o b)[i] = IF i <= Len(s) THEN a[i] ELSE b[i - Len(s)]
  <2>1. /\ a \o b \in Seq(Seq(Nat)) /\ Len(a \o b) = Len(a) + Len(b)
        /\ \A i \in 1 .. Len(a) + Len(b) :
              (a \o b)[i] = IF i <= Len(a) THEN a[i] ELSE b[i - Len(a)]
    <3>1. a \in Seq(Seq(Nat)) /\ b \in Seq(Seq(Nat))
      BY <1>2
    <3> QED
      BY <3>1, ConcatProperties, Zenon
  <2>2. Len(a) = Len(s) /\ Len(b) = Len(t)
    BY <1>2
  <2> QED
    BY <2>1, <2>2, Zenon
<1>4. ASSUME NEW i \in 1 .. Len(s) + Len(t) PROVE c[i] = (a \o b)[i]
  <2>1. CASE i <= Len(s)
    <3>1. i \in 1 .. Len(s) /\ (s \o t)[i] = s[i] /\ (a \o b)[i] = a[i]
      BY <1>1, <1>3, <2>1
    <3> QED
      BY <1>2, <3>1
  <2>2. CASE ~(i <= Len(s))
    <3>1. i - Len(s) \in 1 .. Len(t)
      BY <1>1, <2>2
    <3>2. (s \o t)[i] = t[i - Len(s)]
      BY <1>1, <2>2
    <3>3. (a \o b)[i] = b[i - Len(s)]
      BY <1>3, <2>2
    <3> QED
      BY <1>2, <3>1, <3>2, <3>3
  <2> QED
    BY <2>1, <2>2
<1>5. c = a \o b
  BY <1>2, <1>3, <1>4, SeqEqual
<1> QED
  BY <1>2, <1>5, DataIs, FlattenConcat DEF a, b, c

LEMMA DataEmpty == Data(<<>>) = <<>>
<1>1. Octets(<<>>) = <<>>
  <2>1. <<>> \in Seq(Items)
    BY EmptySeq
  <2> QED
    BY <2>1, OctetsType, EmptySeq
<1> QED
  BY <1>1, DataIs, FlattenEmpty

LEMMA DataOne ==
    ASSUME NEW x \in Items
    PROVE  Data(<<x>>) = Octet(x)
<1>1. <<x>> \in Seq(Items) /\ Octet(x) \in Seq(Nat)
  BY OctetType
<1>2. Octets(<<x>>) \in Seq(Seq(Nat)) /\ Len(Octets(<<x>>)) = 1 /\ Octets(<<x>>)[1] = Octet(x)
  <2>1. Len(<<x>>) = 1 /\ <<x>>[1] = x /\ 1 \in 1 .. 1
    OBVIOUS
  <2> QED
    BY <1>1, <2>1, OctetsType
<1>3. <<>> \in Seq(Seq(Nat)) /\ Append(<<>>, Octet(x)) = <<Octet(x)>>
  BY <1>1
<1>4. Octets(<<x>>) = <<Octet(x)>>
  BY <1>1, <1>2, SeqEqual
<1>5. FlattenSeq(<<Octet(x)>>) = <<>> \o Octet(x)
  BY <1>1, <1>3, FlattenAppend, FlattenEmpty
<1> QED
  BY <1>1, <1>4, <1>5, DataIs, ConcatEmptySeq

LEMMA DataAppend ==
    ASSUME NEW s \in Seq(Items), NEW x \in Items
    PROVE  Data(Append(s, x)) = Data(s) \o Octet(x)
<1>1. <<x>> \in Seq(Items) /\ Append(s, x) = s \o <<x>>
  BY OctetType, AppendIsConcat
<1> QED
  BY <1>1, DataConcat, DataOne

\* A run of octets is its own data.
LEMMA DataAll ==
    ASSUME NEW s \in Seq(Items), \A i \in 1 .. Len(s) : IsData(s[i])
    PROVE  Data(s) = s
<1> DEFINE Part(n) == SubSeq(s, 1, n)
           Done == {n \in Nat : n <= Len(s) => Data(Part(n)) = Part(n)}
<1>1. Len(s) \in Nat /\ \A i \in 1 .. Len(s) : s[i] \in Items
  BY LenProperties, ElementOfSeq
<1>2. 0 \in Done
  <2>1. Part(0) = <<>>
    BY SubSeqEmpty
  <2> QED
    BY <2>1, DataEmpty
<1>3. ASSUME NEW n \in Done PROVE n + 1 \in Done
  <2>1. SUFFICES ASSUME n + 1 <= Len(s) PROVE Data(Part(n + 1)) = Part(n + 1)
    OBVIOUS
  <2>2. n \in Nat /\ n + 1 \in 1 .. Len(s) /\ n <= Len(s)
    BY <1>1, <2>1
  <2> DEFINE x == s[n + 1]
  <2>3. Part(n) \in Seq(Items) /\ x \in Items /\ IsData(x)
    BY <1>1, <2>2, SubSeqProperties
  <2>4. Part(n + 1) = Append(Part(n), x)
    <3>1. Part(n + 1) = SubSeq(s, 1, (n + 1) - 1) \o <<s[n + 1]>>
      BY <2>2, SubSeqRecursiveSecond
    <3> QED
      BY <2>2, <2>3, <3>1, AppendIsConcat
  <2>5. Data(Part(n)) = Part(n)
    BY <2>2
  <2> HIDE DEF Part, x
  <2>6. Data(Part(n + 1)) = Part(n) \o <<x>>
    BY <2>3, <2>4, <2>5, DataAppend DEF Octet
  <2> QED
    BY <2>3, <2>4, <2>6, AppendIsConcat
<1>4. Len(s) \in Done
  <2>1. Done \in SUBSET Nat
    OBVIOUS
  <2> HIDE DEF Done
  <2> QED
    BY <1>1, <1>2, <1>3, <2>1, SetInduction
<1>5. Part(Len(s)) = s
  BY SubSeqFull
<1> HIDE DEF Part
<1> QED
  BY <1>1, <1>4, <1>5

LEMMA Cut ==
    ASSUME NEW S, NEW s \in Seq(S), NEW n \in 0 .. Len(s)
    PROVE  /\ Take(s, n) \in Seq(S) /\ Len(Take(s, n)) = n
           /\ \A i \in 1 .. n : Take(s, n)[i] = s[i]
           /\ From(s, n + 1) \in Seq(S) /\ Len(From(s, n + 1)) = Len(s) - n
           /\ \A i \in 1 .. Len(s) - n : From(s, n + 1)[i] = s[i + n]
           /\ Take(s, n) \o From(s, n + 1) = s
<1>1. Len(s) \in Nat /\ \A i \in 1 .. Len(s) : s[i] \in S
  BY LenProperties, ElementOfSeq
<1>2. /\ Take(s, n) \in Seq(S) /\ Len(Take(s, n)) = n
      /\ \A i \in 1 .. n : Take(s, n)[i] = s[i]
  <2>1. \A i \in 1 .. n : s[i] \in S
    BY <1>1
  <2> QED
    BY <2>1, SubSeqProperties DEF Take
<1>3. /\ From(s, n + 1) \in Seq(S) /\ Len(From(s, n + 1)) = Len(s) - n
      /\ \A i \in 1 .. Len(s) - n : From(s, n + 1)[i] = s[i + n]
  <2>1. \A i \in n + 1 .. Len(s) : s[i] \in S
    BY <1>1
  <2>2. \A i \in 1 .. Len(s) - (n + 1) + 1 : From(s, n + 1)[i] = s[(n + 1) + i - 1]
    BY <1>1, <2>1, SubSeqProperties DEF From
  <2>3. \A i \in 1 .. Len(s) - n : From(s, n + 1)[i] = s[i + n]
    <3>1. Len(s) - (n + 1) + 1 = Len(s) - n
      BY <1>1
    <3>2. \A i \in 1 .. Len(s) - n : (n + 1) + i - 1 = i + n
      BY <1>1
    <3> QED
      BY <2>2, <3>1, <3>2
  <2> QED
    BY <1>1, <2>1, <2>3, SubSeqProperties DEF From
<1>4. Take(s, n) \o From(s, n + 1) = s
  <2>1. 1 \in 1 .. Len(s) + 1 /\ n \in 1 - 1 .. Len(s) /\ Len(s) \in n .. Len(s)
    BY <1>1
  <2>2. SubSeq(s, 1, n) \o SubSeq(s, n + 1, Len(s)) = SubSeq(s, 1, Len(s))
    BY <2>1, ConcatAdjacentSubSeq
  <2> QED
    BY <2>2, SubSeqFull DEF Take, From
<1> QED
  BY <1>2, <1>3, <1>4

LEMMA CutHead ==
    ASSUME NEW S, NEW s \in Seq(S), s # <<>>
    PROVE  /\ 1 \in 0 .. Len(s) /\ Head(s) = s[1] /\ s[1] \in S
           /\ Tail(s) = From(s, 1 + 1) /\ Take(s, 1) = <<s[1]>>
<1>1. Len(s) \in Nat \ {0}
  BY EmptySeq
<1>2. 1 \in 0 .. Len(s) /\ s[1] \in S
  BY <1>1, ElementOfSeq
<1>3. Tail(s) = From(s, 1 + 1)
  BY TailIsSubSeq DEF From
<1>4. Take(s, 1) = <<s[1]>>
  <2>1. Take(s, 1) \in Seq(S) /\ Len(Take(s, 1)) = 1 /\ Take(s, 1)[1] = s[1]
    <3>1. \A i \in 1 .. 1 : Take(s, 1)[i] = s[i]
      BY <1>2, Cut
    <3>2. Take(s, 1) \in Seq(S) /\ Len(Take(s, 1)) = 1
      BY <1>2, Cut
    <3> QED
      BY <3>1, <3>2
  <2>2. <<s[1]>> \in Seq(S) /\ Len(<<s[1]>>) = 1 /\ <<s[1]>>[1] = s[1]
    BY <1>2
  <2> QED
    BY <2>1, <2>2, SeqEqual
<1> QED
  BY <1>2, <1>3, <1>4

\* What is left of two buffers when n items of the first are gone.
LEMMA CutPipe ==
    ASSUME NEW r \in Seq(Items), NEW k \in Seq(Items), NEW n \in 0 .. Len(r)
    PROVE  /\ Len(r \o k) \in Nat
           /\ From(r, n + 1) \o k \in Seq(Items) /\ Len(From(r, n + 1) \o k) = Len(r \o k) - n
           /\ \A i \in 1 .. Len(r \o k) - n : (From(r, n + 1) \o k)[i] = (r \o k)[i + n]
<1> DEFINE q == From(r, n + 1)
<1>1. Len(r) \in Nat /\ Len(k) \in Nat
  BY LenProperties
<1>2. q \in Seq(Items) /\ Len(q) = Len(r) - n /\ \A i \in 1 .. Len(r) - n : q[i] = r[i + n]
  BY Cut
<1> HIDE DEF q
<1>3. /\ Len(r \o k) = Len(r) + Len(k)
      /\ \A i \in 1 .. Len(r) + Len(k) : (r \o k)[i] = IF i <= Len(r) THEN r[i] ELSE k[i - Len(r)]
  BY ConcatProperties, Zenon
<1>4. /\ q \o k \in Seq(Items) /\ Len(q \o k) = Len(q) + Len(k)
      /\ \A i \in 1 .. Len(q) + Len(k) : (q \o k)[i] = IF i <= Len(q) THEN q[i] ELSE k[i - Len(q)]
  BY <1>2, ConcatProperties, Zenon
<1>5. ASSUME NEW i \in 1 .. Len(r \o k) - n PROVE (q \o k)[i] = (r \o k)[i + n]
  <2>1. i \in 1 .. Len(q) + Len(k) /\ i + n \in 1 .. Len(r) + Len(k)
    BY <1>1, <1>2, <1>3
  <2>2. CASE i <= Len(q)
    <3>1. (q \o k)[i] = q[i] /\ (r \o k)[i + n] = r[i + n]
      BY <1>1, <1>2, <1>3, <1>4, <2>1, <2>2
    <3>2. i \in 1 .. Len(r) - n
      BY <1>1, <1>2, <2>1, <2>2
    <3> QED
      BY <1>2, <3>1, <3>2
  <2>3. CASE ~(i <= Len(q))
    <3>1. (q \o k)[i] = k[i - Len(q)]
      BY <1>4, <2>1, <2>3
    <3>2. ~(i + n <= Len(r)) /\ i - Len(q) = (i + n) - Len(r)
      BY <1>1, <1>2, <2>1, <2>3
    <3>3. (r \o k)[i + n] = k[(i + n) - Len(r)]
      BY <1>3, <2>1, <3>2
    <3> QED
      BY <3>1, <3>2, <3>3
  <2> QED
    BY <2>2, <2>3
<1>6. Len(r \o k) \in Nat /\ q \o k \in Seq(Items) /\ Len(q \o k) = Len(r \o k) - n
  BY <1>1, <1>2, <1>3, <1>4
<1> QED
  BY <1>5, <1>6 DEF q

-----------------------------------------------------------------------------
(* The inductive invariant.                                                *)

\* What the peer has sent and nobody has read.
Pipe == rbio \o sockIn

\* The handshake comes first in it, a close_notify last, and nothing follows the
\* end of the stream.
InOrder ==
    /\ \A i \in 1 .. Len(Pipe) : Pipe[i] = Hello => ~established /\ i = 1
    /\ \A i \in 1 .. Len(Pipe) : Pipe[i] = Notify => i = Len(Pipe) /\ peer.end # None
    /\ eof => sockIn = <<>> /\ peer.end # None

\* Beyond the handshake the connection is established; the socket is waited for
\* when the connection is empty.
Phases ==
    /\ pc = "flush" => then # None
    /\ pc \in {"select", "read", "recv", "deliver", "write", "wrecv"} => established
    /\ then \in {"select", "read", "recv", "write", "wrecv"} => established
    /\ (pc = "recv" \/ InFlush("recv")) => rbio = <<>> /\ ~eof

\* A target that is not that of the head was read from the head.
HeadRead ==
    ~Ended /\ frame.target # FrameHead =>
        FrameHead <= Len(frame.buf) /\ frame.buf[FrameHead] = frame.target

IInv ==
    /\ TypeOK /\ InOrder /\ Phases /\ HeadRead
    /\ NothingLost /\ OutputExact /\ FramesWhole /\ ClosedClean /\ IdleExact

\* The octets of the peer, in any of the places they can be in.
InputVars == <<plan, peer, sockIn, rbio, established, eof, frame, delivered>>

LEMMA InputKept ==
    ASSUME InOrder, NothingLost, UNCHANGED InputVars
    PROVE  InOrder' /\ NothingLost'
BY DEF InOrder, NothingLost, InputVars, Pipe

OutputVars == <<peerGot, sockOut, wbio, flushed, produced>>

LEMMA OutputKept ==
    ASSUME OutputExact, UNCHANGED OutputVars
    PROVE  OutputExact'
BY DEF OutputExact, OutputVars

\* A step that moves the driver and no octet.
LEMMA OnlyMoves ==
    ASSUME IInv, ~Ended,
           UNCHANGED <<role, InputVars, OutputVars, age, quiet>>,
           pc' \in {"process", "hsrecv", "select", "flush", "read", "recv", "deliver", "write",
                    "wrecv", "closing", "dead"},
           then' \in AfterFlush \cup {None},
           out' \in Seq(Nat), writes' \in 0 .. MaxWrites, result' \in Results \cup {None},
           Phases',
           (result' = "closed" /\ result # "closed") =>
                FlattenSeq(delivered) = Data(Take(plan, peer.sent)) /\ peer.end # None
    PROVE  IInv'
<1> USE DEF IInv
<1>1. InOrder' /\ NothingLost' /\ OutputExact'
  BY InputKept, OutputKept
<1>2. TypeOK'
  BY DEF TypeOK, InputVars, OutputVars, Ended
<1>3. HeadRead' /\ IdleExact'
  BY DEF HeadRead, IdleExact, InputVars, Ended
<1>4. FramesWhole'
  BY DEF FramesWhole, InputVars
<1>5. ClosedClean'
  BY DEF ClosedClean, InputVars
<1> QED
  BY <1>1, <1>2, <1>3, <1>4, <1>5

-----------------------------------------------------------------------------
(* Steps that move the driver.                                             *)

\* The octets that can be read are those up to the first other item.
LEMMA PlainIs ==
    ASSUME rbio \in Seq(Items)
    PROVE  \E k \in 0 .. Len(rbio) :
                /\ Plain = Take(rbio, k)
                /\ \A i \in 1 .. k : IsData(rbio[i])
                /\ k < Len(rbio) => ~IsData(rbio[k + 1])
<1> DEFINE stops == {i \in DOMAIN rbio : ~IsData(rbio[i])}
           Least(i) == \A j \in stops : i <= j
<1>1. Len(rbio) \in Nat /\ DOMAIN rbio = 1 .. Len(rbio)
  BY LenProperties
<1>2. CASE stops = {}
  <2>1. Plain = rbio
    BY <1>2 DEF Plain
  <2>2. Take(rbio, Len(rbio)) = rbio
    BY SubSeqFull DEF Take
  <2>3. \A i \in 1 .. Len(rbio) : IsData(rbio[i])
    BY <1>1, <1>2
  <2> QED
    BY <1>1, <2>1, <2>2, <2>3
<1>3. CASE stops # {}
  <2> DEFINE m == CHOOSE i \in stops : Least(i)
  <2>1. \E i \in stops : Least(i)
    <3>1. stops \in SUBSET Nat
      BY <1>1
    <3> QED
      BY <1>3, <3>1, LeastNatural
  <2>2. m \in stops /\ Least(m)
    BY <2>1
  <2>3. Plain = Take(rbio, m - 1)
    BY <1>3 DEF Plain
  <2> HIDE DEF m
  <2>4. m \in 1 .. Len(rbio) /\ ~IsData(rbio[m])
    BY <1>1, <2>2
  <2>5. ASSUME NEW i \in 1 .. m - 1 PROVE IsData(rbio[i])
    <3>1. i \in DOMAIN rbio /\ ~(m <= i)
      BY <1>1, <2>4
    <3> QED
      BY <2>2, <3>1
  <2>6. m - 1 \in 0 .. Len(rbio) /\ (m - 1) + 1 = m
    BY <1>1, <2>4
  <2> QED
    BY <2>3, <2>4, <2>5, <2>6
<1> QED
  BY <1>2, <1>3

\* A connection that has nothing to read is empty, or holds a close_notify.
LEMMA NothingReadable ==
    ASSUME StreamAssumption, IInv, pc = "read", Starved, rbio # <<>>
    PROVE  /\ rbio[1] = Notify /\ rbio = <<Notify>> /\ sockIn = <<>> /\ peer.end # None
           /\ Closed
<1> USE DEF IInv
<1>1. rbio \in Seq(Items) /\ sockIn \in Seq(Items) /\ established
  BY DEF TypeOK, Phases
<1>2. Len(rbio) \in Nat \ {0} /\ Len(sockIn) \in Nat /\ Head(rbio) = rbio[1] /\ rbio[1] \in Items
  BY <1>1, EmptySeq, CutHead, LenProperties
<1>3. ~IsData(rbio[1])
  <2>1. PICK k \in 0 .. Len(rbio) : /\ Plain = Take(rbio, k)
                                    /\ k < Len(rbio) => ~IsData(rbio[k + 1])
    BY <1>1, PlainIs
  <2>2. Len(Plain) = k /\ Len(Plain) = 0
    BY <1>1, <2>1, Cut, EmptySeq DEF Starved
  <2> QED
    BY <1>2, <2>1, <2>2
<1>4. rbio[1] \in {Hello, Notify}
  BY <1>2, <1>3 DEF IsData, Starved
<1>5. Len(Pipe) = Len(rbio) + Len(sockIn) /\ Pipe[1] = rbio[1]
  BY <1>1, <1>2, ConcatProperties DEF Pipe
<1>6. rbio[1] = Notify
  BY <1>1, <1>2, <1>4, <1>5 DEF InOrder
<1>7. 1 = Len(Pipe) /\ peer.end # None
  BY <1>2, <1>5, <1>6 DEF InOrder
<1>8. Len(rbio) = 1 /\ Len(sockIn) = 0
  <2>1. Len(rbio) + Len(sockIn) = 1
    BY <1>5, <1>7, Zenon
  <2>2. \A a \in Nat \ {0}, b \in Nat : a + b = 1 => a = 1 /\ b = 0
    OBVIOUS
  <2> QED
    BY <1>2, <2>1, <2>2, Zenon
<1>9. rbio = <<Notify>> /\ sockIn = <<>>
  <2>1. <<Notify>> \in Seq(Items) /\ Len(<<Notify>>) = 1 /\ <<Notify>>[1] = Notify
    BY DEF Items
  <2> QED
    BY <1>1, <1>6, <1>8, <2>1, SeqEqual, EmptySeq
<1> QED
  BY <1>2, <1>6, <1>7, <1>9 DEF Closed

\* The driver returns.
LEMMA Dying ==
    ASSUME IInv, ~Ended, pc' \in {"closing", "dead"}, result' \in Results,
           UNCHANGED <<role, InputVars, OutputVars, age, quiet, then, out, writes>>,
           result' = "closed" =>
                FlattenSeq(delivered) = Data(Take(plan, peer.sent)) /\ peer.end # None
    PROVE  IInv'
<1>1. Phases'
  BY DEF IInv, Phases, InputVars, InFlush
<1>2. /\ then' \in AfterFlush \cup {None}
      /\ out' \in Seq(Nat) /\ writes' \in 0 .. MaxWrites
  BY DEF IInv, TypeOK
<1> QED
  BY <1>1, <1>2, OnlyMoves

LEMMA HandshakeTimeoutStep ==
    ASSUME IInv, HandshakeTimeout
    PROVE  IInv'
<1>1. ~Ended /\ pc' \in {"closing", "dead"} /\ result' = "handshake timeout"
  BY DEF HandshakeTimeout, Dies
<1>3. result' \in Results /\ result' # "closed"
  BY <1>1 DEF Results
<1>2. UNCHANGED <<role, InputVars, OutputVars, age, quiet, then, out, writes>>
  BY DEF HandshakeTimeout, InputVars, OutputVars, peerVars, tlsVars
<1> QED
  BY <1>1, <1>2, <1>3, Dying

LEMMA TimeoutsStep ==
    ASSUME IInv, IdleTimeout \/ WriteTimeout \/ Close
    PROVE  IInv'
<1>1. ~Ended /\ pc' \in {"closing", "dead"}
  BY DEF IdleTimeout, WriteTimeout, Close, Reading, Writing, InFlush, Ended, Dies
<1>2. result' \in {"idle timeout", "write timeout", "shut down"}
  BY DEF IdleTimeout, WriteTimeout, Close, Dies
<1>4. result' \in Results /\ result' # "closed"
  BY <1>2 DEF Results
<1>3. UNCHANGED <<role, InputVars, OutputVars, age, quiet, then, out, writes>>
  BY DEF IdleTimeout, WriteTimeout, Close, InputVars, OutputVars, peerVars, tlsVars
<1> QED
  BY <1>1, <1>3, <1>4, Dying

LEMMA ReadClosedStep ==
    ASSUME StreamAssumption, IInv, ReadClosed
    PROVE  IInv'
<1>1. ~Ended /\ pc' \in {"closing", "dead"} /\ result' \in {"closed", "closed mid-frame"}
  BY DEF ReadClosed, Ended, Dies
<1>4. result' \in Results
  BY <1>1 DEF Results
<1>2. UNCHANGED <<role, InputVars, OutputVars, age, quiet, then, out, writes>>
  BY DEF ReadClosed, InputVars, OutputVars, peerVars, tlsVars
<1>3. result' = "closed" =>
        FlattenSeq(delivered) = Data(Take(plan, peer.sent)) /\ peer.end # None
  <2>1. SUFFICES ASSUME frame.buf = <<>>
                 PROVE  FlattenSeq(delivered) = Data(Take(plan, peer.sent)) /\ peer.end # None
    BY DEF ReadClosed, Dies
  <2>2. Data(rbio) = <<>> /\ sockIn = <<>> /\ peer.end # None
    <3>1. CASE rbio = <<>>
      <4>1. eof
        BY <3>1 DEF ReadClosed, Closed
      <4> QED
        BY <3>1, <4>1, DataEmpty DEF IInv, InOrder
    <3>2. CASE rbio # <<>>
      <4>1. rbio = <<Notify>> /\ sockIn = <<>> /\ peer.end # None
        BY <3>2, NothingReadable DEF ReadClosed
      <4>2. Data(<<Notify>>) = <<>>
        BY DataOne DEF Items, Octet, IsData
      <4> QED
        BY <4>1, <4>2
    <3> QED
      BY <3>1, <3>2
  <2>3. FlattenSeq(delivered) \in Seq(Nat)
    BY FlattenType DEF IInv, TypeOK
  <2>4. FlattenSeq(delivered) \o <<>> \o <<>> \o <<>> = FlattenSeq(delivered)
    BY <2>3, ConcatEmptySeq
  <2> QED
    BY <2>1, <2>2, <2>4, DataEmpty DEF IInv, NothingLost
<1> QED
  BY <1>1, <1>2, <1>3, <1>4, Dying

\* A read begins, waits for the socket, or is followed by a write or by nothing.
LEMMA MovesStep ==
    ASSUME StreamAssumption, IInv, BeginRead \/ ReadMore \/ NoReply \/ BeginWrite
    PROVE  IInv'
<1>1. ~Ended
  BY DEF BeginRead, ReadMore, NoReply, BeginWrite, MayWrite, Reading, InFlush, Ended
<1>2. UNCHANGED <<role, InputVars, OutputVars, age, quiet, result>>
  BY DEF BeginRead, ReadMore, NoReply, BeginWrite, Dropped, InputVars, OutputVars, peerVars, tlsVars
<1>3. established
  BY DEF BeginRead, ReadMore, NoReply, BeginWrite, MayWrite, Reading, InFlush, IInv, Phases
<1>4. /\ pc' \in {"flush", "select"} /\ then' \in AfterFlush \cup {None}
      /\ pc' = "flush" => then' \in {"read", "recv", "write"}
      /\ (pc' = "flush" /\ then' = "recv") => ReadMore
  BY DEF BeginRead, ReadMore, NoReply, BeginWrite, AfterFlush, IInv, TypeOK
<1>5. ReadMore => rbio = <<>> /\ ~eof
  BY NothingReadable DEF ReadMore, Closed
<1>6. Phases'
  <2>1. pc' = "flush" => then' # None
    BY <1>4 DEF StreamAssumption, AfterFlush
  <2>2. established'
    BY <1>2, <1>3 DEF InputVars
  <2>3. pc' # "recv" /\ (InFlush("recv")' => rbio' = <<>> /\ ~eof')
    BY <1>2, <1>4, <1>5 DEF InputVars, InFlush
  <2> QED
    BY <2>1, <2>2, <2>3 DEF Phases
<1>7. writes' \in 0 .. MaxWrites /\ out' \in Seq(Nat)
  <2>1. writes \in 0 .. MaxWrites /\ out \in Seq(Nat) /\ MaxWrites \in Nat /\ Message \in Seq(Nat)
    BY DEF IInv, TypeOK, StreamAssumption
  <2>2. \/ UNCHANGED <<writes, out>>
        \/ writes < MaxWrites /\ writes' = writes + 1 /\ out' = Message
    BY DEF BeginRead, ReadMore, NoReply, BeginWrite
  <2> QED
    BY <2>1, <2>2
<1>8. result' \in Results \cup {None}
  BY <1>2 DEF IInv, TypeOK
<1> QED
  BY <1>1, <1>2, <1>4, <1>6, <1>7, <1>8, OnlyMoves

LEMMA TickStep ==
    ASSUME StreamAssumption, IInv, Tick
    PROVE  IInv'
<1> USE DEF IInv
<1>1. UNCHANGED <<role, InputVars, OutputVars, pc, then, out, writes, result>>
  BY DEF Tick, InputVars, OutputVars, peerVars, tlsVars
<1>2. InOrder' /\ NothingLost' /\ OutputExact'
  BY <1>1, InputKept, OutputKept
<1>3. age' = age + 1 /\ age < Idle /\ quiet' = quiet + 1
  BY DEF Tick
<1>4. age' \in 0 .. Idle /\ quiet' \in Nat
  BY <1>3 DEF TypeOK, StreamAssumption
<1>5. TypeOK'
  BY <1>1, <1>4 DEF TypeOK, InputVars, OutputVars, Ended
<1>6. Phases' /\ HeadRead' /\ IdleExact'
  BY <1>1, <1>3 DEF Phases, InFlush, HeadRead, IdleExact, InputVars, Ended
<1>7. FramesWhole' /\ ClosedClean'
  BY <1>1 DEF FramesWhole, ClosedClean, InputVars
<1> QED
  BY <1>2, <1>5, <1>6, <1>7

-----------------------------------------------------------------------------
(* Steps on the output.                                                    *)

LEMMA SeqOfItems ==
    ASSUME NEW s \in Seq(Nat)
    PROVE  s \in Seq(Items)
BY DEF Items

LEMMA Associative ==
    /\ \A s, t, u \in Seq(Items) : (s \o t) \o u = s \o (t \o u)
    /\ \A s, t, u \in Seq(Nat) : (s \o t) \o u = s \o (t \o u)
<1>1. \A s, t, u \in Seq(Items) : (s \o t) \o u = s \o (t \o u)
  BY ConcatAssociative, SMT
<1>2. \A s, t, u \in Seq(Nat) : (s \o t) \o u = s \o (t \o u)
  BY ConcatAssociative, SMT
<1> QED
  BY <1>1, <1>2, Zenon

\* n more items of w are written, of which f had been.
Wrote(g, o, w, f, n) ==
    /\ g \o (o \o SubSeq(w, f + 1, f + n)) \o From(w, (f + n) + 1) = g \o o \o From(w, f + 1)
    /\ o \o SubSeq(w, f + 1, f + n) \in Seq(Items)
    /\ Len(o \o SubSeq(w, f + 1, f + n)) = Len(o) + n
    /\ f + n \in 0 .. Len(w)

LEMMA Written ==
    ASSUME NEW g \in Seq(Items), NEW o \in Seq(Items), NEW w \in Seq(Items),
           NEW f \in 0 .. Len(w), NEW n \in 0 .. Len(w) - f
    PROVE  Wrote(g, o, w, f, n)
<1> DEFINE a == SubSeq(w, f + 1, f + n)
           b == From(w, (f + n) + 1)
           c == From(w, f + 1)
<1>1. Len(w) \in Nat /\ f \in Nat /\ n \in Nat /\ f + n \in 0 .. Len(w)
  BY LenProperties
<1>2. a \in Seq(Items) /\ Len(a) = n
  <2>1. \A i \in f + 1 .. f + n : w[i] \in Items
    <3>1. \A i \in f + 1 .. f + n : i \in 1 .. Len(w)
      BY <1>1
    <3> QED
      BY <3>1, ElementOfSeq
  <2>2. a \in Seq(Items) /\ Len(a) = IF f + 1 <= f + n THEN (f + n) - (f + 1) + 1 ELSE 0
    BY <1>1, <2>1, SubSeqProperties
  <2> QED
    BY <1>1, <2>2
<1>3. b \in Seq(Items) /\ c \in Seq(Items)
  BY <1>1, Cut
<1>4. a \o b = c
  <2>1. f + 1 \in 1 .. Len(w) + 1 /\ f + n \in (f + 1) - 1 .. Len(w) /\ Len(w) \in f + n .. Len(w)
    BY <1>1
  <2> QED
    BY <2>1, ConcatAdjacentSubSeq DEF From
<1> HIDE DEF a, b, c
<1>5. o \o a \in Seq(Items) /\ Len(o \o a) = Len(o) + n
  BY <1>2, ConcatProperties
<1>6. g \o (o \o a) \o b = g \o ((o \o a) \o b)
  BY <1>3, <1>5, Associative, Zenon
<1>7. (o \o a) \o b = o \o (a \o b)
  BY <1>2, <1>3, Associative, Zenon
<1>8. g \o (o \o c) = g \o o \o c
  BY <1>3, Associative, Zenon
<1> QED
  BY <1>1, <1>4, <1>5, <1>6, <1>7, <1>8 DEF Wrote, a, b, c

\* t is put behind the items of w, of which f have been written.
LEMMA Behind ==
    ASSUME NEW w \in Seq(Items), NEW t \in Seq(Items), NEW f \in 0 .. Len(w)
    PROVE  /\ From(w \o t, f + 1) = From(w, f + 1) \o t
           /\ w \o t \in Seq(Items) /\ f \in 0 .. Len(w \o t)
<1> DEFINE x == From(w, f + 1)
           y == From(w \o t, f + 1)
<1>1. Len(w) \in Nat /\ Len(t) \in Nat
  BY LenProperties
<1>2. /\ w \o t \in Seq(Items) /\ Len(w \o t) = Len(w) + Len(t)
      /\ \A i \in 1 .. Len(w) + Len(t) : (w \o t)[i] = IF i <= Len(w) THEN w[i] ELSE t[i - Len(w)]
  BY ConcatProperties, Zenon
<1>3. x \in Seq(Items) /\ Len(x) = Len(w) - f /\ \A i \in 1 .. Len(w) - f : x[i] = w[i + f]
  BY Cut
<1>4. f \in 0 .. Len(w \o t)
  BY <1>1, <1>2
<1>5. /\ y \in Seq(Items) /\ Len(y) = (Len(w) + Len(t)) - f
      /\ \A i \in 1 .. (Len(w) + Len(t)) - f : y[i] = (w \o t)[i + f]
  <2>1. /\ y \in Seq(Items) /\ Len(y) = Len(w \o t) - f
        /\ \A i \in 1 .. Len(w \o t) - f : y[i] = (w \o t)[i + f]
    BY <1>2, <1>4, Cut, Zenon
  <2> QED
    BY <1>2, <2>1, Zenon
<1> HIDE DEF x, y
<1>6. /\ x \o t \in Seq(Items) /\ Len(x \o t) = Len(x) + Len(t)
      /\ \A i \in 1 .. Len(x) + Len(t) : (x \o t)[i] = IF i <= Len(x) THEN x[i] ELSE t[i - Len(x)]
  BY <1>3, ConcatProperties, Zenon
<1>7. Len(x \o t) = Len(y)
  BY <1>1, <1>3, <1>5, <1>6
<1>8. ASSUME NEW i \in 1 .. Len(y) PROVE y[i] = (x \o t)[i]
  <2>1. i \in 1 .. Len(x) + Len(t) /\ i + f \in 1 .. Len(w) + Len(t) /\ y[i] = (w \o t)[i + f]
    <3>1. i \in 1 .. (Len(w) + Len(t)) - f
      BY <1>5
    <3>2. i \in 1 .. Len(x) + Len(t) /\ i + f \in 1 .. Len(w) + Len(t)
      BY <1>1, <1>3, <3>1
    <3> QED
      BY <1>5, <3>1, <3>2, Zenon
  <2>2. CASE i <= Len(x)
    <3>1. i + f <= Len(w) /\ i \in 1 .. Len(w) - f
      BY <1>1, <1>3, <2>1, <2>2
    <3> QED
      BY <1>2, <1>3, <1>6, <2>1, <2>2, <3>1
  <2>3. CASE ~(i <= Len(x))
    <3>1. ~(i + f <= Len(w)) /\ (i + f) - Len(w) = i - Len(x)
      BY <1>1, <1>3, <2>1, <2>3
    <3>2. (w \o t)[i + f] = t[(i + f) - Len(w)]
      BY <1>2, <2>1, <3>1
    <3>3. (x \o t)[i] = t[i - Len(x)]
      BY <1>6, <2>1, <2>3
    <3> QED
      BY <2>1, <3>1, <3>2, <3>3
  <2> QED
    BY <2>2, <2>3
<1>9. y = x \o t
  BY <1>5, <1>6, <1>7, <1>8, SeqEqual
<1> QED
  BY <1>2, <1>4, <1>9 DEF x, y

\* The connection produces t.
LEMMA Produces ==
    ASSUME TypeOK, OutputExact, NEW t \in Seq(Items)
    PROVE  /\ peerGot \o sockOut \o From(wbio \o t, flushed + 1) = produced \o t
           /\ wbio \o t \in Seq(Items) /\ flushed \in 0 .. Len(wbio \o t)
           /\ produced \o t \in Seq(Items)
<1>1. /\ peerGot \in Seq(Items) /\ sockOut \in Seq(Items) /\ wbio \in Seq(Items)
      /\ produced \in Seq(Items) /\ flushed \in 0 .. Len(wbio)
  BY DEF TypeOK
<1> DEFINE x == From(wbio, flushed + 1)
           g == peerGot \o sockOut
<1>2. x \in Seq(Items) /\ g \in Seq(Items) /\ produced \o t \in Seq(Items)
  BY <1>1, Cut, ConcatProperties
<1>3. g \o x = produced
  BY DEF OutputExact
<1>4. From(wbio \o t, flushed + 1) = x \o t /\ wbio \o t \in Seq(Items) /\ flushed \in 0 .. Len(wbio \o t)
  BY <1>1, Behind
<1> HIDE DEF x, g
<1>5. g \o (x \o t) = (g \o x) \o t
  BY <1>2, ConcatAssociative
<1> QED
  BY <1>2, <1>3, <1>4, <1>5 DEF g

\* A step that moves no octet of the peer.
LEMMA OnlyWrites ==
    ASSUME IInv, UNCHANGED <<role, InputVars, age, quiet, result>>, Ended => Ended',
           pc' \in {"process", "hsrecv", "select", "flush", "read", "recv", "deliver", "write",
                    "wrecv", "closing", "dead"},
           then' \in AfterFlush \cup {None},
           out' \in Seq(Nat), writes' \in 0 .. MaxWrites, Phases',
           peerGot' \in Seq(Items), sockOut' \in Seq(Items), wbio' \in Seq(Items),
           produced' \in Seq(Items), flushed' \in 0 .. Len(wbio'), Len(sockOut') <= Room,
           OutputExact'
    PROVE  IInv'
<1> USE DEF IInv
<1>1. InOrder' /\ NothingLost'
  BY InputKept
<1>2. TypeOK'
  BY DEF TypeOK, InputVars
<1>3. HeadRead' /\ IdleExact'
  BY DEF HeadRead, IdleExact, InputVars
<1>4. FramesWhole' /\ ClosedClean'
  BY DEF FramesWhole, ClosedClean, InputVars
<1> QED
  BY <1>1, <1>2, <1>3, <1>4

LEMMA PeerTakesStep ==
    ASSUME StreamAssumption, IInv, PeerTakes
    PROVE  IInv'
<1>1. /\ peerGot \in Seq(Items) /\ sockOut \in Seq(Items) /\ sockOut # <<>>
      /\ wbio \in Seq(Items) /\ flushed \in 0 .. Len(wbio) /\ Len(sockOut) <= Room
  BY DEF IInv, TypeOK, PeerTakes
<1>2. /\ UNCHANGED <<role, InputVars, age, quiet, result, pc, then, out, writes>>
      /\ UNCHANGED <<wbio, flushed, produced>>
  BY DEF PeerTakes, InputVars, tlsVars
<1> DEFINE x == sockOut[1]
           r == Tail(sockOut)
<1>3. peerGot' = Append(peerGot, x) /\ sockOut' = r /\ x \in Items
  BY <1>1, CutHead DEF PeerTakes
<1>4. <<x>> \o r = sockOut /\ r \in Seq(Items) /\ Len(r) = Len(sockOut) - 1 /\ <<x>> \in Seq(Items)
  <2>1. 1 \in 0 .. Len(sockOut) /\ r = From(sockOut, 1 + 1) /\ Take(sockOut, 1) = <<x>>
    BY <1>1, CutHead
  <2>2. /\ Take(sockOut, 1) \o From(sockOut, 1 + 1) = sockOut
        /\ Take(sockOut, 1) \in Seq(Items) /\ From(sockOut, 1 + 1) \in Seq(Items)
        /\ Len(From(sockOut, 1 + 1)) = Len(sockOut) - 1
    BY <1>1, <2>1, Cut, Zenon
  <2> QED
    BY <2>1, <2>2
<1> HIDE DEF x, r
<1>5. peerGot' = peerGot \o <<x>> /\ peerGot' \in Seq(Items)
  BY <1>1, <1>3, AppendIsConcat, AppendProperties
<1>6. peerGot' \o sockOut' = peerGot \o sockOut
  <2>1. (peerGot \o <<x>>) \o r = peerGot \o (<<x>> \o r)
    BY <1>1, <1>4, Associative, Zenon
  <2> QED
    BY <1>3, <1>4, <1>5, <2>1
<1>7. OutputExact'
  BY <1>2, <1>6 DEF OutputExact, IInv
<1>8. Len(sockOut') <= Room
  <2>1. Len(sockOut') = Len(sockOut) - 1 /\ Len(sockOut) \in Nat
    BY <1>1, <1>3, <1>4, LenProperties
  <2>2. \A a \in Nat : a <= Room => a - 1 <= Room
    BY DEF StreamAssumption
  <2> QED
    BY <1>1, <2>1, <2>2
<1>9. Phases' /\ (Ended => Ended')
  BY <1>2 DEF IInv, Phases, InFlush, InputVars, Ended
<1>10. /\ pc' \in {"process", "hsrecv", "select", "flush", "read", "recv", "deliver", "write",
                   "wrecv", "closing", "dead"}
       /\ then' \in AfterFlush \cup {None} /\ out' \in Seq(Nat) /\ writes' \in 0 .. MaxWrites
       /\ wbio' \in Seq(Items) /\ produced' \in Seq(Items) /\ flushed' \in 0 .. Len(wbio')
       /\ sockOut' \in Seq(Items)
  BY <1>2, <1>3, <1>4 DEF IInv, TypeOK
<1> QED
  BY <1>2, <1>5, <1>7, <1>8, <1>9, <1>10, OnlyWrites

LEMMA FlushStep ==
    ASSUME StreamAssumption, IInv, Flush
    PROVE  IInv'
<1> DEFINE states == {"process", "hsrecv", "select", "flush", "read", "recv", "deliver", "write",
                      "wrecv", "closing", "dead"}
<1>1. /\ peerGot \in Seq(Items) /\ sockOut \in Seq(Items) /\ wbio \in Seq(Items)
      /\ produced \in Seq(Items) /\ flushed \in 0 .. Len(wbio) /\ Len(sockOut) <= Room
      /\ pc = "flush" /\ then # None /\ then \in AfterFlush
      /\ out \in Seq(Nat) /\ writes \in 0 .. MaxWrites
  BY DEF IInv, TypeOK, Phases, Flush
<1>2. UNCHANGED <<role, InputVars, age, quiet, result, out, writes, peerGot, produced>>
  BY DEF Flush, InputVars, peerVars
<1>3. Len(wbio) \in Nat /\ Len(sockOut) \in Nat /\ Room \in Nat
  BY <1>1, LenProperties DEF StreamAssumption
<1>4. ~Ended /\ out' \in Seq(Nat) /\ writes' \in 0 .. MaxWrites /\ peerGot' \in Seq(Items)
      /\ produced' \in Seq(Items)
  BY <1>1, <1>2 DEF Ended
<1>5. CASE FlushFrom < Len(wbio)
  <2>9. ~(flushed >= Len(wbio))
    BY <1>1, <1>3, <1>5 DEF FlushFrom
  <2>1. PICK n \in 1 .. (Room - Len(sockOut)) :
            /\ flushed + n <= Len(wbio)
            /\ sockOut' = sockOut \o SubSeq(wbio, flushed + 1, flushed + n)
            /\ flushed' = flushed + n
    BY <2>9 DEF Flush, FlushFrom
  <2>2. UNCHANGED <<wbio, pc, then>>
    BY <2>9 DEF Flush, FlushFrom
  <2>3. n \in 0 .. Len(wbio) - flushed
    BY <1>1, <1>3, <2>1
  <2>4. /\ peerGot \o sockOut' \o From(wbio, (flushed + n) + 1) = peerGot \o sockOut \o From(wbio, flushed + 1)
        /\ sockOut' \in Seq(Items) /\ Len(sockOut') = Len(sockOut) + n /\ flushed' \in 0 .. Len(wbio)
    <3>1. peerGot \in Seq(Items) /\ sockOut \in Seq(Items) /\ wbio \in Seq(Items) /\ flushed \in 0 .. Len(wbio)
      BY <1>1
    <3>2. Wrote(peerGot, sockOut, wbio, flushed, n)
      BY <3>1, <2>3, Written, Zenon
    <3> QED
      BY <2>1, <3>2, Zenon DEF Wrote
  <2>5. OutputExact'
    BY <1>2, <2>1, <2>2, <2>4 DEF OutputExact, IInv
  <2>6. Len(sockOut') <= Room
    BY <1>3, <2>1, <2>4
  <2>7. Phases'
    BY <1>2, <2>2 DEF IInv, Phases, InFlush, InputVars
  <2>8. /\ pc' \in states /\ then' \in AfterFlush \cup {None}
        /\ wbio' \in Seq(Items) /\ flushed' \in 0 .. Len(wbio')
    BY <1>1, <2>2, <2>4
  <2> QED
    BY <1>2, <1>4, <2>4, <2>5, <2>6, <2>7, <2>8, OnlyWrites
<1>6. CASE ~(FlushFrom < Len(wbio))
  <2>1. /\ wbio' = <<>> /\ flushed' = 0 /\ pc' = then /\ then' = None
        /\ UNCHANGED sockOut
    BY <1>6 DEF Flush
  <2>2. flushed = Len(wbio)
    BY <1>1, <1>3, <1>6 DEF FlushFrom
  <2>3. From(wbio, flushed + 1) = <<>> /\ From(wbio', flushed' + 1) = <<>>
    <3>1. From(wbio, Len(wbio) + 1) = <<>>
      <4>1. Len(wbio) \in 0 .. Len(wbio)
        BY <1>3
      <4>2. From(wbio, Len(wbio) + 1) \in Seq(Items) /\ Len(From(wbio, Len(wbio) + 1)) = Len(wbio) - Len(wbio)
        BY <1>1, <4>1, Cut, Zenon
      <4> QED
        BY <1>3, <4>2, EmptySeq
    <3>4. From(<<>>, 0 + 1) = <<>>
      <4>1. <<>> \in Seq(Items) /\ Len(<<>>) = 0
        OBVIOUS
      <4> QED
        BY <4>1, SubSeqEmpty DEF From
    <3> QED
      BY <2>1, <2>2, <3>1, <3>4
  <2>4. OutputExact'
    BY <1>2, <2>1, <2>3 DEF OutputExact, IInv
  <2>5. Phases'
    <3>1. pc' # "flush" /\ None \notin AfterFlush
      BY <1>1, <2>1 DEF AfterFlush, StreamAssumption
    <3>2. then' \notin {"select", "read", "recv", "write", "wrecv"}
      BY <2>1, <3>1 DEF AfterFlush
    <3>3. pc' \in {"select", "read", "recv", "deliver", "write", "wrecv"} => established'
      BY <1>1, <1>2, <2>1 DEF IInv, Phases, AfterFlush, InputVars
    <3>4. pc' = "recv" => rbio' = <<>> /\ ~eof'
      BY <1>1, <1>2, <2>1 DEF IInv, Phases, InFlush, InputVars
    <3> QED
      BY <3>1, <3>2, <3>3, <3>4 DEF Phases, InFlush
  <2>6. /\ pc' \in states /\ then' \in AfterFlush \cup {None}
        /\ wbio' \in Seq(Items) /\ flushed' \in 0 .. Len(wbio')
        /\ sockOut' \in Seq(Items) /\ Len(sockOut') <= Room
    BY <1>1, <2>1 DEF AfterFlush
  <2> QED
    BY <1>2, <1>4, <2>4, <2>5, <2>6, OnlyWrites
<1> QED
  BY <1>5, <1>6

LEMMA RequestKeyUpdateStep ==
    ASSUME StreamAssumption, IInv, RequestKeyUpdate
    PROVE  IInv'
<1>1. /\ UNCHANGED <<role, InputVars, age, quiet, result, pc, then, out>>
      /\ UNCHANGED <<peerGot, sockOut, flushed>>
      /\ wbio' = Append(wbio, Rekey) /\ produced' = Append(produced, Rekey)
      /\ writes < MaxWrites /\ writes' = writes + 1
  BY DEF RequestKeyUpdate, InputVars, peerVars
<1>2. /\ wbio' = wbio \o <<Rekey>> /\ produced' = produced \o <<Rekey>> /\ <<Rekey>> \in Seq(Items)
  <2>1. wbio \in Seq(Items) /\ produced \in Seq(Items) /\ Rekey \in Items
    BY DEF IInv, TypeOK, Items
  <2> QED
    BY <1>1, <2>1, AppendIsConcat, OctetType
<1>3. /\ OutputExact' /\ wbio' \in Seq(Items) /\ produced' \in Seq(Items)
      /\ flushed' \in 0 .. Len(wbio')
  BY <1>1, <1>2, Produces DEF IInv, OutputExact
<1>4. writes' \in 0 .. MaxWrites
  <2>1. writes \in 0 .. MaxWrites /\ MaxWrites \in Nat
    BY DEF IInv, TypeOK, StreamAssumption
  <2> QED
    BY <1>1, <2>1
<1>5. Phases' /\ (Ended => Ended')
  BY <1>1 DEF IInv, Phases, InFlush, InputVars, Ended
<1>6. /\ pc' \in {"process", "hsrecv", "select", "flush", "read", "recv", "deliver", "write",
                  "wrecv", "closing", "dead"}
      /\ then' \in AfterFlush \cup {None} /\ out' \in Seq(Nat)
      /\ peerGot' \in Seq(Items) /\ sockOut' \in Seq(Items) /\ Len(sockOut') <= Room
  BY <1>1 DEF IInv, TypeOK
<1> QED
  BY <1>1, <1>3, <1>4, <1>5, <1>6, OnlyWrites

LEMMA WriteStep ==
    ASSUME StreamAssumption, IInv, Write
    PROVE  IInv'
<1>1. /\ UNCHANGED <<role, InputVars, age, quiet, result, writes, peerGot, sockOut, flushed>>
      /\ pc = "write" /\ established
  BY DEF Write, InputVars, peerVars, IInv, Phases
<1>2. \E t \in Seq(Items) : wbio' = wbio \o t /\ produced' = produced \o t /\ out' \in Seq(Nat)
  <2>1. out \in Seq(Nat) /\ wbio \in Seq(Items) /\ produced \in Seq(Items)
    BY DEF IInv, TypeOK
  <2>2. CASE UNCHANGED <<wbio, produced, out>>
    <3>1. wbio \o <<>> = wbio /\ produced \o <<>> = produced /\ <<>> \in Seq(Items)
      BY <2>1, ConcatEmptySeq
    <3> QED
      BY <2>1, <2>2, <3>1
  <2>3. CASE ~UNCHANGED <<wbio, produced, out>>
    <3>1. PICK n \in 1 .. Len(out) :
              /\ wbio' = wbio \o Take(out, n) /\ produced' = produced \o Take(out, n)
              /\ out' = From(out, n + 1)
      BY <2>3 DEF Write
    <3>2. n \in 0 .. Len(out)
      BY <3>1
    <3>3. Take(out, n) \in Seq(Nat) /\ From(out, n + 1) \in Seq(Nat)
      BY <2>1, <3>2, Cut, Zenon
    <3>4. Take(out, n) \in Seq(Items)
      BY <3>3, SeqOfItems
    <3> QED
      BY <3>1, <3>3, <3>4
  <2> QED
    BY <2>2, <2>3
<1>3. /\ OutputExact' /\ wbio' \in Seq(Items) /\ produced' \in Seq(Items)
      /\ flushed' \in 0 .. Len(wbio') /\ out' \in Seq(Nat)
  BY <1>1, <1>2, Produces DEF IInv, OutputExact
<1>4. /\ then' \in AfterFlush \cup {None}
      /\ \/ pc' = "select"
         \/ pc' = "flush" /\ then' \in {"write", "wrecv"}
  BY DEF Write, AfterFlush, IInv, TypeOK
<1>5. Phases'
  BY <1>1, <1>4 DEF Phases, InFlush, InputVars, StreamAssumption, AfterFlush
<1>6. /\ pc' \in {"process", "hsrecv", "select", "flush", "read", "recv", "deliver", "write",
                  "wrecv", "closing", "dead"}
      /\ writes' \in 0 .. MaxWrites /\ (Ended => Ended')
      /\ peerGot' \in Seq(Items) /\ sockOut' \in Seq(Items) /\ Len(sockOut') <= Room
  BY <1>1, <1>4 DEF IInv, TypeOK, Ended
<1> QED
  BY <1>1, <1>3, <1>4, <1>5, <1>6, OnlyWrites

LEMMA ShutdownCleanStep ==
    ASSUME StreamAssumption, IInv, ShutdownClean
    PROVE  IInv'
<1> DEFINE all == wbio \o <<Notify>>
<1>1. /\ peerGot \in Seq(Items) /\ sockOut \in Seq(Items) /\ wbio \in Seq(Items)
      /\ produced \in Seq(Items) /\ flushed \in 0 .. Len(wbio) /\ Notify \in Items
      /\ Len(sockOut) \in Nat /\ Room \in Nat /\ Len(sockOut) <= Room
  BY LenProperties DEF IInv, TypeOK, Items, StreamAssumption
<1>2. Append(wbio, Notify) = all /\ Append(produced, Notify) = produced \o <<Notify>> /\ <<Notify>> \in Seq(Items)
  BY <1>1, AppendIsConcat, OctetType
<1>3. PICK n \in 0 .. Room - Len(sockOut) :
          /\ flushed + n <= Len(all)
          /\ sockOut' = sockOut \o SubSeq(all, flushed + 1, flushed + n)
          /\ wbio' = all /\ flushed' = flushed + n
  BY <1>2 DEF ShutdownClean, FlushFrom
<1>4. /\ UNCHANGED <<role, InputVars, age, quiet, result, then, out, writes, peerGot>>
      /\ pc = "closing" /\ pc' = "dead" /\ produced' = produced \o <<Notify>>
  BY <1>2 DEF ShutdownClean, InputVars, peerVars
<1>5. /\ peerGot \o sockOut \o From(all, flushed + 1) = produced'
      /\ all \in Seq(Items) /\ flushed \in 0 .. Len(all) /\ produced' \in Seq(Items)
  BY <1>2, <1>4, Produces DEF IInv
<1> HIDE DEF all
<1>6. n \in 0 .. Len(all) - flushed
  <2>1. Len(all) \in Nat
    BY <1>5, LenProperties
  <2> QED
    BY <1>1, <1>3, <1>5, <2>1
<1>7. /\ peerGot \o sockOut' \o From(all, (flushed + n) + 1) = peerGot \o sockOut \o From(all, flushed + 1)
      /\ sockOut' \in Seq(Items) /\ Len(sockOut') = Len(sockOut) + n /\ flushed' \in 0 .. Len(all)
  <2>1. Wrote(peerGot, sockOut, all, flushed, n)
    BY <1>1, <1>5, <1>6, Written, Zenon
  <2> QED
    BY <1>3, <2>1, Zenon DEF Wrote
<1>8. OutputExact'
  BY <1>3, <1>4, <1>5, <1>7 DEF OutputExact
<1>9. Len(sockOut') <= Room
  BY <1>1, <1>3, <1>7
<1>10. Phases' /\ (Ended => Ended')
  BY <1>4 DEF IInv, Phases, InFlush, InputVars, Ended
<1>11. /\ then' \in AfterFlush \cup {None} /\ out' \in Seq(Nat) /\ writes' \in 0 .. MaxWrites
       /\ wbio' \in Seq(Items) /\ flushed' \in 0 .. Len(wbio') /\ peerGot' \in Seq(Items)
  BY <1>1, <1>3, <1>4, <1>5, <1>7 DEF IInv, TypeOK
<1> QED
  BY <1>4, <1>5, <1>7, <1>8, <1>9, <1>10, <1>11, OnlyWrites

-----------------------------------------------------------------------------
(* Steps on the input.                                                     *)

\* What is unread is what the two buffers hold together.
LEMMA LostIs ==
    ASSUME NEW d \in Seq(Seq(Nat)), NEW b \in Seq(Nat), NEW r \in Seq(Items), NEW k \in Seq(Items)
    PROVE  /\ FlattenSeq(d) \o b \o Data(r) \o Data(k) = (FlattenSeq(d) \o b) \o Data(r \o k)
           /\ FlattenSeq(d) \o b \in Seq(Nat)
<1> DEFINE p == FlattenSeq(d) \o b
<1>1. p \in Seq(Nat) /\ Data(r) \in Seq(Nat) /\ Data(k) \in Seq(Nat)
  BY FlattenType, DataType, ConcatProperties
<1> HIDE DEF p
<1>2. (p \o Data(r)) \o Data(k) = p \o (Data(r) \o Data(k))
  BY <1>1, Associative, Zenon
<1>3. Data(r) \o Data(k) = Data(r \o k)
  BY DataConcat
<1> QED
  BY <1>1, <1>2, <1>3 DEF p

LEMMA InputTypes ==
    ASSUME StreamAssumption, TypeOK
    PROVE  /\ sockIn \in Seq(Items) /\ rbio \in Seq(Items) /\ Pipe \in Seq(Items)
           /\ Len(sockIn) \in Nat /\ Len(rbio) \in Nat /\ Len(Pipe) = Len(rbio) + Len(sockIn)
           /\ plan \in Seq(Nat \cup {Rekey}) /\ plan \in Seq(Items) /\ Len(plan) \in Nat
           /\ peer.sent \in 0 .. Len(plan) /\ peer.end \in PeerEndings \cup {None}
           /\ frame.buf \in Seq(Nat) /\ frame.target \in Nat /\ delivered \in Seq(Seq(Nat))
<1>1. sockIn \in Seq(Items) /\ rbio \in Seq(Items)
  BY DEF TypeOK
<1>2. /\ Len(sockIn) \in Nat /\ Len(rbio) \in Nat
      /\ Pipe \in Seq(Items) /\ Len(Pipe) = Len(rbio) + Len(sockIn)
  BY <1>1, ConcatProperties, LenProperties DEF Pipe
<1>3. plan \in Seq(Nat \cup {Rekey})
  BY DEF TypeOK, StreamAssumption
<1>4. plan \in Seq(Items)
  BY <1>3 DEF Items
<1>5. Len(plan) \in Nat
  BY <1>3, LenProperties
<1>6. /\ peer.sent \in 0 .. Len(plan) /\ peer.end \in PeerEndings \cup {None}
      /\ frame.buf \in Seq(Nat) /\ frame.target \in Nat /\ delivered \in Seq(Seq(Nat))
  BY DEF TypeOK
<1> QED
  BY <1>1, <1>2, <1>3, <1>4, <1>5, <1>6

LEMMA PeerSendsStep ==
    ASSUME StreamAssumption, IInv, PeerSends
    PROVE  IInv'
<1> USE DEF IInv
<1> DEFINE x == plan[peer.sent + 1]
           n == peer.sent
<1>1. /\ UNCHANGED <<role, plan, peerGot, sockOut, wbio, produced, flushed, rbio, established, eof, frame,
                     age, pc, then, out, writes, delivered, result, quiet>>
      /\ peer.end = None /\ n < Len(plan)
      /\ sockIn' = Append(sockIn, x) /\ peer' = [peer EXCEPT !.sent = n + 1]
  BY DEF PeerSends, tlsVars
<1>2. n + 1 \in 1 .. Len(plan) /\ x \in Nat \cup {Rekey} /\ x \in Items
  <2>1. n \in 0 .. Len(plan) /\ Len(plan) \in Nat /\ plan \in Seq(Nat \cup {Rekey})
    BY InputTypes
  <2>2. n + 1 \in 1 .. Len(plan)
    BY <1>1, <2>1
  <2> QED
    BY <2>1, <2>2, ElementOfSeq DEF Items
<1>3. peer'.sent = n + 1 /\ peer'.end = None /\ peer' \in [sent : 0 .. Len(plan), end : PeerEndings \cup {None}]
  <2>1. peer \in [sent : 0 .. Len(plan), end : PeerEndings \cup {None}] /\ n + 1 \in 0 .. Len(plan)
    <3>1. peer \in [sent : 0 .. Len(plan), end : PeerEndings \cup {None}]
      BY DEF TypeOK
    <3>2. n \in Nat /\ Len(plan) \in Nat
      BY InputTypes
    <3> QED
      BY <1>2, <3>1, <3>2
  <2> QED
    BY <1>1, <2>1
<1>4. sockIn' \in Seq(Items) /\ sockIn' = sockIn \o <<x>> /\ <<x>> \in Seq(Items)
  BY <1>1, <1>2, InputTypes, AppendProperties, AppendIsConcat, OctetType
<1>5. TypeOK'
  BY <1>1, <1>3, <1>4 DEF TypeOK, Ended
<1>6. InOrder'
  <2>1. Pipe' = Append(Pipe, x)
    <3>2. rbio \in Seq(Items) /\ sockIn \in Seq(Items)
      BY InputTypes
    <3>1. rbio \o (sockIn \o <<x>>) = (rbio \o sockIn) \o <<x>>
      BY <1>4, <3>2, Associative, Zenon
    <3> QED
      BY <1>1, <1>2, <1>4, <3>1, InputTypes, AppendIsConcat DEF Pipe
  <2>2. /\ Len(Pipe) \in Nat /\ Len(Pipe') = Len(Pipe) + 1 /\ Pipe'[Len(Pipe) + 1] = x
        /\ \A i \in 1 .. Len(Pipe) : Pipe'[i] = Pipe[i]
    BY <1>2, <2>1, InputTypes, AppendProperties
  <2>3. \A i \in 1 .. Len(Pipe) : Pipe[i] # Notify
    BY <1>1 DEF InOrder
  <2>4. x # Hello /\ x # Notify
    BY <1>2 DEF StreamAssumption
  <2>5. ASSUME NEW i \in 1 .. Len(Pipe')
        PROVE  /\ Pipe'[i] = Hello => ~established /\ i = 1
               /\ Pipe'[i] # Notify
    <3>1. CASE i \in 1 .. Len(Pipe)
      BY <2>2, <2>3, <3>1 DEF InOrder
    <3>2. CASE i \notin 1 .. Len(Pipe)
      <4>1. i = Len(Pipe) + 1
        BY <2>2, <3>2
      <4> QED
        BY <2>2, <2>4, <4>1
    <3> QED
      BY <3>1, <3>2
  <2>6. ~eof'
    BY <1>1 DEF InOrder
  <2> QED
    BY <1>1, <2>5, <2>6 DEF InOrder
<1>7. NothingLost'
  <2> DEFINE q == FlattenSeq(delivered) \o frame.buf \o Data(rbio)
  <2>1. q \in Seq(Nat) /\ Data(sockIn) \in Seq(Nat) /\ Octet(x) \in Seq(Nat)
    BY <1>2, InputTypes, FlattenType, DataType, ConcatProperties, OctetType
  <2>2. q \o Data(sockIn) = Data(Take(plan, n))
    BY DEF NothingLost
  <2>3. Data(sockIn') = Data(sockIn) \o Octet(x)
    BY <1>1, <1>2, InputTypes, DataAppend
  <2>4. Data(Take(plan, n + 1)) = Data(Take(plan, n)) \o Octet(x)
    <3>1. Take(plan, n) \in Seq(Items)
      BY InputTypes, Cut
    <3>2. Take(plan, n + 1) = Append(Take(plan, n), x)
      <4>1. n \in Nat /\ (n + 1) - 1 = n /\ 1 <= n + 1 /\ plan \in Seq(Items)
        BY InputTypes
      <4>3. 1 \in 1 .. Len(plan) /\ n + 1 \in 1 .. Len(plan)
        <5>1. Len(plan) \in Nat
          BY InputTypes
        <5> QED
          BY <1>2, <4>1, <5>1
      <4>2. SubSeq(plan, 1, n + 1) = SubSeq(plan, 1, (n + 1) - 1) \o <<plan[n + 1]>>
        BY <4>1, <4>3, SubSeqRecursiveSecond
      <4> QED
        BY <1>2, <3>1, <4>1, <4>2, AppendIsConcat DEF Take
    <3> QED
      BY <1>2, <3>1, <3>2, DataAppend
  <2> HIDE DEF q
  <2>5. q \o (Data(sockIn) \o Octet(x)) = (q \o Data(sockIn)) \o Octet(x)
    BY <2>1, Associative, Zenon
  <2> QED
    BY <1>1, <1>3, <2>2, <2>3, <2>4, <2>5 DEF NothingLost, q
<1>8. Phases' /\ HeadRead' /\ IdleExact' /\ FramesWhole' /\ OutputExact'
  BY <1>1 DEF Phases, InFlush, HeadRead, Ended, IdleExact, FramesWhole, OutputExact
<1>9. ClosedClean'
  BY <1>1 DEF ClosedClean
<1> QED
  BY <1>5, <1>6, <1>7, <1>8, <1>9

LEMMA PeerEndsStep ==
    ASSUME StreamAssumption, IInv, PeerEnds
    PROVE  IInv'
<1> USE DEF IInv
<1>1. PICK how \in PeerEndings :
          /\ peer.end = None /\ peer' = [peer EXCEPT !.end = how]
          /\ sockIn' = IF how = "notify" THEN Append(sockIn, Notify) ELSE sockIn
  BY DEF PeerEnds
<1>2. UNCHANGED <<role, plan, peerGot, sockOut, wbio, produced, flushed, rbio, established, eof, frame,
                  age, pc, then, out, writes, delivered, result, quiet>>
  BY DEF PeerEnds, tlsVars
<1>3. /\ peer' \in [sent : 0 .. Len(plan), end : PeerEndings \cup {None}]
      /\ peer'.end # None /\ peer'.sent = peer.sent
  <2>1. peer \in [sent : 0 .. Len(plan), end : PeerEndings \cup {None}] /\ None \notin PeerEndings
    BY DEF TypeOK, StreamAssumption
  <2> QED
    BY <1>1, <2>1
<1>4. Notify \in Items /\ Notify # Hello
  BY DEF Items, StreamAssumption
<1>5. sockIn' \in Seq(Items) /\ Data(sockIn') = Data(sockIn)
  <2>1. sockIn \in Seq(Items)
    BY InputTypes
  <2>2. Append(sockIn, Notify) \in Seq(Items)
    BY <1>4, <2>1, AppendProperties
  <2>3. Data(Append(sockIn, Notify)) = Data(sockIn)
    <3>1. Octet(Notify) = <<>> /\ Data(sockIn) \in Seq(Nat)
      BY <2>1, DataType DEF Octet, IsData
    <3> QED
      BY <1>4, <2>1, <3>1, DataAppend, ConcatEmptySeq
  <2> QED
    BY <1>1, <2>1, <2>2, <2>3
<1>6. TypeOK'
  BY <1>2, <1>3, <1>5 DEF TypeOK, Ended
<1>7. InOrder'
  <2>1. \A i \in 1 .. Len(Pipe) : Pipe[i] # Notify
    BY <1>1 DEF InOrder
  <2>2. ~eof'
    BY <1>1, <1>2 DEF InOrder
  <2>3. CASE how = "notify"
    <3>1. Pipe' = Append(Pipe, Notify)
      <4>1. /\ rbio \in Seq(Items) /\ sockIn \in Seq(Items) /\ <<Notify>> \in Seq(Items)
            /\ Pipe \in Seq(Items)
        BY <1>4, InputTypes, OctetType
      <4>2. rbio \o (sockIn \o <<Notify>>) = (rbio \o sockIn) \o <<Notify>>
        BY <4>1, Associative, Zenon
      <4> QED
        BY <1>1, <1>2, <1>4, <2>3, <4>1, <4>2, AppendIsConcat DEF Pipe
    <3>2. /\ Len(Pipe) \in Nat /\ Len(Pipe') = Len(Pipe) + 1
          /\ \A i \in 1 .. Len(Pipe) : Pipe'[i] = Pipe[i]
          /\ Pipe'[Len(Pipe) + 1] = Notify
      BY <1>4, <3>1, InputTypes, AppendProperties
    <3>3. ASSUME NEW i \in 1 .. Len(Pipe')
          PROVE  /\ Pipe'[i] = Hello => ~established /\ i = 1
                 /\ Pipe'[i] = Notify => i = Len(Pipe')
      <4>1. CASE i \in 1 .. Len(Pipe)
        BY <2>1, <3>2, <4>1 DEF InOrder
      <4>2. CASE i \notin 1 .. Len(Pipe)
        <5>1. i = Len(Pipe')
          BY <3>2, <4>2
        <5> QED
          BY <1>4, <3>2, <5>1
      <4> QED
        BY <4>1, <4>2
    <3> QED
      BY <1>2, <1>3, <2>2, <3>3 DEF InOrder
  <2>4. CASE how # "notify"
    <3>1. Pipe' = Pipe
      BY <1>1, <1>2, <2>4 DEF Pipe
    <3> QED
      BY <1>2, <1>3, <2>1, <2>2, <3>1 DEF InOrder
  <2> QED
    BY <2>3, <2>4
<1>8. NothingLost'
  BY <1>2, <1>3, <1>5 DEF NothingLost
<1>9. Phases' /\ HeadRead' /\ IdleExact' /\ FramesWhole' /\ OutputExact'
  BY <1>2 DEF Phases, InFlush, HeadRead, Ended, IdleExact, FramesWhole, OutputExact
<1>10. ClosedClean'
  BY <1>1, <1>2 DEF ClosedClean
<1> QED
  BY <1>6, <1>7, <1>8, <1>9, <1>10

\* receive moves items from the socket to the connection, or sees the end.
Received ==
    \/ rbio' \o sockIn' = rbio \o sockIn /\ rbio' \in Seq(Items) /\ sockIn' \in Seq(Items) /\ ~eof'
    \/ UNCHANGED <<rbio, sockIn>> /\ eof' /\ sockIn = <<>> /\ peer.end # None

LEMMA ReceivedKept ==
    ASSUME StreamAssumption, IInv, Received, ~Ended,
           UNCHANGED <<role, plan, peer, established, frame, delivered, OutputVars, age, quiet, out, writes>>,
           pc' \in {"process", "hsrecv", "select", "flush", "read", "recv", "deliver", "write",
                    "wrecv", "closing", "dead"},
           then' \in AfterFlush \cup {None}, eof' \in BOOLEAN,
           result' \in Results \cup {None}, result' = "closed" => result = "closed", Phases'
    PROVE  IInv'
<1> USE DEF IInv
<1>1. rbio' \in Seq(Items) /\ sockIn' \in Seq(Items) /\ Pipe' = Pipe
  <2>1. rbio \in Seq(Items) /\ sockIn \in Seq(Items)
    BY InputTypes
  <2> QED
    BY <2>1 DEF Received, Pipe
<1>2. TypeOK'
  BY <1>1 DEF TypeOK, Ended, OutputVars
<1>3. InOrder'
  BY <1>1 DEF InOrder, Received
<1>4. NothingLost'
  <2>1. /\ delivered \in Seq(Seq(Nat)) /\ frame.buf \in Seq(Nat) /\ rbio \in Seq(Items) /\ sockIn \in Seq(Items)
    BY InputTypes
  <2>2. FlattenSeq(delivered) \o frame.buf \o Data(rbio') \o Data(sockIn')
            = (FlattenSeq(delivered) \o frame.buf) \o Data(rbio' \o sockIn')
    BY <1>1, <2>1, LostIs
  <2>3. FlattenSeq(delivered) \o frame.buf \o Data(rbio) \o Data(sockIn)
            = (FlattenSeq(delivered) \o frame.buf) \o Data(rbio \o sockIn)
    BY <2>1, LostIs
  <2> QED
    BY <1>1, <2>2, <2>3 DEF NothingLost, Pipe
<1>5. HeadRead' /\ IdleExact' /\ FramesWhole'
  BY DEF HeadRead, Ended, IdleExact, FramesWhole
<1>6. ClosedClean'
  BY DEF ClosedClean
<1>7. OutputExact'
  BY OutputKept
<1> QED
  BY <1>2, <1>3, <1>4, <1>5, <1>6, <1>7

LEMMA MovedIn ==
    ASSUME StreamAssumption, IInv, NEW n \in {1, Len(sockIn)}, sockIn # <<>>,
           rbio' = rbio \o Take(sockIn, n), sockIn' = From(sockIn, n + 1), eof' = eof
    PROVE  Received
<1>1. rbio \in Seq(Items) /\ sockIn \in Seq(Items) /\ n \in 0 .. Len(sockIn)
  <2>1. sockIn \in Seq(Items) /\ Len(sockIn) \in Nat \ {0} /\ rbio \in Seq(Items)
    BY InputTypes, EmptySeq DEF IInv
  <2> QED
    BY <2>1
<1> DEFINE a == Take(sockIn, n)
           b == From(sockIn, n + 1)
<1>2. a \in Seq(Items) /\ b \in Seq(Items) /\ a \o b = sockIn
  BY <1>1, Cut, Zenon
<1>3. ~eof
  BY DEF IInv, InOrder
<1> HIDE DEF a, b
<1>4. rbio \o a \in Seq(Items) /\ (rbio \o a) \o b = rbio \o sockIn
  <2>1. (rbio \o a) \o b = rbio \o (a \o b)
    BY <1>1, <1>2, Associative, Zenon
  <2> QED
    BY <1>1, <1>2, <2>1, ConcatProperties
<1> QED
  BY <1>2, <1>3, <1>4 DEF Received, a, b

\* A receive is not the one that follows an empty connection: what it leads to
\* starts with a read, a write or the handshake.
LEMMA ReceiveStep ==
    ASSUME StreamAssumption, IInv, HandshakeReceive \/ ReadReceive \/ WriteReceive
    PROVE  IInv'
<1>1. /\ UNCHANGED <<role, plan, peer, established, frame, delivered, OutputVars, age, quiet, out, writes>>
      /\ ~Ended
  BY DEF HandshakeReceive, ReadReceive, WriteReceive, OutputVars, Ended
<1>2. /\ \/ \E n \in {1, Len(sockIn)} :
                /\ rbio' = rbio \o Take(sockIn, n) /\ sockIn' = From(sockIn, n + 1)
                /\ sockIn # <<>> /\ eof' = eof
         \/ UNCHANGED <<rbio, sockIn>> /\ eof' = TRUE /\ sockIn = <<>> /\ peer.end # None
  BY DEF HandshakeReceive, ReadReceive, WriteReceive, Receive
<1>3. Received
  BY <1>2, MovedIn DEF Received
<1>4. eof' \in BOOLEAN
  BY <1>2 DEF IInv, TypeOK
<1>5. result' = result \/ result' \in {"eof in handshake", "eof in write"}
  BY DEF HandshakeReceive, ReadReceive, WriteReceive, Receive, Dies
<1>6. \/ pc' \in {"closing", "dead", "process"} /\ then' = then
      \/ pc = "recv" /\ pc' = "flush" /\ then' = "read"
      \/ pc = "wrecv" /\ pc' = "write" /\ then' = then
  <2>1. CASE HandshakeReceive
    BY <2>1 DEF HandshakeReceive, Receive, Dies
  <2>2. CASE ReadReceive
    BY <2>2 DEF ReadReceive, Receive
  <2>3. CASE WriteReceive
    BY <2>3 DEF WriteReceive, Receive, Dies
  <2> QED
    BY <2>1, <2>2, <2>3
<1>7. Phases'
  <2>1. CASE pc' \in {"closing", "dead", "process"} /\ then' = then
    BY <1>1, <2>1 DEF IInv, Phases, InFlush
  <2>2. CASE pc = "recv" /\ pc' = "flush" /\ then' = "read"
    BY <1>1, <2>2 DEF IInv, Phases, InFlush, StreamAssumption, AfterFlush
  <2>3. CASE pc = "wrecv" /\ pc' = "write" /\ then' = then
    BY <1>1, <2>3 DEF IInv, Phases, InFlush
  <2> QED
    BY <1>6, <2>1, <2>2, <2>3
<1>8. /\ pc' \in {"process", "hsrecv", "select", "flush", "read", "recv", "deliver", "write",
                  "wrecv", "closing", "dead"}
      /\ then' \in AfterFlush \cup {None}
  BY <1>6 DEF IInv, TypeOK, AfterFlush
<1>9. result' \in Results \cup {None} /\ (result' = "closed" => result = "closed")
  BY <1>5 DEF IInv, TypeOK, Results
<1> QED
  BY <1>1, <1>3, <1>4, <1>7, <1>8, <1>9, ReceivedKept

\* What is left unread when the connection gives up its first n items.
LEMMA Consumed ==
    ASSUME StreamAssumption, IInv, NEW n \in 1 .. Len(rbio), rbio' = From(rbio, n + 1),
           UNCHANGED <<sockIn, peer, eof>>
    PROVE  InOrder' /\ rbio' \in Seq(Items)
<1> USE DEF IInv
<1>1. rbio \in Seq(Items) /\ sockIn \in Seq(Items) /\ n \in 0 .. Len(rbio) /\ n \in Nat /\ n >= 1
  <2>1. rbio \in Seq(Items) /\ sockIn \in Seq(Items) /\ Len(rbio) \in Nat
    BY InputTypes
  <2> QED
    BY <2>1
<1>2. rbio' \in Seq(Items)
  BY <1>1, Cut, Zenon
<1>3. /\ Len(Pipe) \in Nat /\ Len(Pipe') = Len(Pipe) - n
      /\ \A i \in 1 .. Len(Pipe) - n : Pipe'[i] = Pipe[i + n]
  <2>1. Len(Pipe) \in Nat
    BY <1>1, CutPipe DEF Pipe
  <2>2. Len(From(rbio, n + 1) \o sockIn) = Len(rbio \o sockIn) - n
    BY <1>1, CutPipe, Zenon
  <2>3. \A i \in 1 .. Len(rbio \o sockIn) - n : (From(rbio, n + 1) \o sockIn)[i] = (rbio \o sockIn)[i + n]
    BY <1>1, CutPipe, Zenon
  <2> QED
    BY <2>1, <2>2, <2>3 DEF Pipe
<1>4. ASSUME NEW i \in 1 .. Len(Pipe')
      PROVE  /\ Pipe'[i] # Hello
             /\ Pipe'[i] = Notify => i = Len(Pipe') /\ peer.end # None
  <2>1. i + n \in 1 .. Len(Pipe) /\ i + n # 1 /\ Pipe'[i] = Pipe[i + n]
    BY <1>1, <1>3
  <2>2. Pipe[i + n] # Hello
    BY <2>1 DEF InOrder
  <2>3. Pipe[i + n] = Notify => i + n = Len(Pipe) /\ peer.end # None
    BY <2>1 DEF InOrder
  <2>4. i + n = Len(Pipe) => i = Len(Pipe')
    <3>1. \A a, b, c \in Int : a + b = c => a = c - b
      OBVIOUS
    <3>2. i \in Int /\ n \in Int /\ Len(Pipe) \in Int
      BY <1>1, <1>3
    <3> QED
      BY <1>3, <3>1, <3>2, Zenon
  <2> QED
    BY <2>1, <2>2, <2>3, <2>4
<1>5. eof' => sockIn' = <<>> /\ peer'.end # None
  BY DEF InOrder
<1> QED
  BY <1>2, <1>4, <1>5 DEF InOrder

\* An item that is no octet is gone from the connection.
LEMMA HeadGone ==
    ASSUME StreamAssumption, IInv, rbio # <<>>, ~IsData(Head(rbio)), rbio' = Tail(rbio),
           UNCHANGED <<plan, peer, sockIn, eof, frame, delivered>>
    PROVE  InOrder' /\ NothingLost' /\ rbio' \in Seq(Items)
<1> USE DEF IInv
<1>1. rbio \in Seq(Items) /\ sockIn \in Seq(Items) /\ Len(rbio) \in Nat
  BY InputTypes
<1> DEFINE x == rbio[1]
<1>2. /\ 1 \in 0 .. Len(rbio) /\ Tail(rbio) = From(rbio, 1 + 1) /\ Take(rbio, 1) = <<x>>
      /\ x \in Items /\ ~IsData(x)
  BY <1>1, CutHead
<1>3. InOrder' /\ rbio' \in Seq(Items)
  <2>1. 1 \in 1 .. Len(rbio)
    BY <1>1, <1>2
  <2> QED
    BY <1>2, <2>1, Consumed
<1>4. Data(rbio) = Data(rbio')
  <2>1. Take(rbio, 1) \o From(rbio, 1 + 1) = rbio
    BY <1>1, <1>2, Cut, Zenon
  <2>2. <<x>> \o rbio' = rbio /\ <<x>> \in Seq(Items)
    BY <1>2, <2>1, OctetType
  <2>3. Data(<<x>>) = <<>>
    BY <1>2, DataOne DEF Octet
  <2>4. Data(<<x>> \o rbio') = Data(<<x>>) \o Data(rbio')
    BY <1>3, <2>2, DataConcat
  <2>5. Data(rbio') \in Seq(Nat)
    BY <1>3, DataType
  <2> QED
    BY <2>2, <2>3, <2>4, <2>5, ConcatEmptySeq
<1>5. NothingLost'
  BY <1>4 DEF NothingLost
<1> QED
  BY <1>3, <1>5

\* The handshake or a key update is answered with x.
LEMMA Answered ==
    ASSUME StreamAssumption, IInv, NEW x \in Items, wbio' = Append(wbio, x),
           produced' = Append(produced, x), UNCHANGED <<peerGot, sockOut, flushed>>
    PROVE  /\ OutputExact' /\ wbio' \in Seq(Items) /\ produced' \in Seq(Items)
           /\ flushed' \in 0 .. Len(wbio')
<1>1. wbio' = wbio \o <<x>> /\ produced' = produced \o <<x>> /\ <<x>> \in Seq(Items)
  <2>1. wbio \in Seq(Items) /\ produced \in Seq(Items)
    BY DEF IInv, TypeOK
  <2> QED
    BY <2>1, AppendIsConcat, OctetType
<1> QED
  BY <1>1, Produces DEF IInv, OutputExact

LEMMA ReadRekeyStep ==
    ASSUME StreamAssumption, IInv, ReadRekey
    PROVE  IInv'
<1> USE DEF IInv
<1>1. UNCHANGED <<role, plan, peer, sockIn, peerGot, sockOut, established, flushed, eof, frame, age, pc,
                  then, out, writes, delivered, result, quiet>>
  BY DEF ReadRekey, peerVars
<1>2. /\ pc = "read" /\ rbio # <<>> /\ ~IsData(Head(rbio)) /\ rbio' = Tail(rbio)
      /\ wbio' = Append(wbio, Rekey) /\ produced' = Append(produced, Rekey)
  BY DEF ReadRekey, IsData
<1>3. InOrder' /\ NothingLost' /\ rbio' \in Seq(Items)
  BY <1>1, <1>2, HeadGone
<1>4. /\ OutputExact' /\ wbio' \in Seq(Items) /\ produced' \in Seq(Items)
      /\ flushed' \in 0 .. Len(wbio')
  BY <1>1, <1>2, Answered DEF Items
<1>5. TypeOK'
  BY <1>1, <1>3, <1>4 DEF TypeOK, Ended
<1>6. Phases' /\ HeadRead' /\ IdleExact' /\ FramesWhole'
  BY <1>1, <1>2 DEF Phases, InFlush, HeadRead, Ended, IdleExact, FramesWhole
<1>7. ClosedClean'
  BY <1>1 DEF ClosedClean
<1> QED
  BY <1>3, <1>4, <1>5, <1>6, <1>7

LEMMA ProcessStep ==
    ASSUME StreamAssumption, IInv, Process
    PROVE  IInv'
<1>1. UNCHANGED <<role, plan, peer, sockIn, peerGot, sockOut, flushed, eof, frame, age,
                  out, writes, delivered, result, quiet>>
  BY DEF Process, peerVars
<1>2. pc = "process" /\ pc' = "flush"
  BY DEF Process
<1>3. CASE rbio # <<>> /\ Head(rbio) = Hello
  <2> USE DEF IInv
  <2>1. /\ established' /\ established' \in BOOLEAN /\ rbio' = Tail(rbio) /\ ~IsData(Head(rbio))
        /\ wbio' = Append(wbio, Hello) /\ produced' = Append(produced, Hello)
        /\ then' = "select"
    BY <1>3 DEF Process, IsData
  <2>2. InOrder' /\ NothingLost' /\ rbio' \in Seq(Items)
    BY <1>1, <1>3, <2>1, HeadGone
  <2>3. /\ OutputExact' /\ wbio' \in Seq(Items) /\ produced' \in Seq(Items)
        /\ flushed' \in 0 .. Len(wbio')
    BY <1>1, <2>1, Answered DEF Items
  <2>4. TypeOK'
    BY <1>1, <1>2, <2>1, <2>2, <2>3 DEF TypeOK, Ended, AfterFlush
  <2>5. Phases'
    BY <1>2, <2>1 DEF Phases, InFlush, StreamAssumption, AfterFlush
  <2>6. HeadRead' /\ IdleExact' /\ FramesWhole'
    BY <1>1, <1>2 DEF HeadRead, Ended, IdleExact, FramesWhole
  <2>7. ClosedClean'
    BY <1>1 DEF ClosedClean
  <2> QED
    BY <2>2, <2>3, <2>4, <2>5, <2>6, <2>7
<1>4. CASE ~(rbio # <<>> /\ Head(rbio) = Hello)
  <2>1. then' = "hsrecv" /\ UNCHANGED <<rbio, wbio, established, produced>>
    BY <1>4 DEF Process, tlsVars
  <2>2. Phases'
    BY <1>2, <2>1 DEF Phases, InFlush, StreamAssumption, AfterFlush
  <2>3. ~Ended /\ UNCHANGED <<role, InputVars, OutputVars, age, quiet, result>>
    BY <1>1, <1>2, <2>1 DEF InputVars, OutputVars, Ended
  <2>4. /\ then' \in AfterFlush \cup {None} /\ out' \in Seq(Nat) /\ writes' \in 0 .. MaxWrites
        /\ result' \in Results \cup {None}
    BY <1>1, <2>1 DEF IInv, TypeOK, AfterFlush
  <2> QED
    BY <1>2, <2>2, <2>3, <2>4, OnlyMoves
<1> QED
  BY <1>3, <1>4

\* ReadPlain gives the frame the first n octets of the connection.
LEMMA PlainTaken ==
    ASSUME StreamAssumption, IInv, NEW n \in 1 .. Len(Plain)
    PROVE  /\ n \in 1 .. Len(rbio) /\ Take(Plain, n) \in Seq(Nat) /\ Len(Take(Plain, n)) = n
           /\ Data(rbio) = Take(Plain, n) \o Data(From(rbio, n + 1))
<1>1. rbio \in Seq(Items) /\ Len(rbio) \in Nat
  BY InputTypes DEF IInv
<1>2. PICK k \in 0 .. Len(rbio) : Plain = Take(rbio, k) /\ \A i \in 1 .. k : IsData(rbio[i])
  BY <1>1, PlainIs
<1>3. Len(Plain) = k /\ Plain \in Seq(Items) /\ \A i \in 1 .. k : Plain[i] = rbio[i]
  BY <1>1, <1>2, Cut
<1>4. n \in 1 .. k /\ n \in 0 .. Len(Plain) /\ n \in 0 .. Len(rbio) /\ n \in 1 .. Len(rbio) /\ n \in Nat
  BY <1>1, <1>2, <1>3
<1> DEFINE t == Take(Plain, n)
           u == Take(rbio, n)
           r == From(rbio, n + 1)
<1>5. t \in Seq(Items) /\ Len(t) = n /\ \A i \in 1 .. n : t[i] = Plain[i]
  BY <1>3, <1>4, Cut, Zenon
<1>6. /\ u \in Seq(Items) /\ Len(u) = n /\ \A i \in 1 .. n : u[i] = rbio[i]
      /\ r \in Seq(Items) /\ u \o r = rbio
  BY <1>1, <1>4, Cut, Zenon
<1> HIDE DEF t, u, r
<1>7. \A i \in 1 .. n : i \in 1 .. k
  BY <1>2, <1>4
<1>8. t = u
  <2>1. \A i \in 1 .. n : t[i] = u[i]
    BY <1>3, <1>5, <1>6, <1>7, Zenon
  <2> QED
    BY <1>5, <1>6, <2>1, SeqEqual
<1>9. Data(t) = t /\ t \in Seq(Nat)
  <2>1. \A i \in 1 .. Len(t) : IsData(t[i])
    BY <1>2, <1>5, <1>6, <1>7, <1>8, Zenon
  <2>2. Data(t) = t
    BY <1>5, <2>1, DataAll
  <2> QED
    BY <1>5, <2>2, DataType
<1>10. Data(t \o r) = Data(t) \o Data(r)
  BY <1>5, <1>6, DataConcat
<1> QED
  BY <1>4, <1>5, <1>6, <1>8, <1>9, <1>10 DEF t, r

\* What Extended makes of the octets b, of which there are no more than the
\* reader asked for.
LEMMA ExtendedIs ==
    ASSUME StreamAssumption, IInv, ~Ended, NEW b \in Seq(Nat), Len(b) <= frame.target,
           frame.target # FrameHead => FrameHead <= Len(b) /\ b[FrameHead] = frame.target
    PROVE  \/ /\ Extended(b).do = "flush" /\ Extended(b).frame \in [buf : Seq(Nat), target : Nat]
              /\ Extended(b).frame.buf = b /\ Len(b) < Extended(b).frame.target
              /\ Extended(b).frame.target \in {FrameHead} \cup MinFrame .. MaxFrame
              /\ Extended(b).frame.target # FrameHead =>
                    FrameHead <= Len(b) /\ b[FrameHead] = Extended(b).frame.target
           \/ /\ Extended(b).do = "closing" /\ Extended(b).frame \in [buf : Seq(Nat), target : Nat]
              /\ Extended(b).frame.buf = b
           \/ /\ Extended(b).do = "deliver" /\ Extended(b).frame = EmptyFrame
              /\ Len(b) \in MinFrame .. MaxFrame /\ b[FrameHead] = Len(b)
<1>1. /\ frame \in [buf : Seq(Nat), target : Nat] /\ frame.target \in {FrameHead} \cup MinFrame .. MaxFrame
      /\ FrameHead \in Nat \ {0} /\ MinFrame \in Nat /\ MaxFrame \in Nat /\ FrameHead < MinFrame
      /\ Len(b) \in Nat
  BY LenProperties DEF IInv, TypeOK, StreamAssumption
<1>2. CASE Len(b) < frame.target
  <2>1. Extended(b) = [do |-> "flush", frame |-> [frame EXCEPT !.buf = b]]
    BY <1>2 DEF Extended
  <2>2. [frame EXCEPT !.buf = b] = [buf |-> b, target |-> frame.target]
    BY <1>1
  <2> QED
    BY <1>1, <1>2, <2>1, <2>2
<1>3. CASE ~(Len(b) < frame.target)
  <2>1. Len(b) = frame.target
    BY <1>1, <1>3
  <2>2. CASE frame.target = FrameHead /\ GoodLength(b[FrameHead])
    <3>1. Extended(b) = [do |-> "flush", frame |-> [buf |-> b, target |-> b[FrameHead]]]
      BY <1>3, <2>2 DEF Extended
    <3>2. b[FrameHead] \in MinFrame .. MaxFrame /\ b[FrameHead] \in Nat /\ Len(b) < b[FrameHead]
      BY <1>1, <2>1, <2>2 DEF GoodLength
    <3> QED
      BY <1>1, <2>1, <2>2, <3>1, <3>2
  <2>3. CASE frame.target = FrameHead /\ ~GoodLength(b[FrameHead])
    <3>1. Extended(b) = [do |-> "closing", frame |-> [buf |-> b, target |-> b[FrameHead]]]
      BY <1>3, <2>3 DEF Extended
    <3>2. b[FrameHead] \in Nat
      <4>1. FrameHead \in 1 .. Len(b)
        BY <1>1, <2>1, <2>3
      <4> QED
        BY <4>1, ElementOfSeq
    <3> QED
      BY <3>1, <3>2
  <2>4. CASE frame.target # FrameHead
    <3>1. Extended(b) = [do |-> "deliver", frame |-> EmptyFrame]
      BY <1>3, <2>4 DEF Extended
    <3> QED
      BY <1>1, <2>1, <2>4, <3>1
  <2> QED
    BY <2>2, <2>3, <2>4
<1> QED
  BY <1>2, <1>3

LEMMA ReadPlainStep ==
    ASSUME StreamAssumption, IInv, ReadPlain
    PROVE  IInv'
<1>1. PICK n \in 1 .. Len(Plain) :
          /\ Len(frame.buf) + n <= frame.target
          /\ LET b == frame.buf \o Take(Plain, n)
                 x == Extended(b)
             IN /\ rbio' = From(rbio, n + 1)
                /\ frame' = x.frame
                /\ pc' = x.do
                /\ then' = IF x.do = "flush" THEN "read" ELSE None
                /\ delivered' = IF x.do = "deliver" THEN Append(delivered, b) ELSE delivered
                /\ result' = IF x.do = "closing" THEN "invalid length" ELSE None
  BY DEF ReadPlain
<1> DEFINE t == Take(Plain, n)
           b == frame.buf \o t
           x == Extended(b)
<1>2. /\ rbio' = From(rbio, n + 1) /\ frame' = x.frame /\ pc' = x.do
      /\ then' = IF x.do = "flush" THEN "read" ELSE None
      /\ delivered' = IF x.do = "deliver" THEN Append(delivered, b) ELSE delivered
      /\ result' = IF x.do = "closing" THEN "invalid length" ELSE None
  BY <1>1
<1>3. /\ UNCHANGED <<role, plan, peer, sockIn, peerGot, sockOut, wbio, established, produced, flushed,
                     eof, out, writes>>
      /\ age' = 0 /\ quiet' = 0 /\ pc = "read"
  BY DEF ReadPlain, peerVars
<1>4. ~Ended /\ established
  BY <1>3 DEF Ended, IInv, Phases
<1>5. /\ n \in 1 .. Len(rbio) /\ t \in Seq(Nat) /\ Len(t) = n
      /\ Data(rbio) = t \o Data(rbio')
  BY <1>1, <1>2, PlainTaken
<1>6. /\ frame.buf \in Seq(Nat) /\ delivered \in Seq(Seq(Nat)) /\ Len(frame.buf) \in Nat
      /\ frame.target \in Nat /\ sockIn \in Seq(Items) /\ FrameHead \in Nat \ {0}
  BY InputTypes, LenProperties DEF IInv, StreamAssumption
<1>20. n \in Nat
  <2>1. Len(rbio) \in Nat /\ n \in 1 .. Len(rbio)
    BY <1>5, InputTypes DEF IInv
  <2> QED
    BY <2>1
<1> HIDE DEF t
<1>7. /\ b \in Seq(Nat) /\ Len(b) = Len(frame.buf) + n
      /\ \A i \in 1 .. Len(frame.buf) : b[i] = frame.buf[i]
  <2>1. /\ b \in Seq(Nat) /\ Len(b) = Len(frame.buf) + Len(t)
        /\ \A i \in 1 .. Len(frame.buf) + Len(t) : b[i] = IF i <= Len(frame.buf) THEN frame.buf[i] ELSE t[i - Len(frame.buf)]
    BY <1>5, <1>6, ConcatProperties
  <2>2. \A i \in 1 .. Len(frame.buf) : i \in 1 .. Len(frame.buf) + n /\ i <= Len(frame.buf)
    BY <1>6, <1>20
  <2> QED
    BY <1>5, <2>1, <2>2
<1>8. InOrder' /\ rbio' \in Seq(Items)
  BY <1>2, <1>3, <1>5, Consumed
<1> HIDE DEF b
<1>9. frame.target # FrameHead => FrameHead <= Len(b) /\ b[FrameHead] = frame.target
  <2>1. SUFFICES ASSUME frame.target # FrameHead
                 PROVE  FrameHead <= Len(b) /\ b[FrameHead] = frame.target
    OBVIOUS
  <2>2. FrameHead <= Len(frame.buf) /\ frame.buf[FrameHead] = frame.target
    BY <1>4, <2>1 DEF IInv, HeadRead
  <2>3. FrameHead \in 1 .. Len(frame.buf) /\ FrameHead <= Len(b)
    BY <1>6, <1>7, <1>20, <2>2
  <2> QED
    BY <1>7, <2>2, <2>3
<1>10. Len(b) <= frame.target
  BY <1>1, <1>7
<1>11. \/ /\ x.do = "flush" /\ x.frame \in [buf : Seq(Nat), target : Nat]
          /\ x.frame.buf = b /\ Len(b) < x.frame.target
          /\ x.frame.target \in {FrameHead} \cup MinFrame .. MaxFrame
          /\ x.frame.target # FrameHead => FrameHead <= Len(b) /\ b[FrameHead] = x.frame.target
       \/ /\ x.do = "closing" /\ x.frame \in [buf : Seq(Nat), target : Nat]
          /\ x.frame.buf = b
       \/ /\ x.do = "deliver" /\ x.frame = EmptyFrame
          /\ Len(b) \in MinFrame .. MaxFrame /\ b[FrameHead] = Len(b)
  BY <1>4, <1>7, <1>9, <1>10, ExtendedIs
<1> HIDE DEF x
<1>12. EmptyFrame \in [buf : Seq(Nat), target : Nat] /\ EmptyFrame.buf = <<>> /\ EmptyFrame.target = FrameHead
  BY <1>6 DEF EmptyFrame
<1>13. TypeOK'
  <2>1. frame' \in [buf : Seq(Nat), target : Nat]
    BY <1>2, <1>11, <1>12
  <2>2. ~Ended' => Len(frame'.buf) < frame'.target /\ frame'.target \in {FrameHead} \cup MinFrame .. MaxFrame
    <3>1. CASE x.do = "flush"
      BY <1>2, <1>11, <3>1
    <3>2. CASE x.do = "closing"
      BY <1>2, <3>2 DEF Ended
    <3>3. CASE x.do = "deliver"
      <4>1. Len(<<>>) < FrameHead
        BY <1>6
      <4> QED
        BY <1>2, <1>11, <1>12, <3>3, <4>1
    <3> QED
      BY <1>11, <3>1, <3>2, <3>3
  <2>3. delivered' \in Seq(Seq(Nat))
    BY <1>2, <1>6, <1>7, AppendProperties
  <2>4. /\ pc' \in {"flush", "closing", "deliver"} /\ then' \in AfterFlush \cup {None}
        /\ result' \in Results \cup {None}
    BY <1>2, <1>11 DEF AfterFlush, Results
  <2>5. age' \in 0 .. Idle /\ quiet' \in Nat
    BY <1>3 DEF StreamAssumption
  <2> QED
    BY <1>3, <1>8, <2>1, <2>2, <2>3, <2>4, <2>5 DEF IInv, TypeOK
<1>14. Phases'
  <2>1. pc' \in {"flush", "closing", "deliver"} /\ (pc' = "flush" => then' = "read") /\ established'
    BY <1>2, <1>3, <1>4, <1>11
  <2> QED
    BY <2>1 DEF Phases, InFlush, StreamAssumption, AfterFlush
<1>15. HeadRead'
  <2>1. CASE x.do = "flush"
    BY <1>2, <1>11, <2>1 DEF HeadRead
  <2>2. CASE x.do = "closing"
    BY <1>2, <2>2 DEF HeadRead, Ended
  <2>3. CASE x.do = "deliver"
    BY <1>2, <1>11, <1>12, <2>3 DEF HeadRead
  <2> QED
    BY <1>11, <2>1, <2>2, <2>3
<1>16. NothingLost'
  <2> DEFINE d == FlattenSeq(delivered)
             r == Data(rbio')
             k == Data(sockIn)
  <2>1. d \in Seq(Nat) /\ r \in Seq(Nat) /\ k \in Seq(Nat)
    BY <1>6, <1>8, FlattenType, DataType
  <2>2. d \o frame.buf \o (t \o r) \o k = Data(Take(plan, peer.sent))
    BY <1>5 DEF IInv, NothingLost
  <2>3. FlattenSeq(delivered') \o frame'.buf = d \o b
    <3>1. CASE x.do = "deliver"
      <4>1. FlattenSeq(Append(delivered, b)) = d \o b /\ d \o b \in Seq(Nat)
        BY <1>6, <1>7, <2>1, FlattenAppend, ConcatProperties
      <4>2. (d \o b) \o <<>> = d \o b
        BY <4>1, ConcatEmptySeq
      <4> QED
        BY <1>2, <1>11, <1>12, <3>1, <4>1, <4>2
    <3>2. CASE x.do # "deliver"
      BY <1>2, <1>11, <3>2
    <3> QED
      BY <3>1, <3>2
  <2> HIDE DEF d, r, k
  <2>4. (d \o b) \o r = (d \o frame.buf) \o (t \o r)
    <3>1. d \o frame.buf \in Seq(Nat)
      BY <1>6, <2>1, ConcatProperties
    <3>2. d \o (frame.buf \o t) = (d \o frame.buf) \o t
      BY <1>5, <1>6, <2>1, Associative, Zenon
    <3>3. ((d \o frame.buf) \o t) \o r = (d \o frame.buf) \o (t \o r)
      BY <1>5, <2>1, <3>1, Associative, Zenon
    <3> QED
      BY <3>2, <3>3 DEF b
  <2> QED
    BY <1>3, <2>2, <2>3, <2>4 DEF NothingLost, d, r, k
<1>17. FramesWhole'
  <2>1. CASE x.do = "deliver"
    <3>1. delivered' = Append(delivered, b) /\ Len(b) \in MinFrame .. MaxFrame /\ b[FrameHead] = Len(b)
      BY <1>2, <1>11, <2>1
    <3>2. /\ Len(delivered) \in Nat /\ DOMAIN delivered = 1 .. Len(delivered)
          /\ delivered' \in Seq(Seq(Nat)) /\ Len(delivered') = Len(delivered) + 1
          /\ delivered'[Len(delivered) + 1] = b
          /\ \A i \in 1 .. Len(delivered) : delivered'[i] = delivered[i]
      BY <1>6, <1>7, <3>1, AppendProperties, LenProperties
    <3>3. DOMAIN delivered' = 1 .. Len(delivered) + 1
      BY <3>2, LenProperties
    <3>4. ASSUME NEW i \in 1 .. Len(delivered) + 1
          PROVE  Len(delivered'[i]) \in MinFrame .. MaxFrame /\ delivered'[i][FrameHead] = Len(delivered'[i])
      <4>1. CASE i \in 1 .. Len(delivered)
        BY <3>2, <4>1 DEF IInv, FramesWhole
      <4>2. CASE i \notin 1 .. Len(delivered)
        <5>1. i = Len(delivered) + 1
          BY <3>2, <4>2
        <5> QED
          BY <3>1, <3>2, <5>1
      <4> QED
        BY <4>1, <4>2
    <3> QED
      BY <3>3, <3>4 DEF FramesWhole
  <2>2. CASE x.do # "deliver"
    BY <1>2, <2>2 DEF IInv, FramesWhole
  <2> QED
    BY <2>1, <2>2
<1>18. OutputExact' /\ IdleExact'
  BY <1>3 DEF IInv, OutputExact, IdleExact
<1>19. ClosedClean'
  <2>1. result' # "closed"
    BY <1>2 DEF StreamAssumption, Results
  <2> QED
    BY <2>1 DEF ClosedClean
<1> QED
  BY <1>8, <1>13, <1>14, <1>15, <1>16, <1>17, <1>18, <1>19 DEF IInv

-----------------------------------------------------------------------------
(* The theorems.                                                           *)

LEMMA InitHolds ==
    ASSUME StreamAssumption, Init
    PROVE  IInv
<1>1. Hello \in Items /\ Len(<<>>) = 0 /\ <<Hello>> \in Seq(Items) /\ Hello # Notify
  BY OctetType DEF Items, StreamAssumption
<1>2. /\ plan \in Plans /\ plan \in Seq(Items) /\ Len(plan) \in Nat
      /\ peer \in [sent : 0 .. Len(plan), end : PeerEndings \cup {None}]
  <2>1. plan \in Plans /\ plan \in Seq(Nat \cup {Rekey}) /\ peer = [sent |-> 0, end |-> None]
    BY DEF Init, StreamAssumption
  <2>2. plan \in Seq(Items) /\ Len(plan) \in Nat
    BY <2>1, LenProperties DEF Items
  <2> QED
    BY <2>1, <2>2
<1>3. frame \in [buf : Seq(Nat), target : Nat] /\ Len(frame.buf) < frame.target /\ frame.target = FrameHead
      /\ frame.buf = <<>>
  BY DEF Init, EmptyFrame, StreamAssumption
<1>4. TypeOK
  <2>1. /\ sockIn \in Seq(Items) /\ sockOut \in Seq(Items) /\ peerGot \in Seq(Items)
        /\ rbio \in Seq(Items) /\ wbio \in Seq(Items) /\ produced \in Seq(Items)
        /\ out \in Seq(Nat) /\ delivered \in Seq(Seq(Nat))
    BY <1>1 DEF Init
  <2>2. flushed \in 0 .. Len(wbio) /\ Len(sockOut) <= Room /\ age \in 0 .. Idle /\ writes \in 0 .. MaxWrites
    BY <1>1 DEF Init, StreamAssumption
  <2>3. /\ established \in BOOLEAN /\ eof \in BOOLEAN
        /\ role \in {"server", "client"} /\ quiet \in Nat /\ then = None /\ result = None /\ pc = "process"
    BY DEF Init
  <2> QED
    BY <1>2, <1>3, <2>1, <2>2, <2>3 DEF TypeOK
<1>5. InOrder
  <2>1. Pipe = <<Hello>>
    BY <1>1, ConcatEmptySeq DEF Init, Pipe
  <2>2. Len(Pipe) = 1 /\ Pipe[1] = Hello
    BY <2>1
  <2> QED
    BY <1>1, <2>2 DEF InOrder, Init
<1>6. Phases
  BY DEF Init, Phases, InFlush, StreamAssumption, AfterFlush
<1>7. HeadRead /\ IdleExact
  BY <1>3 DEF Init, HeadRead, IdleExact
<1>8. NothingLost
  <2>1. Data(<<Hello>>) = <<>>
    BY <1>1, DataOne DEF Octet, IsData
  <2>2. Take(plan, 0) = <<>>
    BY SubSeqEmpty DEF Take
  <2>3. /\ FlattenSeq(delivered) = <<>> /\ frame.buf = <<>> /\ Data(rbio) = <<>> /\ Data(sockIn) = <<>>
        /\ Data(Take(plan, peer.sent)) = <<>>
    BY <1>3, <2>1, <2>2, FlattenEmpty, DataEmpty DEF Init
  <2>4. <<>> \o <<>> = <<>>
    OBVIOUS
  <2> QED
    BY <2>3, <2>4 DEF NothingLost
<1>9. OutputExact
  <2>1. From(<<>>, 0 + 1) = <<>>
    <3>1. <<>> \in Seq(Items) /\ Len(<<>>) = 0
      OBVIOUS
    <3> QED
      BY <3>1, SubSeqEmpty DEF From
  <2>2. <<>> \o <<>> = <<>>
    OBVIOUS
  <2> QED
    BY <2>1, <2>2 DEF Init, OutputExact
<1>10. FramesWhole
  BY DEF Init, FramesWhole
<1>11. ClosedClean
  BY DEF Init, ClosedClean, StreamAssumption, Results
<1> QED
  BY <1>4, <1>5, <1>6, <1>7, <1>8, <1>9, <1>10, <1>11 DEF IInv

LEMMA StutterHolds ==
    ASSUME IInv, UNCHANGED vars
    PROVE  IInv'
<1>1. /\ UNCHANGED <<role, InputVars, age, quiet, result, pc, then, out, writes>>
      /\ UNCHANGED OutputVars
  BY DEF vars, peerVars, tlsVars, InputVars, OutputVars
<1>2. Phases' /\ OutputExact' /\ (Ended => Ended')
  BY <1>1, OutputKept DEF IInv, Phases, InFlush, InputVars, Ended
<1>3. /\ pc' \in {"process", "hsrecv", "select", "flush", "read", "recv", "deliver", "write",
                  "wrecv", "closing", "dead"}
      /\ then' \in AfterFlush \cup {None} /\ out' \in Seq(Nat) /\ writes' \in 0 .. MaxWrites
      /\ peerGot' \in Seq(Items) /\ sockOut' \in Seq(Items) /\ wbio' \in Seq(Items)
      /\ produced' \in Seq(Items) /\ flushed' \in 0 .. Len(wbio') /\ Len(sockOut') <= Room
  BY <1>1 DEF IInv, TypeOK, OutputVars
<1> QED
  BY <1>1, <1>2, <1>3, OnlyWrites

LEMMA StepHolds ==
    ASSUME StreamAssumption, IInv, [Next]_vars
    PROVE  IInv'
<1>1. CASE Driver
  <2>1. CASE ReadRekey \/ Flush \/ Process
    BY <2>1, ReadRekeyStep, FlushStep, ProcessStep
  <2>2. CASE HandshakeReceive \/ ReadReceive \/ WriteReceive
    BY <2>2, ReceiveStep
  <2>3. CASE BeginRead \/ ReadMore \/ NoReply
    BY <2>3, MovesStep
  <2>4. CASE ReadPlain \/ ReadClosed
    BY <2>4, ReadPlainStep, ReadClosedStep
  <2>5. CASE IdleTimeout \/ WriteTimeout
    BY <2>5, TimeoutsStep
  <2>6. CASE Write \/ ShutdownClean
    BY <2>6, WriteStep, ShutdownCleanStep
  <2> QED
    BY <1>1, <2>1, <2>2, <2>3, <2>4, <2>5, <2>6 DEF Driver
<1>2. CASE HandshakeTimeout \/ Close
  BY <1>2, HandshakeTimeoutStep, TimeoutsStep
<1>3. CASE BeginWrite \/ RequestKeyUpdate
  BY <1>3, MovesStep, RequestKeyUpdateStep
<1>4. CASE PeerSends \/ PeerEnds \/ PeerTakes \/ Tick
  BY <1>4, PeerSendsStep, PeerEndsStep, PeerTakesStep, TickStep
<1>5. CASE UNCHANGED vars
  BY <1>5, StutterHolds
<1> QED
  BY <1>1, <1>2, <1>3, <1>4, <1>5 DEF Next

\* In every run of a connection and its drivers what is on its way in is the
\* handshake, then octets and key updates, then at most a close_notify; the
\* socket is waited for with an empty connection; and a frame's target is the
\* one its head has (AsyncTls and FrameReader of transport/tls.rs).
THEOREM Invariance ==
    ASSUME StreamAssumption
    PROVE  Spec => []IInv
<1>1. Init => IInv
  BY InitHolds
<1>2. IInv /\ [Next]_vars => IInv'
  BY StepHolds
<1> QED
  BY <1>1, <1>2, PTL DEF Spec

LEMMA NeverStarved ==
    ASSUME StreamAssumption, IInv
    PROVE  NoStarvation
<1>1. SUFFICES ASSUME pc = "recv" PROVE Data(rbio) = <<>> /\ ~Closed
  BY DEF NoStarvation
<1>2. rbio = <<>> /\ ~eof
  BY <1>1 DEF IInv, Phases
<1> QED
  BY <1>2, DataEmpty DEF Closed

\* For every plan of the peer, every message and every room in the socket:
\* however often a read is dropped for a write, a flush stops in its middle or
\* the peer ends its stream, FrameReader delivers the octets that were sent, in
\* order and in whole frames, the peer gets what the connection produced, and
\* the socket is waited for only when nothing is left to read.
THEOREM StreamIntactHolds ==
    ASSUME StreamAssumption
    PROVE  Spec => []StreamIntact
<1>1. IInv => StreamIntact
  BY NeverStarved DEF IInv, StreamIntact
<1> QED
  BY <1>1, Invariance, PTL

=============================================================================
