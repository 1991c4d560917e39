----------------------- MODULE OrderedCollect_proof -----------------------
(***************************************************************************)
(* Proofs about the parallel collection, for any dataset, devices, chunks, *)
(* queues and loaders: it is an ordered scan whatever the workers do, and  *)
(* one that ends well has delivered every row that was read.               *)
(***************************************************************************)
EXTENDS OrderedCollect, FiniteSetTheorems, SequenceTheorems, TLAPS

-----------------------------------------------------------------------------
(* Induction over the naturals, as the least element of a set.             *)

LEMMA LeastNatural ==
    ASSUME NEW T \in SUBSET Nat, T # {}
    PROVE  \E n \in T : \A m \in T : n <= m
<1> DEFINE R == OpToRel(<, Nat)
<1>1. IsWellFoundedOn(R, Nat)
    BY NatLessThanWellFounded
<1>2. \E x \in T : \A y \in T : <<y, x>> \notin R
    BY <1>1, WFMin
<1>3. \A x, y \in Nat : x < y => <<x, y>> \in R
    BY DEF OpToRel
<1> HIDE DEF R
<1>4. PICK x \in T : \A y \in T : <<y, x>> \notin R
    BY <1>2
<1>5. \A y \in T : ~(y < x)
    BY <1>3, <1>4
<1> QED BY <1>5

\* A set of naturals that has 0 and every successor of a member has them all.
LEMMA AllNaturals ==
    ASSUME NEW T \in SUBSET Nat, 0 \in T, \A n \in T : n + 1 \in T
    PROVE  T = Nat
<1> SUFFICES ASSUME Nat \ T # {} PROVE FALSE
    OBVIOUS
<1>1. PICK n \in Nat \ T : \A m \in Nat \ T : n <= m
    BY LeastNatural
<1>2. n - 1 \in T
    BY <1>1
<1>3. (n - 1) + 1 \in T
    BY <1>2
<1> QED BY <1>1, <1>3

-----------------------------------------------------------------------------
(* FlattenSeq.                                                             *)

\* The function its definition chooses: the first i sequences one after another.
Flattens(s, f) == f = [i \in 1 .. Len(s) |-> IF i = 1 THEN s[i] ELSE f[i - 1] \o s[i]]

LEMMA FlattenIs ==
    ASSUME NEW s
    PROVE  FlattenSeq(s) = IF Len(s) = 0 THEN s ELSE (CHOOSE f : Flattens(s, f))[Len(s)]
BY DEF FlattenSeq, Flattens

LEMMA FlattenAt ==
    ASSUME NEW s, NEW f, Flattens(s, f)
    PROVE  \A i \in 1 .. Len(s) : f[i] = IF i = 1 THEN s[i] ELSE f[i - 1] \o s[i]
BY DEF Flattens

\* It exists, and what it collects are sequences of the same elements.
LEMMA FlattenExists ==
    ASSUME NEW S, NEW s \in Seq(Seq(S))
    PROVE  \E f : Flattens(s, f) /\ \A i \in 1 .. Len(s) : f[i] \in Seq(S)
<1> DEFINE Has(u) == \E f : Flattens(u, f) /\ \A i \in 1 .. Len(u) : f[i] \in Seq(S)
           T == {n \in Nat : \A u \in Seq(Seq(S)) : Len(u) = n => Has(u)}
<1>1. 0 \in T
    <2> SUFFICES ASSUME NEW u \in Seq(Seq(S)), Len(u) = 0 PROVE Has(u)
        OBVIOUS
    <2>1. 1 .. Len(u) = {}
        OBVIOUS
    <2>2. Flattens(u, [i \in 1 .. Len(u) |-> 0])
        BY <2>1 DEF Flattens
    <2> QED BY <2>1, <2>2
<1>2. ASSUME NEW n \in T PROVE n + 1 \in T
    <2> SUFFICES ASSUME NEW u \in Seq(Seq(S)), Len(u) = n + 1 PROVE Has(u)
        OBVIOUS
    <2>1. u # <<>>
        BY EmptySeq
    <2>2. PICK v \in Seq(Seq(S)), x \in Seq(S) : u = Append(v, x)
        BY <2>1, SequenceEmptyOrAppend
    <2>3. /\ Len(v) = n /\ u[n + 1] = x
          /\ \A i \in 1 .. n : u[i] = v[i] /\ v[i] \in Seq(S)
        BY <2>2, AppendProperties, LenProperties, ElementOfSeq
    <2>4. PICK f : Flattens(v, f) /\ \A i \in 1 .. n : f[i] \in Seq(S)
        BY <2>3
    <2>5. \A i \in 1 .. n : f[i] = IF i = 1 THEN u[i] ELSE f[i - 1] \o u[i]
        BY <2>3, <2>4 DEF Flattens
    <2> DEFINE last == IF n + 1 = 1 THEN u[n + 1] ELSE f[n] \o u[n + 1]
               g == [i \in 1 .. n + 1 |-> IF i = n + 1 THEN last ELSE f[i]]
    <2>6. last \in Seq(S)
        BY <2>3, <2>4, ConcatProperties
    <2> HIDE DEF last
    <2>7. \A i \in 1 .. n + 1 : g[i] = IF i = 1 THEN u[i] ELSE g[i - 1] \o u[i]
        <3>1. g[n + 1] = IF n + 1 = 1 THEN u[n + 1] ELSE g[(n + 1) - 1] \o u[n + 1]
            BY DEF last
        <3>2. \A i \in 1 .. n : g[i] = IF i = 1 THEN u[i] ELSE g[i - 1] \o u[i]
            BY <2>5
        <3> HIDE DEF g
        <3> QED BY <3>1, <3>2
    <2>8. g = [i \in 1 .. n + 1 |-> IF i = 1 THEN u[i] ELSE g[i - 1] \o u[i]]
        BY <2>7
    <2>9. \A i \in 1 .. n + 1 : g[i] \in Seq(S)
        BY <2>4, <2>6
    <2> HIDE DEF g
    <2> QED BY <2>8, <2>9 DEF Flattens
<1> HIDE DEF Has
<1>3. T = Nat
    BY <1>1, <1>2, AllNaturals
<1>4. Has(s)
    BY <1>3, LenProperties
<1> QED BY <1>4 DEF Has

\* What it collects of the first sequences depends on these only.
LEMMA FlattenPrefix ==
    ASSUME NEW s, NEW t, NEW f, NEW g, Flattens(s, f), Flattens(t, g),
           Len(s) \in Nat, Len(t) \in Nat, Len(s) <= Len(t),
           \A i \in 1 .. Len(s) : s[i] = t[i]
    PROVE  \A i \in 1 .. Len(s) : f[i] = g[i]
<1> DEFINE T == {n \in Nat : n \in 1 .. Len(s) => f[n] = g[n]}
<1>1. 0 \in T
    OBVIOUS
<1>2. ASSUME NEW n \in T PROVE n + 1 \in T
    <2> SUFFICES ASSUME n + 1 \in 1 .. Len(s) PROVE f[n + 1] = g[n + 1]
        OBVIOUS
    <2>0. n + 1 \in 1 .. Len(s) /\ n + 1 \in 1 .. Len(t)
        OBVIOUS
    <2>1. f[n + 1] = IF n + 1 = 1 THEN s[n + 1] ELSE f[(n + 1) - 1] \o s[n + 1]
        BY <2>0, FlattenAt
    <2>2. g[n + 1] = IF n + 1 = 1 THEN t[n + 1] ELSE g[(n + 1) - 1] \o t[n + 1]
        BY <2>0, FlattenAt
    <2>3. s[n + 1] = t[n + 1]
        OBVIOUS
    <2>4. n + 1 # 1 => f[(n + 1) - 1] = g[(n + 1) - 1]
        OBVIOUS
    <2> QED BY <2>1, <2>2, <2>3, <2>4
<1>3. T = Nat
    BY <1>1, <1>2, AllNaturals
<1> QED BY <1>3

LEMMA FlattenValue ==
    ASSUME NEW S, NEW s \in Seq(Seq(S))
    PROVE  /\ FlattenSeq(s) \in Seq(S)
           /\ Len(s) = 0 => FlattenSeq(s) = <<>>
           /\ \A f : Flattens(s, f) /\ Len(s) # 0 => FlattenSeq(s) = f[Len(s)]
<1>1. Len(s) \in Nat /\ (Len(s) = 0 => s = <<>>)
    BY LenProperties, EmptySeq
<1>2. CASE Len(s) = 0
    BY <1>1, <1>2, FlattenIs, EmptySeq
<1>3. CASE Len(s) # 0
    <2> DEFINE h == CHOOSE f : Flattens(s, f)
    <2>1. Flattens(s, h)
        BY FlattenExists
    <2>2. FlattenSeq(s) = h[Len(s)]
        BY <1>3, FlattenIs
    <2> HIDE DEF h
    <2>3. ASSUME NEW f, Flattens(s, f) PROVE f[Len(s)] = h[Len(s)]
        <3>1. \A i \in 1 .. Len(s) : f[i] = h[i]
            BY <1>1, <2>1, <2>3, FlattenPrefix
        <3> QED BY <1>1, <1>3, <3>1
    <2>4. PICK f : Flattens(s, f) /\ \A i \in 1 .. Len(s) : f[i] \in Seq(S)
        BY FlattenExists
    <2>5. f[Len(s)] \in Seq(S)
        BY <1>1, <1>3, <2>4
    <2> QED BY <1>3, <2>2, <2>3, <2>4, <2>5
<1> QED BY <1>2, <1>3

LEMMA FlattenAppend ==
    ASSUME NEW S, NEW s \in Seq(Seq(S)), NEW x \in Seq(S)
    PROVE  FlattenSeq(Append(s, x)) = FlattenSeq(s) \o x
<1> DEFINE n == Len(s)
<1>t. \E t : t = Append(s, x)
    OBVIOUS
<1>0. PICK t : t = Append(s, x)
    BY <1>t
<1>1. /\ t \in Seq(Seq(S)) /\ n \in Nat /\ Len(t) = n + 1
      /\ \A i \in 1 .. n : t[i] = s[i]
      /\ t[n + 1] = x
    BY <1>0, AppendProperties, LenProperties
<1>2. PICK g : Flattens(t, g)
    BY <1>1, FlattenExists
<1>3. PICK f : Flattens(s, f)
    BY FlattenExists
<1>4. \A i \in 1 .. n : f[i] = g[i]
    <2>1. /\ Len(s) \in Nat /\ Len(t) \in Nat /\ Len(s) <= Len(t)
          /\ \A i \in 1 .. Len(s) : s[i] = t[i]
        BY <1>1
    <2> QED BY <1>2, <1>3, <2>1, FlattenPrefix
<1>5. FlattenSeq(t) = g[n + 1]
    BY <1>1, <1>2, FlattenValue
<1>6. g[n + 1] = IF n + 1 = 1 THEN t[n + 1] ELSE g[(n + 1) - 1] \o t[n + 1]
    <2>1. n + 1 \in 1 .. Len(t)
        BY <1>1
    <2> QED BY <1>2, <2>1, FlattenAt
<1>7. CASE n = 0
    <2>1. FlattenSeq(s) = <<>>
        BY <1>7, FlattenValue
    <2>2. <<>> \o x = x
        BY ConcatEmptySeq
    <2> QED BY <1>1, <1>5, <1>6, <1>7, <2>1, <2>2, <1>0
<1>8. CASE n # 0
    <2>1. FlattenSeq(s) = f[n]
        BY <1>3, <1>8, FlattenValue
    <2>2. f[n] = g[n] /\ (n + 1) - 1 = n
        BY <1>1, <1>4, <1>8
    <2> QED BY <1>1, <1>5, <1>6, <1>8, <2>1, <2>2, <1>0
<1> QED BY <1>7, <1>8

LEMMA AppendOfConcat ==
    ASSUME NEW S, NEW s \in Seq(S), NEW t \in Seq(S), NEW x \in S
    PROVE  s \o Append(t, x) = Append(s \o t, x)
<1>1. /\ s \o t \in Seq(S) /\ <<x>> \in Seq(S)
      /\ Append(t, x) = t \o <<x>>
    BY ConcatProperties, AppendIsConcat
<1>2. Append(s \o t, x) = (s \o t) \o <<x>>
    BY <1>1, AppendIsConcat
<1>3. PICK y \in Seq(S) : y = <<x>>
    BY <1>1
<1>4. (s \o t) \o y = s \o (t \o y)
    BY ConcatAssociative
<1> QED BY <1>1, <1>2, <1>3, <1>4

LEMMA FlattenConcat ==
    ASSUME NEW S, NEW s \in Seq(Seq(S)), NEW t \in Seq(Seq(S))
    PROVE  FlattenSeq(s \o t) = FlattenSeq(s) \o FlattenSeq(t)
<1> DEFINE T == {n \in Nat : \A u \in Seq(Seq(S)) :
                    Len(u) = n => FlattenSeq(s \o u) = FlattenSeq(s) \o FlattenSeq(u)}
<1>1. 0 \in T
    <2> SUFFICES ASSUME NEW u \in Seq(Seq(S)), Len(u) = 0
                 PROVE  FlattenSeq(s \o u) = FlattenSeq(s) \o FlattenSeq(u)
        OBVIOUS
    <2>1. u = <<>> /\ FlattenSeq(u) = <<>>
        BY EmptySeq, FlattenValue
    <2>2. s \o <<>> = s /\ FlattenSeq(s) \o <<>> = FlattenSeq(s)
        BY ConcatEmptySeq, FlattenValue
    <2> QED BY <2>1, <2>2
<1>2. ASSUME NEW n \in T PROVE n + 1 \in T
    <2> SUFFICES ASSUME NEW u \in Seq(Seq(S)), Len(u) = n + 1
                 PROVE  FlattenSeq(s \o u) = FlattenSeq(s) \o FlattenSeq(u)
        OBVIOUS
    <2>0. u # <<>>
        BY EmptySeq
    <2>1. PICK v \in Seq(Seq(S)), x \in Seq(S) : u = Append(v, x)
        BY <2>0, SequenceEmptyOrAppend
    <2>2. Len(v) = n
        BY <2>1, AppendProperties, LenProperties
    <2>3. FlattenSeq(s \o v) = FlattenSeq(s) \o FlattenSeq(v)
        BY <2>2
    <2>4. FlattenSeq(u) = FlattenSeq(v) \o x
        BY <2>1, FlattenAppend
    <2>5. s \o v \in Seq(Seq(S))
        BY ConcatProperties
    <2>6. s \o u = Append(s \o v, x)
        BY <2>1, AppendOfConcat
    <2>7. FlattenSeq(s \o u) = FlattenSeq(s \o v) \o x
        BY <2>5, <2>6, FlattenAppend
    <2>8. (FlattenSeq(s) \o FlattenSeq(v)) \o x = FlattenSeq(s) \o (FlattenSeq(v) \o x)
        <3>1. FlattenSeq(s) \in Seq(S) /\ FlattenSeq(v) \in Seq(S)
            BY FlattenValue
        <3> DEFINE a == FlattenSeq(s)
                   b == FlattenSeq(v)
        <3> HIDE DEF a, b
        <3>2. (a \o b) \o x = a \o (b \o x)
            BY <3>1, ConcatAssociative DEF a, b
        <3> QED BY <3>2 DEF a, b
    <2> QED BY <2>3, <2>4, <2>7, <2>8
<1>3. T = Nat
    BY <1>1, <1>2, AllNaturals
<1> QED BY <1>3, LenProperties

-----------------------------------------------------------------------------
(* Ascending and Arrange.                                                  *)

LEMMA AscendingOrders ==
    ASSUME NEW S \in SUBSET Int, IsFiniteSet(S)
    PROVE  /\ Cardinality(S) \in Nat
           /\ Ascending(S) \in [1 .. Cardinality(S) -> S]
           /\ \A i \in S : \E k \in 1 .. Cardinality(S) : Ascending(S)[k] = i
           /\ \A k, m \in 1 .. Cardinality(S) : k < m => Ascending(S)[k] < Ascending(S)[m]
<1> DEFINE n == Cardinality(S)
           place == [i \in S |-> Cardinality({q \in S : q < i})]
<1>1. n \in Nat /\ \A i \in S : i \in Int
    BY FS_CardinalityType
<1>2. ASSUME NEW i \in S
      PROVE  /\ IsFiniteSet({q \in S : q < i})
             /\ place[i] = Cardinality({q \in S : q < i})
             /\ place[i] \in 0 .. n - 1
    <2>1. IsFiniteSet(S \ {i}) /\ Cardinality(S \ {i}) = n - 1
        BY FS_RemoveElement
    <2>2. {q \in S : q < i} \in SUBSET (S \ {i})
        BY <1>1
    <2>3. /\ IsFiniteSet({q \in S : q < i})
          /\ Cardinality({q \in S : q < i}) <= Cardinality(S \ {i})
        BY <2>1, <2>2, FS_Subset
    <2>4. Cardinality({q \in S : q < i}) \in Nat
        BY <2>3, FS_CardinalityType
    <2> QED BY <1>1, <2>1, <2>3, <2>4
<1>3. ASSUME NEW i \in S, NEW j \in S, i < j PROVE place[i] < place[j]
    <2> DEFINE A == {q \in S : q < i}
               B == {q \in S : q < j}
    <2>0. i \in Int /\ j \in Int
        BY <1>1
    <2>1. i \notin A /\ A \cup {i} \in SUBSET B
        <3>1. i \notin A /\ i \in B
            BY <1>3, <2>0
        <3>2. ASSUME NEW q \in A PROVE q \in B
            BY <1>1, <1>3, <2>0
        <3> HIDE DEF A, B
        <3> QED BY <3>1, <3>2
    <2>2. /\ IsFiniteSet(A) /\ place[i] = Cardinality(A) /\ place[i] \in Int
          /\ IsFiniteSet(B) /\ place[j] = Cardinality(B) /\ place[j] \in Int
        BY <1>2
    <2> HIDE DEF A, B, place
    <2>3. Cardinality(A \cup {i}) = Cardinality(A) + 1
        BY <2>1, <2>2, FS_AddElement
    <2>4. Cardinality(A \cup {i}) <= Cardinality(B)
        BY <2>1, <2>2, FS_Subset
    <2> QED BY <2>2, <2>3, <2>4
<1>4. \A k \in 1 .. n : /\ \E i \in S : Cardinality({q \in S : q < i}) = k - 1
                        /\ \A i \in S : Cardinality({q \in S : q < i}) = place[i]
    <2> DEFINE f == [i \in S |-> place[i] + 1]
    <2>0. \A i \in S : place[i] \in 0 .. n - 1
        BY <1>2
    <2>8. \A i \in S : Cardinality({q \in S : q < i}) = place[i]
        BY <1>2
    <2>9. \A i, j \in S : i < j => place[i] < place[j]
        BY <1>3
    <2>10. n \in Nat
        BY <1>1
    <2> HIDE DEF place, n
    <2>1. f \in [S -> 1 .. n]
        <3>1. \A i \in S : place[i] + 1 \in 1 .. n
            BY <2>10, <2>0
        <3> QED BY <3>1
    <2>2. ASSUME NEW i \in S, NEW j \in S, f[i] = f[j] PROVE i = j
        <3>1. i \in Int /\ j \in Int /\ place[i] \in Int /\ place[j] \in Int
            BY <2>0, <2>10
        <3>2. place[i] = place[j]
            BY <2>2, <3>1
        <3> QED BY <2>9, <3>1, <3>2
    <2>3. f \in Injection(S, 1 .. n)
        BY <2>1, <2>2 DEF Injection, IsInjective
    <2>4. IsFiniteSet(1 .. n) /\ Cardinality(1 .. n) = n
        BY <2>10, FS_Interval
    <2>11. IsFiniteSet(S) /\ Cardinality(S) = Cardinality(1 .. n)
        BY <2>4 DEF n
    <2>6. \A k \in 1 .. n : \E i \in S : f[i] = k
        <3> HIDE DEF f
        <3>1. f \in Surjection(S, 1 .. n)
            BY <2>3, <2>4, <2>11, FS_Injection
        <3> QED BY <3>1 DEF Surjection
    <2>7. ASSUME NEW k \in 1 .. n PROVE \E i \in S : place[i] = k - 1
        <3>1. PICK i \in S : place[i] + 1 = k
            BY <2>6
        <3>2. place[i] \in Int /\ k \in Int
            BY <2>0, <2>10
        <3> QED BY <3>1, <3>2
    <2> QED BY <2>7, <2>8
<1>5. \A k \in 1 .. n : Ascending(S)[k] \in S /\ place[Ascending(S)[k]] = k - 1
    BY <1>4 DEF Ascending
<1>6. Ascending(S) \in [1 .. n -> S]
    BY <1>5 DEF Ascending
<1>9. \A i \in S : place[i] \in 0 .. n - 1
    BY <1>2
<1> HIDE DEF place
<1>7. ASSUME NEW i \in S PROVE \E k \in 1 .. n : Ascending(S)[k] = i
    <2>1. PICK k \in 1 .. n : k = place[i] + 1
        BY <1>1, <1>9
    <2>2. PICK j \in S : j = Ascending(S)[k] /\ place[j] = k - 1
        BY <1>5
    <2>3. place[j] = place[i] /\ i \in Int /\ j \in Int /\ place[i] \in Int
        BY <1>1, <1>9, <2>1, <2>2
    <2>4. ~(i < j) /\ ~(j < i)
        BY <1>3, <2>3
    <2> QED BY <2>2, <2>3, <2>4
<1>8. ASSUME NEW k \in 1 .. n, NEW m \in 1 .. n, k < m
      PROVE  Ascending(S)[k] < Ascending(S)[m]
    <2>1. PICK i \in S, j \in S : /\ i = Ascending(S)[k] /\ j = Ascending(S)[m]
                                  /\ place[i] = k - 1 /\ place[j] = m - 1
        BY <1>5
    <2>2. i # j /\ ~(j < i)
        BY <1>1, <1>3, <1>8, <2>1
    <2> QED BY <1>1, <2>1, <2>2
<1> QED BY <1>1, <1>6, <1>7, <1>8

LEMMA ArrangeOrders ==
    ASSUME NEW S, IsFiniteSet(S), NEW p \in [S -> Int],
           \A i, j \in S : p[i] = p[j] => i = j
    PROVE  /\ Arrange(p) \in Seq(S)
           /\ ToSet(Arrange(p)) = S
           /\ IsInjective(Arrange(p))
<1> DEFINE P == {p[i] : i \in DOMAIN p}
           n == Cardinality(P)
           a == Ascending(P)
<1>1. P \in SUBSET Int /\ \A v \in P : \E i \in S : p[i] = v
    OBVIOUS
<1>2. IsFiniteSet(P)
    <2>1. p \in Surjection(S, P)
        BY DEF Surjection
    <2> QED BY <2>1, FS_Surjection
<1>3. /\ n \in Nat
      /\ a \in [1 .. n -> P]
      /\ \A v \in P : \E k \in 1 .. n : a[k] = v
      /\ \A k, m \in 1 .. n : k < m => a[k] < a[m]
    BY <1>1, <1>2, AscendingOrders
<1>4. /\ DOMAIN Arrange(p) = 1 .. n
      /\ \A k \in 1 .. n : Arrange(p)[k] = CHOOSE i \in S : p[i] = a[k]
      /\ Arrange(p) = [k \in 1 .. n |-> Arrange(p)[k]]
    <2> HIDE DEF n, a
    <2>1. DOMAIN a = 1 .. n
        BY <1>3
    <2>2. Arrange(p) = [k \in DOMAIN a |-> CHOOSE i \in DOMAIN p : p[i] = a[k]]
        BY DEF Arrange, a
    <2> QED BY <2>1, <2>2
<1> HIDE DEF P, n, a
<1>5. \A k \in 1 .. n : Arrange(p)[k] \in S /\ p[Arrange(p)[k]] = a[k]
    BY <1>1, <1>3, <1>4
<1>6. Arrange(p) \in [1 .. n -> S]
    BY <1>4, <1>5
<1>7. \A i \in S : \E k \in 1 .. n : Arrange(p)[k] = i
    <2> SUFFICES ASSUME NEW i \in S PROVE \E k \in 1 .. n : Arrange(p)[k] = i
        OBVIOUS
    <2>1. p[i] \in P
        BY DEF P
    <2>2. PICK k \in 1 .. n : a[k] = p[i]
        BY <1>3, <2>1
    <2> QED BY <1>5, <2>2
<1>8. ASSUME NEW k \in 1 .. n, NEW m \in 1 .. n, k # m PROVE Arrange(p)[k] # Arrange(p)[m]
    <2>1. k < m \/ m < k
        BY <1>3, <1>8
    <2>2. a[k] \in Int /\ a[m] \in Int /\ (a[k] < a[m] \/ a[m] < a[k])
        BY <1>1, <1>3, <2>1
    <2> QED BY <1>5, <2>2
<1>9. Arrange(p) \in Seq(S)
    BY <1>3, <1>6, SeqDef
<1>10. ToSet(Arrange(p)) = S
    BY <1>4, <1>5, <1>7 DEF ToSet
<1>11. IsInjective(Arrange(p))
    BY <1>4, <1>8 DEF IsInjective
<1> QED BY <1>9, <1>10, <1>11

-----------------------------------------------------------------------------
(* The elements of sequences.                                              *)

LEMMA ToSetOfConcat ==
    ASSUME NEW S, NEW s \in Seq(S), NEW t \in Seq(S)
    PROVE  ToSet(s \o t) = ToSet(s) \cup ToSet(t)
<1>1. /\ DOMAIN s = 1 .. Len(s) /\ Len(s) \in Nat
      /\ DOMAIN t = 1 .. Len(t) /\ Len(t) \in Nat
    BY LenProperties
<1>2. /\ DOMAIN (s \o t) = 1 .. Len(s) + Len(t)
      /\ \A i \in 1 .. Len(s) + Len(t) :
            (s \o t)[i] = IF i <= Len(s) THEN s[i] ELSE t[i - Len(s)]
    BY ConcatProperties, LenProperties
<1>3. ASSUME NEW x \in ToSet(s \o t) PROVE x \in ToSet(s) \cup ToSet(t)
    <2>1. PICK i \in 1 .. Len(s) + Len(t) : x = (s \o t)[i]
        BY <1>2 DEF ToSet
    <2>2. CASE i <= Len(s)
        BY <1>1, <1>2, <2>1, <2>2 DEF ToSet
    <2>3. CASE ~(i <= Len(s))
        <3>1. i - Len(s) \in 1 .. Len(t) /\ x = t[i - Len(s)]
            BY <1>1, <1>2, <2>1, <2>3
        <3> QED BY <1>1, <3>1 DEF ToSet
    <2> QED BY <2>2, <2>3
<1>4. ASSUME NEW x \in ToSet(s) PROVE x \in ToSet(s \o t)
    <2>1. PICK i \in 1 .. Len(s) : x = s[i]
        BY <1>1 DEF ToSet
    <2>2. i \in 1 .. Len(s) + Len(t) /\ x = (s \o t)[i]
        BY <1>1, <1>2, <2>1
    <2> QED BY <1>2, <2>2 DEF ToSet
<1>5. ASSUME NEW x \in ToSet(t) PROVE x \in ToSet(s \o t)
    <2>1. PICK i \in 1 .. Len(t) : x = t[i]
        BY <1>1 DEF ToSet
    <2>2. PICK k \in 1 .. Len(s) + Len(t) : k = Len(s) + i
        BY <1>1
    <2>3. x = (s \o t)[k]
        BY <1>1, <1>2, <2>1, <2>2
    <2> QED BY <1>2, <2>2, <2>3 DEF ToSet
<1> QED BY <1>3, <1>4, <1>5

\* The parts of a sequence without repetitions have none, and nothing in common.
LEMMA InjectiveParts ==
    ASSUME NEW S, NEW s \in Seq(S), NEW t \in Seq(S)
    PROVE  IsInjective(s \o t) <=> /\ IsInjective(s) /\ IsInjective(t)
                                   /\ ToSet(s) \cap ToSet(t) = {}
<1>1. /\ DOMAIN s = 1 .. Len(s) /\ Len(s) \in Nat
      /\ DOMAIN t = 1 .. Len(t) /\ Len(t) \in Nat
    BY LenProperties
<1>2. /\ DOMAIN (s \o t) = 1 .. Len(s) + Len(t)
      /\ \A i \in 1 .. Len(s) + Len(t) :
            (s \o t)[i] = IF i <= Len(s) THEN s[i] ELSE t[i - Len(s)]
    BY ConcatProperties, LenProperties
<1>u. \E u : u = s \o t
    OBVIOUS
<1>v. PICK u : u = s \o t
    BY <1>u
<1>3. /\ \A i \in 1 .. Len(s) : i \in DOMAIN u /\ u[i] = s[i]
      /\ \A i \in 1 .. Len(t) : Len(s) + i \in DOMAIN u /\ u[Len(s) + i] = t[i]
    BY <1>1, <1>2, <1>v
<1>4. ASSUME IsInjective(u)
      PROVE  IsInjective(s) /\ IsInjective(t) /\ ToSet(s) \cap ToSet(t) = {}
    <2>0. \A i, j \in DOMAIN u : u[i] = u[j] => i = j
        BY <1>4 DEF IsInjective
    <2>1. IsInjective(s)
        BY <1>1, <1>3, <2>0 DEF IsInjective
    <2>2. ASSUME NEW i \in 1 .. Len(t), NEW j \in 1 .. Len(t), t[i] = t[j] PROVE i = j
        <3>1. Len(s) + i = Len(s) + j
            BY <1>3, <2>0, <2>2
        <3> QED BY <1>1, <3>1
    <2>3. ASSUME NEW i \in 1 .. Len(s), NEW j \in 1 .. Len(t), s[i] = t[j] PROVE FALSE
        <3>1. i = Len(s) + j
            BY <1>3, <2>0, <2>3
        <3> QED BY <1>1, <3>1
    <2>4. ToSet(s) \cap ToSet(t) = {}
        BY <1>1, <2>3 DEF ToSet
    <2>5. IsInjective(t)
        BY <1>1, <2>2 DEF IsInjective
    <2> QED BY <2>1, <2>4, <2>5
<1>5. ASSUME IsInjective(s), IsInjective(t), ToSet(s) \cap ToSet(t) = {}
      PROVE  IsInjective(u)
    <2>1. \A i \in 1 .. Len(s), j \in 1 .. Len(t) : s[i] # t[j]
        BY <1>1, <1>5 DEF ToSet
    <2>2. ASSUME NEW i \in DOMAIN u, NEW j \in DOMAIN u, u[i] = u[j] PROVE i = j
        <3>0. i \in 1 .. Len(s) + Len(t) /\ j \in 1 .. Len(s) + Len(t)
            BY <1>2, <1>v
        <3>1. CASE i <= Len(s) /\ j <= Len(s)
            <4>1. i \in 1 .. Len(s) /\ j \in 1 .. Len(s) /\ s[i] = s[j]
                BY <1>1, <1>3, <2>2, <3>0, <3>1
            <4> QED BY <1>1, <1>5, <4>1 DEF IsInjective
        <3>2. CASE ~(i <= Len(s)) /\ ~(j <= Len(s))
            <4>1. PICK k \in 1 .. Len(t), m \in 1 .. Len(t) : i = Len(s) + k /\ j = Len(s) + m
                <5>1. i - Len(s) \in 1 .. Len(t) /\ j - Len(s) \in 1 .. Len(t)
                    BY <1>1, <3>0, <3>2
                <5>2. i = Len(s) + (i - Len(s)) /\ j = Len(s) + (j - Len(s))
                    BY <1>1, <3>0
                <5> QED BY <5>1, <5>2
            <4>2. t[k] = t[m]
                BY <1>3, <2>2, <4>1
            <4> QED BY <1>1, <1>5, <4>1, <4>2 DEF IsInjective
        <3>3. CASE i <= Len(s) /\ ~(j <= Len(s))
            <4>1. i \in 1 .. Len(s) /\ s[i] = u[i]
                BY <1>1, <1>3, <3>0, <3>3
            <4>2. j - Len(s) \in 1 .. Len(t) /\ t[j - Len(s)] = u[j]
                BY <1>1, <1>2, <1>v, <3>0, <3>3
            <4> QED BY <2>1, <2>2, <4>1, <4>2
        <3>4. CASE ~(i <= Len(s)) /\ j <= Len(s)
            <4>1. j \in 1 .. Len(s) /\ s[j] = u[j]
                BY <1>1, <1>3, <3>0, <3>4
            <4>2. i - Len(s) \in 1 .. Len(t) /\ t[i - Len(s)] = u[i]
                BY <1>1, <1>2, <1>v, <3>0, <3>4
            <4> QED BY <2>1, <2>2, <4>1, <4>2
        <3> QED BY <3>1, <3>2, <3>3, <3>4
    <2> QED BY <2>2 DEF IsInjective
<1> QED BY <1>v, <1>4, <1>5

-----------------------------------------------------------------------------
(* The messages of a queue.                                                *)

Messages == [kind : {"chunk"}, rows : Seq(Nat)] \cup [kind : {"report"}, failed : BOOLEAN]

MessageRows(m) == IF m.kind = "chunk" THEN m.rows ELSE <<>>

Parts(q) == [k \in DOMAIN q |-> MessageRows(q[k])]

LEMMA MessageRowsType == \A m \in Messages : MessageRows(m) \in Seq(Nat)
<1> SUFFICES ASSUME NEW m \in Messages PROVE MessageRows(m) \in Seq(Nat)
    OBVIOUS
<1>1. CASE m \in [kind : {"chunk"}, rows : Seq(Nat)]
    BY <1>1 DEF MessageRows
<1>2. CASE m \in [kind : {"report"}, failed : BOOLEAN]
    <2>1. m.kind # "chunk" /\ <<>> \in Seq(Nat)
        BY <1>2, EmptySeq
    <2> QED BY <2>1 DEF MessageRows
<1> QED BY <1>1, <1>2 DEF Messages

LEMMA RowsInIs == \A q : RowsIn(q) = FlattenSeq(Parts(q))
BY DEF RowsIn, Parts, MessageRows

LEMMA PartsType ==
    ASSUME NEW q \in Seq(Messages)
    PROVE  /\ Parts(q) \in Seq(Seq(Nat))
           /\ Len(Parts(q)) = Len(q)
           /\ \A k \in 1 .. Len(q) : Parts(q)[k] = MessageRows(q[k])
<1>1. DOMAIN q = 1 .. Len(q) /\ Len(q) \in Nat
    BY LenProperties
<1>2. \A k \in 1 .. Len(q) : MessageRows(q[k]) \in Seq(Nat)
    BY <1>1, MessageRowsType, ElementOfSeq
<1>3. Parts(q) = [k \in 1 .. Len(q) |-> MessageRows(q[k])]
    BY <1>1 DEF Parts
<1>4. Parts(q) \in [1 .. Len(q) -> Seq(Nat)]
    BY <1>2, <1>3
<1>5. Parts(q) \in Seq(Seq(Nat))
    BY <1>1, <1>4, SeqDef
<1>6. Len(Parts(q)) = Len(q)
    <2>1. DOMAIN Parts(q) = 1 .. Len(q)
        BY <1>3
    <2> QED BY <1>1, <1>5, <2>1, LenProperties
<1> QED BY <1>3, <1>5, <1>6

LEMMA RowsInType == \A q \in Seq(Messages) : RowsIn(q) \in Seq(Nat)
BY PartsType, RowsInIs, FlattenValue

LEMMA RowsInEmpty == RowsIn(<<>>) = <<>>
<1>1. PICK e \in Seq(Messages) : e = <<>>
    BY EmptySeq
<1>2. Len(e) = 0
    BY <1>1, EmptySeq
<1>3. PICK w \in Seq(Seq(Nat)) : w = Parts(e) /\ Len(w) = 0
    BY <1>2, PartsType
<1>4. FlattenSeq(w) = <<>>
    BY <1>3, FlattenValue
<1> QED BY <1>1, <1>3, <1>4, RowsInIs

LEMMA RowsInConcat ==
    ASSUME NEW q \in Seq(Messages), NEW u \in Seq(Messages)
    PROVE  RowsIn(q \o u) = RowsIn(q) \o RowsIn(u)
<1>1. q \o u \in Seq(Messages)
    BY ConcatProperties
<1>2. /\ Parts(q) \in Seq(Seq(Nat)) /\ Len(Parts(q)) = Len(q)
      /\ \A k \in 1 .. Len(q) : Parts(q)[k] = MessageRows(q[k])
    BY PartsType
<1>3. /\ Parts(u) \in Seq(Seq(Nat)) /\ Len(Parts(u)) = Len(u)
      /\ \A k \in 1 .. Len(u) : Parts(u)[k] = MessageRows(u[k])
    BY PartsType
<1>4. /\ Parts(q \o u) \in Seq(Seq(Nat)) /\ Len(Parts(q \o u)) = Len(q \o u)
      /\ \A k \in 1 .. Len(q \o u) : Parts(q \o u)[k] = MessageRows((q \o u)[k])
    BY <1>1, PartsType
<1>5. /\ Len(q) \in Nat /\ Len(u) \in Nat /\ Len(q \o u) = Len(q) + Len(u)
      /\ \A k \in 1 .. Len(q) + Len(u) :
            (q \o u)[k] = IF k <= Len(q) THEN q[k] ELSE u[k - Len(q)]
    BY ConcatProperties, LenProperties
<1>6. /\ Parts(q) \o Parts(u) \in Seq(Seq(Nat))
      /\ Len(Parts(q) \o Parts(u)) = Len(q) + Len(u)
      /\ \A k \in 1 .. Len(q) + Len(u) :
            (Parts(q) \o Parts(u))[k]
                = IF k <= Len(q) THEN Parts(q)[k] ELSE Parts(u)[k - Len(q)]
    <2>1. PICK a \in Seq(Seq(Nat)), b \in Seq(Seq(Nat)) : a = Parts(q) /\ b = Parts(u)
        BY <1>2, <1>3
    <2>2. /\ a \o b \in Seq(Seq(Nat))
          /\ Len(a \o b) = Len(a) + Len(b)
          /\ \A k \in 1 .. Len(a) + Len(b) :
                (a \o b)[k] = IF k <= Len(a) THEN a[k] ELSE b[k - Len(a)]
        BY ConcatProperties
    <2> QED BY <1>2, <1>3, <2>1, <2>2
<1>7. ASSUME NEW k \in 1 .. Len(q) + Len(u)
      PROVE  Parts(q \o u)[k] = (Parts(q) \o Parts(u))[k]
    <2>1. CASE k <= Len(q)
        <3>1. k \in 1 .. Len(q) /\ k \in 1 .. Len(q \o u)
            BY <1>5, <2>1
        <3> QED BY <1>2, <1>4, <1>5, <1>6, <2>1, <3>1
    <2>2. CASE ~(k <= Len(q))
        <3>1. k - Len(q) \in 1 .. Len(u) /\ k \in 1 .. Len(q \o u)
            BY <1>5, <2>2
        <3> QED BY <1>3, <1>4, <1>5, <1>6, <2>2, <3>1
    <2> QED BY <2>1, <2>2
<1>8. Parts(q \o u) = Parts(q) \o Parts(u)
    <2>1. PICK a \in Seq(Seq(Nat)), b \in Seq(Seq(Nat)) :
            a = Parts(q \o u) /\ b = Parts(q) \o Parts(u)
        BY <1>4, <1>6
    <2>2. Len(a) = Len(b) /\ \A k \in 1 .. Len(a) : a[k] = b[k]
        BY <1>4, <1>5, <1>6, <1>7, <2>1
    <2> QED BY <2>1, <2>2, SeqEqual
<1> QED BY <1>2, <1>3, <1>8, RowsInIs, FlattenConcat

LEMMA RowsInAppend ==
    ASSUME NEW q \in Seq(Messages), NEW m \in Messages
    PROVE  RowsIn(Append(q, m)) = RowsIn(q) \o MessageRows(m)
<1>1. PICK u \in Seq(Messages) : u = Append(<<>>, m)
    <2>1. Append(<<>>, m) \in Seq(Messages)
        BY EmptySeq, AppendProperties
    <2> QED BY <2>1
<1>2. Append(q, m) = q \o u
    <2>1. q \o Append(<<>>, m) = Append(q \o <<>>, m)
        BY EmptySeq, AppendOfConcat
    <2>2. q \o <<>> = q
        BY ConcatEmptySeq
    <2> QED BY <1>1, <2>1, <2>2
<1>3. RowsIn(u) = MessageRows(m)
    <2>1. Len(u) = 1 /\ u[1] = m
        <3>1. PICK e \in Seq(Messages) : e = <<>> /\ Len(e) = 0
            BY EmptySeq
        <3>2. Len(Append(e, m)) = Len(e) + 1 /\ Append(e, m)[Len(e) + 1] = m
            BY AppendProperties
        <3> QED BY <1>1, <3>1, <3>2
    <2>2. /\ Parts(u) \in Seq(Seq(Nat)) /\ Len(Parts(u)) = 1
          /\ Parts(u)[1] = MessageRows(m)
        <3>1. /\ Parts(u) \in Seq(Seq(Nat)) /\ Len(Parts(u)) = Len(u)
              /\ \A k \in 1 .. Len(u) : Parts(u)[k] = MessageRows(u[k])
            BY PartsType
        <3> QED BY <2>1, <3>1
    <2>3. PICK f : Flattens(Parts(u), f)
        BY <2>2, FlattenExists
    <2>4. f[1] = MessageRows(m)
        <3>1. \A i \in 1 .. Len(Parts(u)) :
                f[i] = IF i = 1 THEN Parts(u)[i] ELSE f[i - 1] \o Parts(u)[i]
            BY <2>3, FlattenAt
        <3>2. 1 \in 1 .. Len(Parts(u))
            BY <2>2
        <3>3. f[1] = IF 1 = 1 THEN Parts(u)[1] ELSE f[1 - 1] \o Parts(u)[1]
            BY <3>1, <3>2
        <3> QED BY <2>2, <3>3
    <2>5. PICK w \in Seq(Seq(Nat)) : w = Parts(u) /\ Len(w) = 1
        BY <2>2
    <2>6. FlattenSeq(w) = f[Len(w)]
        <3>1. \A g : Flattens(w, g) /\ Len(w) # 0 => FlattenSeq(w) = g[Len(w)]
            BY FlattenValue
        <3> QED BY <2>3, <2>5, <3>1
    <2> QED BY <2>4, <2>5, <2>6, RowsInIs
<1> QED BY <1>2, <1>3, RowsInConcat

LEMMA RowsInHead ==
    ASSUME NEW q \in Seq(Messages), q # <<>>
    PROVE  /\ Head(q) \in Messages /\ Tail(q) \in Seq(Messages)
           /\ RowsIn(q) = MessageRows(Head(q)) \o RowsIn(Tail(q))
<1>1. Head(q) \in Messages /\ Tail(q) \in Seq(Messages)
    BY HeadTailProperties
<1>2. PICK u \in Seq(Messages) : u = Append(<<>>, Head(q))
    <2>1. Append(<<>>, Head(q)) \in Seq(Messages)
        BY <1>1, EmptySeq, AppendProperties
    <2> QED BY <2>1
<1>3. q = u \o Tail(q)
    <2>1. /\ Len(u) = 1 /\ u[1] = Head(q)
        <3>1. <<>> \in Seq(Messages) /\ Len(<<>>) = 0
            BY EmptySeq
        <3> QED BY <1>1, <1>2, <3>1, AppendProperties
    <2>2. /\ Len(Tail(q)) = Len(q) - 1 /\ Len(q) \in Nat /\ Head(q) = q[1]
          /\ \A i \in 1 .. Len(Tail(q)) : Tail(q)[i] = q[i + 1]
        BY HeadTailProperties, LenProperties
    <2>3. /\ u \o Tail(q) \in Seq(Messages)
          /\ Len(u \o Tail(q)) = 1 + Len(Tail(q))
          /\ \A i \in 1 .. 1 + Len(Tail(q)) :
                (u \o Tail(q))[i] = IF i <= 1 THEN u[i] ELSE Tail(q)[i - 1]
        BY <1>1, <2>1, ConcatProperties
    <2>4. PICK v \in Seq(Messages) : v = u \o Tail(q)
        BY <2>3
    <2>5. Len(v) = Len(q) /\ \A i \in 1 .. Len(v) : v[i] = q[i]
        BY <2>1, <2>2, <2>3, <2>4
    <2> QED BY <2>4, <2>5, SeqEqual
<1>4. RowsIn(u) = MessageRows(Head(q))
    <2>1. RowsIn(Append(<<>>, Head(q))) = RowsIn(<<>>) \o MessageRows(Head(q))
        BY <1>1, EmptySeq, RowsInAppend
    <2>2. <<>> \o MessageRows(Head(q)) = MessageRows(Head(q))
        BY <1>1, MessageRowsType, ConcatEmptySeq
    <2> QED BY <1>2, <2>1, <2>2, RowsInEmpty
<1> QED BY <1>1, <1>3, <1>4, RowsInConcat

-----------------------------------------------------------------------------
(* Division.                                                               *)

LEMMA TimesMonotonic ==
    ASSUME NEW a \in Nat, NEW b \in Nat, NEW w \in Nat, a <= b
    PROVE  w * a <= w * b
<1>1. PICK c \in Nat : b = a + c
    <2>1. b - a \in Nat /\ b = a + (b - a)
        OBVIOUS
    <2> QED BY <2>1
<1>2. w * (a + c) = w * a + w * c
    OBVIOUS
<1>3. w * a \in Nat /\ w * c \in Nat
    OBVIOUS
<1> QED BY <1>1, <1>2, <1>3

LEMMA Division ==
    ASSUME NEW i \in Nat, NEW w \in Nat \ {0}
    PROVE  \E q \in Nat, m \in 0 .. w - 1 : i = w * q + m /\ q = i \div w /\ m = i % w
OBVIOUS

\* Quotient and remainder are unique.
LEMMA DivisionIsUnique ==
    ASSUME NEW w \in Nat \ {0}, NEW a \in Nat, NEW b \in Nat,
           NEW c \in 0 .. w - 1, NEW d \in 0 .. w - 1, w * a + c = w * b + d
    PROVE  a = b /\ c = d
<1>1. ASSUME NEW x \in Nat, NEW y \in Nat, x < y PROVE w * x + w <= w * y
    <2>1. w * (x + 1) <= w * y
        BY <1>1, TimesMonotonic
    <2> QED BY <2>1
<1>2. ~(a < b)
    <2> SUFFICES ASSUME a < b PROVE FALSE
        OBVIOUS
    <2>1. w * a + w <= w * b
        BY <1>1
    <2>2. w * a \in Nat /\ w * b \in Nat
        OBVIOUS
    <2> QED BY <2>1, <2>2
<1>3. ~(b < a)
    <2> SUFFICES ASSUME b < a PROVE FALSE
        OBVIOUS
    <2>1. w * b + w <= w * a
        BY <1>1
    <2>2. w * a \in Nat /\ w * b \in Nat
        OBVIOUS
    <2> QED BY <2>1, <2>2
<1>4. a = b
    BY <1>2, <1>3
<1>5. w * a \in Nat
    OBVIOUS
<1> QED BY <1>4, <1>5

-----------------------------------------------------------------------------
(* The rows of the caller and of the workers.                              *)

LEMMA AscendingSeq ==
    ASSUME NEW S \in SUBSET Nat, IsFiniteSet(S)
    PROVE  /\ Ascending(S) \in Seq(S) /\ Ascending(S) \in Seq(Nat)
           /\ ToSet(Ascending(S)) = S
           /\ IsInjective(Ascending(S))
           /\ \A k, m \in 1 .. Len(Ascending(S)) : k < m => Ascending(S)[k] < Ascending(S)[m]
<1>a. PICK a : a = Ascending(S)
    OBVIOUS
<1>1. PICK n \in Nat :
        /\ a = Ascending(S) /\ a \in [1 .. n -> S]
        /\ \A i \in S : \E k \in 1 .. n : a[k] = i
        /\ \A k, m \in 1 .. n : k < m => a[k] < a[m]
    <2>1. S \in SUBSET Int
        OBVIOUS
    <2> QED BY <1>a, <2>1, AscendingOrders
<1>2. a \in Seq(S) /\ Len(a) = n /\ DOMAIN a = 1 .. n
    <2>1. a \in Seq(S)
        BY <1>1, SeqDef
    <2> QED BY <1>1, <2>1, LenProperties
<1>3. a \in Seq(Nat)
    BY <1>2, SeqMonotonic
<1>4. ToSet(a) = S
    BY <1>1, <1>2 DEF ToSet
<1>5. ASSUME NEW k \in 1 .. n, NEW m \in 1 .. n, a[k] = a[m] PROVE k = m
    <2>1. a[k] \in Nat /\ a[m] \in Nat
        BY <1>1
    <2>2. ~(k < m) /\ ~(m < k)
        BY <1>1, <1>5, <2>1
    <2> QED BY <2>2
<1>6. IsInjective(a)
    BY <1>2, <1>5 DEF IsInjective
<1> QED BY <1>1, <1>2, <1>3, <1>4, <1>6

LEMMA JobFacts ==
    ASSUME NEW j \in Jobs
    PROVE  /\ j.resumed \subseteq 0 .. SampleCount - 1
           /\ j.actual \in Nat
           /\ j.mapStyle \in BOOLEAN /\ j.timeout \in BOOLEAN
           /\ j.mapStyle => j.actual = SampleCount
           /\ Missing(j) \in SUBSET Nat /\ IsFiniteSet(Missing(j))
           /\ \A i \in Missing(j) : i < SampleCount
<1>1. /\ j.resumed \subseteq 0 .. SampleCount - 1
      /\ j.mapStyle \in BOOLEAN /\ j.timeout \in BOOLEAN
      /\ j.mapStyle => j.actual = SampleCount
    BY SizesAssumption DEF Jobs
<1>2. j.actual \in Nat
    BY SizesAssumption DEF Jobs
<1>3. Missing(j) \in SUBSET (0 .. SampleCount - 1)
    BY DEF Missing
<1>4. IsFiniteSet(0 .. SampleCount - 1)
    BY SizesAssumption, FS_Interval
<1>5. IsFiniteSet(Missing(j))
    BY <1>3, <1>4, FS_Subset
<1>6. Missing(j) \in SUBSET Nat /\ \A i \in Missing(j) : i < SampleCount
    BY <1>3, SizesAssumption
<1> QED BY <1>1, <1>2, <1>5, <1>6

\* The caller asks for the missing indexes, each once, in their order.
LEMMA TargetFacts ==
    ASSUME NEW j \in Jobs
    PROVE  /\ Targets(j) \in Seq(Nat)
           /\ Targets(j) \in Seq(Missing(j))
           /\ ToSet(Targets(j)) = Missing(j)
           /\ IsInjective(Targets(j))
           /\ \A k, m \in 1 .. Len(Targets(j)) : k < m => Targets(j)[k] < Targets(j)[m]
BY JobFacts, AscendingSeq DEF Targets

LEMMA FlatCountType == FlatCount \in Nat \ {0} /\ FlatCount = Workers * Loaders
<1>1. Workers \in Nat /\ Workers >= 1 /\ Loaders \in Nat /\ Loaders >= 1
    BY SizesAssumption
<1>2. Loaders * 1 <= Loaders * Workers
    BY <1>1, TimesMonotonic
<1>3. Loaders * Workers = Workers * Loaders /\ Workers * Loaders \in Nat
    BY <1>1
<1> QED BY <1>1, <1>2, <1>3 DEF FlatCount

\* Where row i of an iterable arrives in its process.
LEMMA PlaceIs ==
    ASSUME NEW r \in Ranks, NEW i \in Nat,
           \E l \in 0 .. Loaders - 1 : i % FlatCount = FlatIndex(r, l)
    PROVE  \E l \in 0 .. Loaders - 1, p \in Nat, a \in Nat, b \in 0 .. BatchSize - 1 :
            /\ i = FlatCount * p + (l * Workers + r)
            /\ p = BatchSize * a + b
            /\ Place(r, i) = BatchSize * (Loaders * a + l) + b
<1>1. PICK p \in Nat, m \in 0 .. FlatCount - 1 :
        i = FlatCount * p + m /\ p = i \div FlatCount /\ m = i % FlatCount
    BY FlatCountType, Division
<1>2. PICK l \in 0 .. Loaders - 1 :
        /\ l = (CHOOSE k \in 0 .. Loaders - 1 : i % FlatCount = FlatIndex(r, k))
        /\ i % FlatCount = FlatIndex(r, l)
    <2> DEFINE c == CHOOSE k \in 0 .. Loaders - 1 : i % FlatCount = FlatIndex(r, k)
    <2>1. c \in 0 .. Loaders - 1 /\ i % FlatCount = FlatIndex(r, c)
        OBVIOUS
    <2> QED BY <2>1
<1>3. PICK a \in Nat, b \in 0 .. BatchSize - 1 :
        p = BatchSize * a + b /\ a = p \div BatchSize /\ b = p % BatchSize
    <2>1. BatchSize \in Nat \ {0}
        BY SizesAssumption
    <2> QED BY <2>1, Division
<1>4. Place(r, i) = ((p \div BatchSize) * Loaders + l) * BatchSize + (p % BatchSize)
    BY <1>1, <1>2 DEF Place
<1>5. Place(r, i) = (a * Loaders + l) * BatchSize + b
    BY <1>3, <1>4
<1>6. (a * Loaders + l) * BatchSize = BatchSize * (Loaders * a + l)
    BY SizesAssumption
<1> QED BY <1>1, <1>2, <1>3, <1>5, <1>6 DEF FlatIndex

LEMMA PlaceIsInjective ==
    ASSUME NEW r \in Ranks, NEW i \in Nat, NEW k \in Nat,
           \E l \in 0 .. Loaders - 1 : i % FlatCount = FlatIndex(r, l),
           \E l \in 0 .. Loaders - 1 : k % FlatCount = FlatIndex(r, l),
           Place(r, i) = Place(r, k)
    PROVE  i = k
<1>0. Loaders \in Nat \ {0} /\ BatchSize \in Nat \ {0}
    BY SizesAssumption
<1>1. PICK l \in 0 .. Loaders - 1, p \in Nat, a \in Nat, b \in 0 .. BatchSize - 1 :
        /\ i = FlatCount * p + (l * Workers + r)
        /\ p = BatchSize * a + b
        /\ Place(r, i) = BatchSize * (Loaders * a + l) + b
    BY PlaceIs
<1>2. PICK m \in 0 .. Loaders - 1, q \in Nat, c \in Nat, d \in 0 .. BatchSize - 1 :
        /\ k = FlatCount * q + (m * Workers + r)
        /\ q = BatchSize * c + d
        /\ Place(r, k) = BatchSize * (Loaders * c + m) + d
    BY PlaceIs
<1>3. PICK x \in Nat, y \in Nat : x = Loaders * a + l /\ y = Loaders * c + m
    <2>1. Loaders * a \in Nat /\ Loaders * c \in Nat
        BY <1>0
    <2> QED BY <1>0, <2>1
<1>4. x = y /\ b = d
    <2>1. BatchSize * x + b = BatchSize * y + d
        BY <1>1, <1>2, <1>3
    <2>2. \A g, h \in Nat : \A e, f \in 0 .. BatchSize - 1 :
            BatchSize * g + e = BatchSize * h + f => g = h /\ e = f
        BY <1>0, DivisionIsUnique
    <2> QED BY <1>0, <2>1, <2>2
<1>5. a = c /\ l = m
    <2>1. Loaders * a + l = Loaders * c + m
        BY <1>3, <1>4
    <2>2. \A g, h \in Nat : \A e, f \in 0 .. Loaders - 1 :
            Loaders * g + e = Loaders * h + f => g = h /\ e = f
        BY <1>0, DivisionIsUnique
    <2> QED BY <1>0, <2>1, <2>2
<1> QED BY <1>1, <1>2, <1>4, <1>5

\* The caller expects row i of an iterable from the process that reads it.
LEMMA RankIs ==
    ASSUME NEW r \in Ranks, NEW i \in Nat,
           \E l \in 0 .. Loaders - 1 : i % FlatCount = FlatIndex(r, l)
    PROVE  i % Workers = r
<1>0. Workers \in Nat \ {0} /\ Loaders \in Nat \ {0} /\ r \in 0 .. Workers - 1
    BY SizesAssumption DEF Ranks
<1>1. PICK l \in 0 .. Loaders - 1, p \in Nat : i = FlatCount * p + (l * Workers + r)
    BY PlaceIs
<1>2. PICK q \in Nat, m \in 0 .. Workers - 1 :
        i = Workers * q + m /\ q = i \div Workers /\ m = i % Workers
    BY <1>0, Division
<1>3. PICK x \in Nat : x = Loaders * p + l
    <2>1. Loaders * p \in Nat
        BY <1>0
    <2> QED BY <1>0, <2>1
<1>4. i = Workers * x + r
    <2>1. (Workers * Loaders) * p + l * Workers = Workers * (Loaders * p + l)
        BY <1>0
    <2>2. (Workers * Loaders) * p \in Int /\ l * Workers \in Int
        BY <1>0
    <2> QED BY <1>0, <1>1, <1>3, <2>1, <2>2, FlatCountType
<1>5. m = r
    <2>1. \A a, b \in Nat : \A c, d \in 0 .. Workers - 1 :
            Workers * a + c = Workers * b + d => c = d
        BY <1>0, DivisionIsUnique
    <2>2. Workers * q + m = Workers * x + r
        BY <1>2, <1>4
    <2> QED BY <1>0, <2>1, <2>2
<1> QED BY <1>2, <1>5

\* A worker reads the rows of its shard, each once; the caller expects them from it.
LEMMA ShardFacts ==
    ASSUME NEW j \in Jobs, NEW r \in Ranks
    PROVE  /\ ShardRows(j, r) \in Seq(Nat)
           /\ IsInjective(ShardRows(j, r))
           /\ ToSet(ShardRows(j, r)) = ShardOf(j, r)
           /\ \A i \in ShardOf(j, r) : TargetRank(j, i) = r
           /\ j.mapStyle =>
                \A k, m \in 1 .. Len(ShardRows(j, r)) :
                    k < m => ShardRows(j, r)[k] < ShardRows(j, r)[m]
<1> DEFINE X == ShardOf(j, r)
<1>0. /\ Missing(j) \in SUBSET Nat /\ IsFiniteSet(Missing(j)) /\ j.actual \in Nat
      /\ j.mapStyle \in BOOLEAN
    BY JobFacts
<1>1. CASE j.mapStyle
    <2>1. X = {i \in Missing(j) : TargetRank(j, i) = r}
        BY <1>1 DEF ShardOf
    <2>2. X \in SUBSET Nat /\ IsFiniteSet(X) /\ \A i \in X : TargetRank(j, i) = r
        <3>1. X \in SUBSET Missing(j)
            BY <2>1
        <3>2. IsFiniteSet(X)
            BY <1>0, <3>1, FS_Subset
        <3> QED BY <1>0, <2>1, <3>1, <3>2
    <2>3. ShardRows(j, r) = Ascending(X)
        BY <1>1 DEF ShardRows
    <2> HIDE DEF X
    <2>4. /\ Ascending(X) \in Seq(Nat) /\ ToSet(Ascending(X)) = X
          /\ IsInjective(Ascending(X))
          /\ \A k, m \in 1 .. Len(Ascending(X)) : k < m => Ascending(X)[k] < Ascending(X)[m]
        BY <2>2, AscendingSeq
    <2> QED BY <2>2, <2>3, <2>4 DEF X
<1>2. CASE ~j.mapStyle
    <2>1. X = {i \in (0 .. j.actual - 1) \ j.resumed :
                \E l \in 0 .. Loaders - 1 : i % FlatCount = FlatIndex(r, l)}
        BY <1>2 DEF ShardOf
    <2>2. \A i \in X : /\ i \in Nat
                       /\ \E l \in 0 .. Loaders - 1 : i % FlatCount = FlatIndex(r, l)
        BY <1>0, <2>1
    <2>3. X \in SUBSET Nat /\ IsFiniteSet(X)
        <3>1. X \in SUBSET (0 .. j.actual - 1)
            BY <2>1
        <3>2. IsFiniteSet(0 .. j.actual - 1)
            BY <1>0, FS_Interval
        <3>3. IsFiniteSet(X)
            BY <3>1, <3>2, FS_Subset
        <3> QED BY <2>2, <3>3
    <2>4. \A i \in X : TargetRank(j, i) = r
        BY <1>2, <2>2, RankIs DEF TargetRank
    <2> DEFINE p == [i \in X |-> Place(r, i)]
    <2>5. ShardRows(j, r) = Arrange(p)
        BY <1>2 DEF ShardRows
    <2> HIDE DEF X
    <2>6. \A i \in X : Place(r, i) \in Int
        <3> SUFFICES ASSUME NEW i \in X PROVE Place(r, i) \in Int
            OBVIOUS
        <3>1. PICK l \in 0 .. Loaders - 1, q \in Nat, a \in Nat, b \in 0 .. BatchSize - 1 :
                Place(r, i) = BatchSize * (Loaders * a + l) + b
            BY <2>2, PlaceIs
        <3>2. Loaders * a + l \in Int
            BY SizesAssumption
        <3>3. BatchSize * (Loaders * a + l) \in Int
            BY <3>2, SizesAssumption
        <3>4. b \in Int
            BY SizesAssumption
        <3> QED BY <3>1, <3>3, <3>4
    <2>7. p \in [X -> Int]
        BY <2>6
    <2>8. \A i, k \in X : p[i] = p[k] => i = k
        <3> SUFFICES ASSUME NEW i \in X, NEW k \in X, p[i] = p[k] PROVE i = k
            OBVIOUS
        <3>1. Place(r, i) = Place(r, k)
            OBVIOUS
        <3> QED BY <2>2, <3>1, PlaceIsInjective
    <2> HIDE DEF p
    <2>9. PICK s : s = Arrange(p) /\ s \in Seq(X) /\ ToSet(s) = X /\ IsInjective(s)
        BY <2>3, <2>7, <2>8, ArrangeOrders
    <2>10. s \in Seq(Nat)
        BY <2>3, <2>9, SeqMonotonic
    <2>14. ShardRows(j, r) = s
        BY <2>5, <2>9
    <2> QED BY <1>2, <2>4, <2>9, <2>10, <2>14 DEF X
<1> QED BY <1>0, <1>1, <1>2

\* A row beyond the length of the dataset is in some shard.
LEMMA EveryRowIsRead ==
    ASSUME NEW j \in Jobs, ~j.mapStyle, NEW i \in Nat, i < j.actual, i \notin j.resumed
    PROVE  \E r \in Ranks : i \in ShardOf(j, r)
<1>0. Workers \in Nat \ {0} /\ Loaders \in Nat \ {0} /\ j.actual \in Nat
    BY SizesAssumption, JobFacts
<1>1. PICK m \in 0 .. FlatCount - 1 : m = i % FlatCount
    BY FlatCountType, Division
<1>2. PICK l \in Nat, r \in 0 .. Workers - 1 :
        m = Workers * l + r /\ l = m \div Workers /\ r = m % Workers
    <2>1. m \in Nat
        BY FlatCountType
    <2> QED BY <1>0, <2>1, Division
<1>3. l \in 0 .. Loaders - 1
    <2> SUFFICES ASSUME ~(l < Loaders) PROVE FALSE
        BY <1>0
    <2>1. Workers * Loaders <= Workers * l
        BY <1>0, TimesMonotonic
    <2>2. Workers * l \in Nat /\ Workers * Loaders \in Nat
        BY <1>0
    <2>3. m < Workers * Loaders
        BY FlatCountType
    <2>4. m >= Workers * l
        BY <1>2, <2>2, <1>0
    <2>5. m \in Int
        BY FlatCountType
    <2> QED BY <2>1, <2>2, <2>3, <2>4, <2>5
<1>4. l * Workers + r = m
    <2>1. l * Workers = Workers * l
        BY <1>0
    <2> QED BY <1>2, <2>1
<1>5. i % FlatCount = FlatIndex(r, l)
    BY <1>1, <1>4 DEF FlatIndex
<1>6. i \in (0 .. j.actual - 1) \ j.resumed
    BY <1>0
<1> QED BY <1>3, <1>5, <1>6 DEF ShardOf, Ranks

-----------------------------------------------------------------------------
(* The inductive invariant.                                                *)

WorkerStates == {"new", "scanning", "putting", "reporting", "leaving", "hung",
                 "quit", "left", "crashed", "killed"}

Phases == {"starting", "merging", "yielded", "draining", "joining", "ended"}

CollectTypeOK ==
    /\ job \in Jobs
    /\ worker \in [Ranks -> WorkerStates]
    /\ todo \in [Ranks -> Seq(Nat)]
    /\ held \in [Ranks -> Seq(Nat)]
    /\ raised \in SUBSET Ranks
    /\ queue \in [Ranks -> Seq(Messages)]
    /\ phase \in Phases
    /\ taken \in Nat
    /\ rows \in Seq(Nat)
    /\ chunks \in Seq(Seq(Nat))
    /\ buffer \in [Ranks -> SUBSET Nat]
    /\ done \in SUBSET Ranks
    /\ outcome \in {"none", "complete", "failed", "abandoned"}

\* What was yielded and assembled is what was taken, of the targets in order.
DeliveredInv ==
    /\ taken <= Len(Targets(job))
    /\ FlattenSeq(chunks) \o rows = SubSeq(Targets(job), 1, taken)
    /\ Len(rows) < CommitSamples
    /\ phase \in {"draining", "joining"} => taken = Len(Targets(job)) /\ rows = <<>>
    /\ outcome = "none" <=> phase # "ended"

Consumed == {Targets(job)[m] : m \in 1 .. taken}

\* The shard of r: rows the caller read, rows in its queue, rows lost with the
\* process, rows in its hand, rows to come.
Split(r, passed, lost) ==
    /\ ShardRows(job, r)
        = passed \o (RowsIn(queue[r]) \o (lost \o (held[r] \o todo[r])))
    /\ buffer[r] = ToSet(passed) \ Consumed
    /\ Consumed \cap ToSet(ShardRows(job, r)) \subseteq ToSet(passed)
    /\ lost # <<>> => worker[r] = "crashed"

HasReport(r) == \E k \in 1 .. Len(queue[r]) : queue[r][k].kind = "report"

Reported(r) == r \in done \/ HasReport(r)

SplitInv(r) ==
    \E passed, lost \in Seq(Nat) :
        /\ Split(r, passed, lost)
        /\ Reported(r) => lost = <<>>

\* A report is the last message, and tells whether the worker went through its
\* shard.
ReportInv(r) ==
    /\ worker[r] \in {"new", "scanning", "reporting"} => held[r] = <<>>
    /\ worker[r] = "reporting" => r \in raised \/ todo[r] = <<>>
    /\ Reported(r) => worker[r] \in {"leaving", "left", "crashed", "killed"}
    /\ \A k \in 1 .. Len(queue[r]) :
            queue[r][k].kind = "report" =>
                /\ k = Len(queue[r])
                /\ queue[r][k].failed <=> r \in raised
                /\ r \in raised \/ (todo[r] = <<>> /\ held[r] = <<>>)
                /\ r \notin done
    /\ r \in done => /\ queue[r] = <<>> /\ todo[r] = <<>> /\ held[r] = <<>>
                     /\ r \notin raised

\* Chunks, queues and the caller's buffer are bounded.
RoomInv(r) ==
    /\ Len(held[r]) <= WorkerCommit
    /\ Len(queue[r]) <= QueueSize
    /\ \A k \in 1 .. Len(queue[r]) : Len(MessageRows(queue[r][k])) <= WorkerCommit
    /\ job.mapStyle => IsFiniteSet(buffer[r]) /\ Cardinality(buffer[r]) <= WorkerCommit

\* The collection is only completed when all have reported and nothing is left.
FinishInv ==
    phase = "joining" \/ outcome = "complete" =>
        done = Ranks /\ \A r \in Ranks : buffer[r] = {}

CollectInv ==
    /\ CollectTypeOK
    /\ DeliveredInv
    /\ \A r \in Ranks : SplitInv(r) /\ ReportInv(r) /\ RoomInv(r)
    /\ FinishInv

-----------------------------------------------------------------------------
(* The steps, by what they change.                                         *)

Ends == phase # "ended" /\ \E how \in {"failed", "abandoned"} : End(how)

\* The reports are in and nothing is left over.
Finishes ==
    /\ phase = "draining" /\ done = Ranks
    /\ \A r \in Ranks : buffer[r] = {}
    /\ phase' = "joining"
    /\ UNCHANGED <<job, workers, taken, rows, chunks, buffer, done, outcome>>

\* Only the state of the process of r changes.
Moves(r) == ShardEnds(r) \/ Leave(r) \/ QuietExit(r) \/ Hang(r)

LEMMA NextCases ==
    ASSUME Next
    PROVE  \/ Ends \/ Start \/ TakeRow \/ Resume \/ YieldRest \/ StartDraining \/ Finishes \/ Join
           \/ \E r \in Ranks : \/ ReadChunk(r) \/ ReadReport(r) \/ Judge(r) \/ PutChunk(r)
                               \/ PutReport(r) \/ Raise(r) \/ Crash(r) \/ Moves(r)
<1>1. CASE StartFails
    BY <1>1 DEF StartFails, Ends
<1>2. CASE Abandon
    BY <1>2 DEF Abandon, Ends
<1>3. CASE RowIsMissing
    BY <1>3 DEF RowIsMissing, Merging, Ends
<1>4. CASE Drained
    <2>1. CASE \A r \in Ranks : buffer[r] = {}
        BY <1>4, <2>1 DEF Drained, Finishes
    <2>2. CASE ~ \A r \in Ranks : buffer[r] = {}
        BY <1>4, <2>2 DEF Drained, Ends
    <2> QED BY <2>1, <2>2
<1>5. ASSUME NEW r \in Ranks, ReadFailure(r) \/ SeeDead(r) \/ TimeOut(r) PROVE Ends
    <2>1. Reads(r) /\ End("failed")
        BY <1>5 DEF ReadFailure, SeeDead, TimeOut
    <2>2. phase # "ended"
        BY <2>1 DEF Reads, Merging
    <2> QED BY <2>1, <2>2 DEF Ends
<1>6. ASSUME NEW r \in Ranks, Worker(r) \/ Environment(r)
      PROVE  \/ Judge(r) \/ PutChunk(r) \/ PutReport(r) \/ Raise(r) \/ Crash(r) \/ Moves(r)
    BY <1>6 DEF Worker, Environment, Moves
<1>7. CASE Caller
    BY <1>3, <1>4, <1>5, <1>7 DEF Caller
<1> QED BY <1>1, <1>2, <1>6, <1>7 DEF Next

\* A process is ended, or goes on as it was.
LEMMA EndKeepsTypes ==
    ASSUME worker \in [Ranks -> WorkerStates],
           worker' = [r \in Ranks |-> IF Alive(r) THEN "killed" ELSE worker[r]]
    PROVE  worker' \in [Ranks -> WorkerStates]
BY DEF WorkerStates

LEMMA InitTypes == Init => CollectTypeOK
<1> SUFFICES ASSUME Init PROVE CollectTypeOK
    OBVIOUS
<1>1. todo \in [Ranks -> Seq(Nat)]
    <2>1. \A r \in Ranks : ShardRows(job, r) \in Seq(Nat)
        BY ShardFacts DEF Init
    <2> QED BY <2>1 DEF Init
<1>2. held \in [Ranks -> Seq(Nat)] /\ queue \in [Ranks -> Seq(Messages)]
    BY EmptySeq DEF Init
<1>3. rows \in Seq(Nat) /\ chunks \in Seq(Seq(Nat))
    BY EmptySeq DEF Init
<1>4. worker \in [Ranks -> WorkerStates] /\ phase \in Phases
    BY DEF Init, WorkerStates, Phases
<1>5. buffer \in [Ranks -> SUBSET Nat]
    BY DEF Init
<1> QED BY <1>1, <1>2, <1>3, <1>4, <1>5 DEF Init, CollectTypeOK

\* While rows are merged there is a next one, of a rank that exists.
LEMMA WantedFacts ==
    ASSUME CollectTypeOK, Merging
    PROVE  /\ taken + 1 \in 1 .. Len(Targets(job))
           /\ Wanted = Targets(job)[taken + 1]
           /\ Wanted \in Missing(job) /\ Wanted \in Nat
           /\ WantedRank \in Ranks /\ WantedRank = TargetRank(job, Wanted)
           /\ Len(Targets(job)) \in Nat
<1>1. job \in Jobs /\ taken \in Nat
    BY DEF CollectTypeOK
<1>2. /\ Targets(job) \in Seq(Missing(job)) /\ Missing(job) \in SUBSET Nat
      /\ IsFiniteSet(Missing(job)) /\ job.mapStyle \in BOOLEAN
    BY <1>1, TargetFacts, JobFacts
<1>3. Len(Targets(job)) \in Nat
    BY <1>2, LenProperties
<1>4. taken + 1 \in 1 .. Len(Targets(job))
    BY <1>1, <1>3 DEF Merging
<1>5. Wanted = Targets(job)[taken + 1] /\ Wanted \in Missing(job)
    BY <1>2, <1>4, ElementOfSeq DEF Wanted
<1>6. WantedRank \in Ranks
    <2>0. Workers \in Nat \ {0}
        BY SizesAssumption
    <2>1. \A n \in Nat : n % Workers \in Ranks
        BY <2>0, Division DEF Ranks
    <2>2. Cardinality({k \in Missing(job) : k < Wanted}) \in Nat
        <3>1. {k \in Missing(job) : k < Wanted} \in SUBSET Missing(job)
            OBVIOUS
        <3>2. IsFiniteSet({k \in Missing(job) : k < Wanted})
            BY <1>2, <3>1, FS_Subset
        <3> QED BY <3>2, FS_CardinalityType
    <2>3. TargetRank(job, Wanted) \in Ranks
        BY <1>2, <1>5, <2>1, <2>2 DEF TargetRank
    <2> QED BY <2>3 DEF WantedRank
<1> QED BY <1>2, <1>3, <1>4, <1>5, <1>6 DEF WantedRank

\* What is done with a full chunk.
LEMMA YieldTypes ==
    ASSUME NEW s \in Seq(Nat), rows \in Seq(Nat), chunks \in Seq(Seq(Nat)), phase \in Phases,
           YieldFull(s)
    PROVE  rows' \in Seq(Nat) /\ chunks' \in Seq(Seq(Nat)) /\ phase' \in Phases
<1>1. CASE Len(s) = CommitSamples
    <2>1. chunks' = Append(chunks, s) /\ rows' = <<>> /\ phase' = "yielded"
        BY <1>1 DEF YieldFull
    <2>2. Append(chunks, s) \in Seq(Seq(Nat))
        BY AppendProperties
    <2> QED BY <2>1, <2>2, EmptySeq DEF Phases
<1>2. CASE Len(s) # CommitSamples
    BY <1>2 DEF YieldFull
<1> QED BY <1>1, <1>2

LEMMA TypesStep ==
    ASSUME CollectTypeOK, [Next]_vars
    PROVE  CollectTypeOK'
<1> USE DEF CollectTypeOK
<1>1. CASE UNCHANGED vars
    BY <1>1 DEF vars
<1>2. CASE Ends
    <2>1. PICK how \in {"failed", "abandoned"} : End(how)
        BY <1>2 DEF Ends
    <2>2. worker' \in [Ranks -> WorkerStates]
        BY <2>1, EndKeepsTypes DEF End
    <2> QED BY <2>1, <2>2 DEF End, Phases
<1>3. CASE Start
    <2>1. worker' \in [Ranks -> WorkerStates]
        BY <1>3 DEF Start, WorkerStates
    <2>2. phase' \in Phases
        BY <1>3 DEF Start, Phases
    <2> QED BY <1>3, <2>1, <2>2 DEF Start
<1>4. CASE TakeRow
    <2>1. Merging
        BY <1>4 DEF TakeRow
    <2>2. Wanted \in Nat /\ WantedRank \in Ranks
        BY <2>1, WantedFacts
    <2>3. Append(rows, Wanted) \in Seq(Nat) /\ YieldFull(Append(rows, Wanted))
        BY <1>4, <2>2, AppendProperties DEF TakeRow
    <2>4. rows' \in Seq(Nat) /\ chunks' \in Seq(Seq(Nat)) /\ phase' \in Phases
        BY <2>3, YieldTypes
    <2>5. buffer' \in [Ranks -> SUBSET Nat]
        BY <1>4, <2>2 DEF TakeRow
    <2>6. taken' \in Nat
        BY <1>4 DEF TakeRow
    <2> QED BY <1>4, <2>4, <2>5, <2>6 DEF TakeRow, workers
<1>5. CASE Resume \/ StartDraining \/ Finishes
    BY <1>5 DEF Resume, StartDraining, Finishes, Phases, workers
<1>6. CASE YieldRest
    <2>1. chunks' \in Seq(Seq(Nat)) /\ rows' \in Seq(Nat)
        BY <1>6, AppendProperties, EmptySeq DEF YieldRest
    <2> QED BY <1>6, <2>1 DEF YieldRest, Phases, workers
<1>7. CASE Join
    <2>1. worker' \in [Ranks -> WorkerStates]
        BY <1>7, EndKeepsTypes DEF Join
    <2>2. outcome' \in {"none", "complete", "failed", "abandoned"}
        BY <1>7 DEF Join
    <2> QED BY <1>7, <2>1, <2>2 DEF Join, Phases
<1>8. ASSUME NEW r \in Ranks, ReadChunk(r) \/ ReadReport(r) PROVE CollectTypeOK'
    <2>1. queue' = [queue EXCEPT ![r] = Tail(queue[r])] /\ queue[r] # <<>>
        BY <1>8 DEF ReadChunk, ReadReport
    <2>2. queue[r] \in Seq(Messages)
        OBVIOUS
    <2>3. Head(queue[r]) \in Messages /\ Tail(queue[r]) \in Seq(Messages)
        BY <2>1, <2>2, RowsInHead
    <2>4. queue' \in [Ranks -> Seq(Messages)]
        BY <2>1, <2>3
    <2>5. CASE ReadReport(r)
        BY <2>4, <2>5 DEF ReadReport
    <2>6. CASE ReadChunk(r)
        <3>1. /\ Head(queue[r]).kind = "chunk"
              /\ buffer' = [buffer EXCEPT ![r] = buffer[r] \cup ToSet(Head(queue[r]).rows)]
            BY <2>6 DEF ReadChunk
        <3>2. Head(queue[r]).rows \in Seq(Nat)
            BY <2>3, <3>1, MessageRowsType DEF MessageRows
        <3>3. ToSet(Head(queue[r]).rows) \in SUBSET Nat
            BY <3>2 DEF ToSet
        <3>4. buffer' \in [Ranks -> SUBSET Nat]
            BY <3>1, <3>3
        <3> QED BY <2>4, <2>6, <3>4 DEF ReadChunk
    <2> QED BY <1>8, <2>5, <2>6
<1>9. ASSUME NEW r \in Ranks, Judge(r) PROVE CollectTypeOK'
    <2>1. PICK n \in Nat : /\ n <= Len(todo[r])
                           /\ held' = [held EXCEPT ![r] = SubSeq(todo[r], 1, n)]
                           /\ todo' = [todo EXCEPT ![r] = SubSeq(todo[r], n + 1, Len(todo[r]))]
        <3>1. Len(todo[r]) \in Nat /\ WorkerCommit \in Nat
            BY SizesAssumption, LenProperties
        <3>2. PICK n \in Nat : /\ n = IF Len(todo[r]) < WorkerCommit THEN Len(todo[r])
                                      ELSE WorkerCommit
                               /\ n <= Len(todo[r])
            BY <3>1
        <3> QED BY <1>9, <3>2 DEF Judge
    <2>2. \A i \in 1 .. Len(todo[r]) : todo[r][i] \in Nat
        BY ElementOfSeq
    <2>3. Len(todo[r]) \in Nat
        BY LenProperties
    <2>4. SubSeq(todo[r], 1, n) \in Seq(Nat)
        BY <2>1, <2>2, <2>3, SubSeqProperties
    <2>5. SubSeq(todo[r], n + 1, Len(todo[r])) \in Seq(Nat)
        BY <2>1, <2>2, <2>3, SubSeqProperties
    <2>6. held' \in [Ranks -> Seq(Nat)] /\ todo' \in [Ranks -> Seq(Nat)]
        BY <2>1, <2>4, <2>5
    <2>7. worker' \in [Ranks -> WorkerStates]
        BY <1>9 DEF Judge, WorkerStates
    <2> QED BY <1>9, <2>6, <2>7 DEF Judge, caller
<1>10. ASSUME NEW r \in Ranks, PutChunk(r) PROVE CollectTypeOK'
    <2>1. Chunk(held[r]) \in Messages
        BY DEF Chunk, Messages
    <2>2. Append(queue[r], Chunk(held[r])) \in Seq(Messages)
        BY <2>1, AppendProperties
    <2>3. queue' \in [Ranks -> Seq(Messages)]
        BY <1>10, <2>2 DEF PutChunk, Put
    <2>4. held' \in [Ranks -> Seq(Nat)]
        BY <1>10, EmptySeq DEF PutChunk
    <2>5. worker' \in [Ranks -> WorkerStates]
        BY <1>10 DEF PutChunk, WorkerStates
    <2> QED BY <1>10, <2>3, <2>4, <2>5 DEF PutChunk, caller
<1>11. ASSUME NEW r \in Ranks, PutReport(r) PROVE CollectTypeOK'
    <2>1. Report(r \in raised) \in Messages
        BY DEF Report, Messages
    <2>2. Append(queue[r], Report(r \in raised)) \in Seq(Messages)
        BY <2>1, AppendProperties
    <2>3. queue' \in [Ranks -> Seq(Messages)]
        BY <1>11, <2>2 DEF PutReport, Put
    <2>4. worker' \in [Ranks -> WorkerStates]
        BY <1>11 DEF PutReport, WorkerStates
    <2> QED BY <1>11, <2>3, <2>4 DEF PutReport, caller
<1>12. ASSUME NEW r \in Ranks, Raise(r) PROVE CollectTypeOK'
    <2>1. worker' \in [Ranks -> WorkerStates]
        BY <1>12 DEF Raise, WorkerStates
    <2> QED BY <1>12, <2>1 DEF Raise, caller
<1>13. ASSUME NEW r \in Ranks, Crash(r) PROVE CollectTypeOK'
    <2>1. worker' \in [Ranks -> WorkerStates]
        BY <1>13 DEF Crash, WorkerStates
    <2>2. PICK n \in 0 .. Len(queue[r]) :
            queue' = [queue EXCEPT ![r] = SubSeq(queue[r], 1, n)]
        BY <1>13 DEF Crash
    <2>3. SubSeq(queue[r], 1, n) \in Seq(Messages)
        <3>1. \A i \in 1 .. Len(queue[r]) : queue[r][i] \in Messages
            BY ElementOfSeq
        <3>2. Len(queue[r]) \in Nat
            BY LenProperties
        <3> QED BY <3>1, <3>2, SubSeqProperties
    <2>4. queue' \in [Ranks -> Seq(Messages)]
        BY <2>2, <2>3
    <2> QED BY <1>13, <2>1, <2>4 DEF Crash, caller
<1>14. ASSUME NEW r \in Ranks, Moves(r) PROVE CollectTypeOK'
    <2>1. worker' \in [Ranks -> WorkerStates]
        BY <1>14 DEF Moves, ShardEnds, Leave, QuietExit, Hang, WorkerStates
    <2> QED BY <1>14, <2>1 DEF Moves, ShardEnds, Leave, QuietExit, Hang, caller
<1> QED BY <1>1, <1>2, <1>3, <1>4, <1>5, <1>6, <1>7, <1>8, <1>9, <1>10, <1>11, <1>12, <1>13,
           <1>14, NextCases

-----------------------------------------------------------------------------
(* The rows are delivered in order.                                        *)

LEMMA PrefixType ==
    ASSUME NEW S, NEW s \in Seq(S), NEW n \in 0 .. Len(s)
    PROVE  /\ SubSeq(s, 1, n) \in Seq(S)
           /\ Len(SubSeq(s, 1, n)) = n
           /\ \A i \in 1 .. n : SubSeq(s, 1, n)[i] = s[i]
<1>1. Len(s) \in Nat /\ \A i \in 1 .. Len(s) : s[i] \in S
    BY LenProperties, ElementOfSeq
<1>2. \A i \in 1 .. n : s[i] \in S
    BY <1>1
<1>3. n \in Int
    BY <1>1
<1>4. /\ SubSeq(s, 1, n) \in Seq(S)
      /\ Len(SubSeq(s, 1, n)) = IF 1 <= n THEN n - 1 + 1 ELSE 0
      /\ \A i \in 1 .. n - 1 + 1 : SubSeq(s, 1, n)[i] = s[1 + i - 1]
    BY <1>2, <1>3, SubSeqProperties
<1>5. n \in Nat /\ n - 1 + 1 = n /\ \A i \in 1 .. n : 1 + i - 1 = i
    BY <1>1
<1> QED BY <1>4, <1>5

LEMMA PrefixGrows ==
    ASSUME NEW S, NEW s \in Seq(S), NEW n \in 0 .. Len(s), n + 1 <= Len(s)
    PROVE  SubSeq(s, 1, n + 1) = Append(SubSeq(s, 1, n), s[n + 1])
<1>0. Len(s) \in Nat
    BY LenProperties
<1>1. PICK m \in 0 .. Len(s) : m = n + 1
    BY <1>0
<1>2. s[m] \in S
    <2>1. m \in 1 .. Len(s)
        BY <1>0, <1>1
    <2> QED BY <2>1, ElementOfSeq
<1>3. PICK a \in Seq(S) : a = SubSeq(s, 1, n) /\ Len(a) = n /\ \A i \in 1 .. n : a[i] = s[i]
    BY PrefixType
<1>4. PICK b \in Seq(S) : b = SubSeq(s, 1, m) /\ Len(b) = m /\ \A i \in 1 .. m : b[i] = s[i]
    BY PrefixType
<1>5. PICK c \in Seq(S) : /\ c = Append(a, s[m]) /\ Len(c) = Len(a) + 1
                          /\ \A i \in 1 .. Len(a) : c[i] = a[i]
                          /\ c[Len(a) + 1] = s[m]
    BY <1>2, AppendProperties
<1>6. Len(b) = Len(c) /\ \A i \in 1 .. Len(b) : b[i] = c[i]
    BY <1>0, <1>1, <1>3, <1>4, <1>5
<1>7. b = c
    BY <1>6, SeqEqual
<1> QED BY <1>1, <1>3, <1>4, <1>5, <1>7

LEMMA RestOfPrefix ==
    ASSUME NEW S, NEW s \in Seq(S), NEW n \in 0 .. Len(s), NEW a \in Seq(S), NEW b \in Seq(S),
           a \o b = SubSeq(s, 1, n)
    PROVE  Len(a) + Len(b) = n /\ b = SubSeq(s, Len(a) + 1, n)
<1>0. Len(s) \in Nat /\ Len(a) \in Nat /\ Len(b) \in Nat
    BY LenProperties
<1>1. PICK p \in Seq(S) : p = SubSeq(s, 1, n) /\ Len(p) = n /\ \A i \in 1 .. n : p[i] = s[i]
    BY PrefixType
<1>2. /\ Len(a \o b) = Len(a) + Len(b)
      /\ \A i \in 1 .. Len(a) + Len(b) : (a \o b)[i] = IF i <= Len(a) THEN a[i] ELSE b[i - Len(a)]
    BY ConcatProperties
<1>3. Len(a) + Len(b) = n
    BY <1>1, <1>2
<1>4. \A i \in 1 .. Len(b) : b[i] = s[Len(a) + i]
    <2> SUFFICES ASSUME NEW i \in 1 .. Len(b) PROVE b[i] = s[Len(a) + i]
        OBVIOUS
    <2>1. PICK k \in 1 .. Len(a) + Len(b) : k = Len(a) + i
        BY <1>0
    <2>2. (a \o b)[k] = b[k - Len(a)] /\ k - Len(a) = i
        BY <1>0, <1>2, <2>1
    <2>3. p[k] = s[k]
        BY <1>1, <1>3
    <2> QED BY <1>1, <2>1, <2>2, <2>3
<1>5. PICK m \in Int : m = Len(a) + 1
    BY <1>0
<1>6. \A i \in m .. n : s[i] \in S
    <2>1. \A i \in 1 .. Len(s) : s[i] \in S
        BY ElementOfSeq
    <2> QED BY <1>0, <1>5, <2>1
<1>7. PICK c \in Seq(S) : /\ c = SubSeq(s, m, n)
                          /\ Len(c) = IF m <= n THEN n - m + 1 ELSE 0
                          /\ \A i \in 1 .. n - m + 1 : c[i] = s[m + i - 1]
    <2>1. n \in Int
        BY <1>0
    <2>2. /\ SubSeq(s, m, n) \in Seq(S)
          /\ Len(SubSeq(s, m, n)) = IF m <= n THEN n - m + 1 ELSE 0
          /\ \A i \in 1 .. n - m + 1 : SubSeq(s, m, n)[i] = s[m + i - 1]
        BY <1>6, <2>1, SubSeqProperties
    <2> QED BY <2>2
<1>8. Len(c) = Len(b) /\ \A i \in 1 .. Len(b) : b[i] = c[i]
    <2>1. n - m + 1 = Len(b) /\ Len(c) = Len(b)
        BY <1>0, <1>3, <1>5, <1>7
    <2>2. ASSUME NEW i \in 1 .. Len(b) PROVE b[i] = c[i]
        <3>1. m + i - 1 = Len(a) + i
            BY <1>0, <1>5
        <3>2. c[i] = s[m + i - 1]
            BY <1>7, <2>1
        <3> QED BY <1>4, <3>1, <3>2
    <2> QED BY <2>1, <2>2
<1>9. b = c
    BY <1>8, SeqEqual
<1> QED BY <1>3, <1>5, <1>7, <1>9

LEMMA FlattenEmpty == FlattenSeq(<<>>) = <<>>
<1>1. PICK e \in Seq(Seq(Nat)) : e = <<>> /\ Len(e) = 0
    BY EmptySeq
<1>2. FlattenSeq(e) = <<>>
    BY <1>1, FlattenValue
<1> QED BY <1>1, <1>2

LEMMA InitDelivered ==
    ASSUME Init
    PROVE  DeliveredInv
<1>1. job \in Jobs /\ rows = <<>> /\ chunks = <<>> /\ taken = 0
    BY DEF Init
<1>2. Targets(job) \in Seq(Nat) /\ Len(Targets(job)) \in Nat
    BY <1>1, TargetFacts, LenProperties
<1>3. FlattenSeq(chunks) = <<>>
    BY <1>1, FlattenEmpty
<1>4. <<>> \o <<>> = <<>>
    <2>1. <<>> \in Seq(Nat)
        BY EmptySeq
    <2> QED BY <2>1, ConcatEmptySeq
<1>5. SubSeq(Targets(job), 1, 0) = <<>>
    BY SubSeqEmpty
<1>6. Len(rows) < CommitSamples
    <2>1. Len(rows) = 0
        BY <1>1
    <2> QED BY <2>1, SizesAssumption
<1>7. phase = "starting" /\ outcome = "none"
    BY DEF Init
<1>8. FlattenSeq(chunks) \o rows = SubSeq(Targets(job), 1, taken)
    BY <1>1, <1>3, <1>4, <1>5
<1>9. taken <= Len(Targets(job))
    BY <1>1, <1>2
<1> QED BY <1>6, <1>7, <1>8, <1>9 DEF DeliveredInv

LEMMA DeliveredTypes ==
    ASSUME CollectTypeOK, DeliveredInv
    PROVE  /\ Targets(job) \in Seq(Nat) /\ Len(Targets(job)) \in Nat
           /\ taken \in 0 .. Len(Targets(job))
           /\ FlattenSeq(chunks) \in Seq(Nat) /\ rows \in Seq(Nat)
           /\ Len(FlattenSeq(chunks)) \in Nat /\ Len(rows) \in Nat
           /\ Len(FlattenSeq(chunks)) + Len(rows) = taken
           /\ rows = SubSeq(Targets(job), Len(FlattenSeq(chunks)) + 1, taken)
<1>1. job \in Jobs /\ taken \in Nat /\ rows \in Seq(Nat) /\ chunks \in Seq(Seq(Nat))
    BY DEF CollectTypeOK
<1>2. Targets(job) \in Seq(Nat)
    BY <1>1, TargetFacts
<1>3. FlattenSeq(chunks) \in Seq(Nat)
    BY <1>1, FlattenValue
<1>4. /\ Len(Targets(job)) \in Nat /\ Len(FlattenSeq(chunks)) \in Nat /\ Len(rows) \in Nat
    BY <1>1, <1>2, <1>3, LenProperties
<1>5. /\ taken \in 0 .. Len(Targets(job))
      /\ FlattenSeq(chunks) \o rows = SubSeq(Targets(job), 1, taken)
    BY <1>1, <1>4 DEF DeliveredInv
<1>6. /\ Len(FlattenSeq(chunks)) + Len(rows) = taken
      /\ rows = SubSeq(Targets(job), Len(FlattenSeq(chunks)) + 1, taken)
    BY <1>1, <1>2, <1>3, <1>5, RestOfPrefix
<1> QED BY <1>1, <1>2, <1>3, <1>4, <1>5, <1>6

\* The rows with the next one.
LEMMA NextRow ==
    ASSUME CollectTypeOK, DeliveredInv, Merging
    PROVE  /\ Append(rows, Wanted) \in Seq(Nat)
           /\ Len(Append(rows, Wanted)) = Len(rows) + 1
           /\ FlattenSeq(chunks) \o Append(rows, Wanted) = SubSeq(Targets(job), 1, taken + 1)
<1>1. /\ Targets(job) \in Seq(Nat) /\ Len(Targets(job)) \in Nat
      /\ taken \in 0 .. Len(Targets(job))
      /\ FlattenSeq(chunks) \in Seq(Nat) /\ rows \in Seq(Nat)
    BY DeliveredTypes
<1>2. Wanted \in Nat /\ Wanted = Targets(job)[taken + 1] /\ taken + 1 <= Len(Targets(job))
    BY <1>1, WantedFacts
<1>3. FlattenSeq(chunks) \o Append(rows, Wanted) = Append(FlattenSeq(chunks) \o rows, Wanted)
    <2>1. PICK a \in Seq(Nat), b \in Seq(Nat), w \in Nat :
            a = FlattenSeq(chunks) /\ b = rows /\ w = Wanted
        BY <1>1, <1>2
    <2>2. a \o Append(b, w) = Append(a \o b, w)
        BY AppendOfConcat
    <2> QED BY <2>1, <2>2
<1>4. SubSeq(Targets(job), 1, taken + 1)
        = Append(SubSeq(Targets(job), 1, taken), Targets(job)[taken + 1])
    BY <1>1, <1>2, PrefixGrows
<1>5. FlattenSeq(chunks) \o rows = SubSeq(Targets(job), 1, taken)
    BY DEF DeliveredInv
<1> QED BY <1>1, <1>2, <1>3, <1>4, <1>5, AppendProperties

\* A chunk that is yielded follows the ones before it.
LEMMA YieldDelivers ==
    ASSUME NEW s \in Seq(Nat), chunks \in Seq(Seq(Nat)), chunks' = Append(chunks, s), rows' = <<>>
    PROVE  FlattenSeq(chunks') \o rows' = FlattenSeq(chunks) \o s
<1>1. FlattenSeq(Append(chunks, s)) = FlattenSeq(chunks) \o s
    BY FlattenAppend
<1>2. FlattenSeq(chunks) \o s \in Seq(Nat)
    BY FlattenValue, ConcatProperties
<1>3. (FlattenSeq(chunks) \o s) \o <<>> = FlattenSeq(chunks) \o s
    BY <1>2, ConcatEmptySeq
<1> QED BY <1>1, <1>3

LEMMA DeliveredStep ==
    ASSUME CollectTypeOK, DeliveredInv, [Next]_vars
    PROVE  DeliveredInv'
<1>0. /\ Targets(job) \in Seq(Nat) /\ Len(Targets(job)) \in Nat
      /\ taken \in 0 .. Len(Targets(job)) /\ rows \in Seq(Nat) /\ chunks \in Seq(Seq(Nat))
      /\ Len(rows) \in Nat
    BY DeliveredTypes DEF CollectTypeOK
<1>c. CommitSamples \in Nat /\ CommitSamples >= 1
    BY SizesAssumption
<1>1. ASSUME UNCHANGED <<job, taken, rows, chunks, phase, outcome>> PROVE DeliveredInv'
    BY <1>1 DEF DeliveredInv
<1>2. CASE UNCHANGED vars
    BY <1>1, <1>2 DEF vars
<1>3. CASE Ends
    <2>1. /\ UNCHANGED <<job, taken, rows, chunks>>
          /\ phase' = "ended" /\ outcome' # "none"
        BY <1>3 DEF Ends, End
    <2> QED BY <2>1 DEF DeliveredInv
<1>4. CASE Start
    <2>1. /\ UNCHANGED <<job, taken, rows, chunks, outcome>>
          /\ phase = "starting" /\ phase' \in {"starting", "merging"}
        BY <1>4 DEF Start
    <2> QED BY <2>1 DEF DeliveredInv
<1>5. CASE TakeRow
    <2>1. Merging /\ YieldFull(Append(rows, Wanted)) /\ taken' = taken + 1 /\ job' = job
          /\ outcome' = outcome /\ phase = "merging"
        BY <1>5 DEF TakeRow, workers, Merging
    <2>2. taken' <= Len(Targets(job)')
        BY <1>0, <2>1 DEF Merging
    <2> DEFINE s == Append(rows, Wanted)
    <2>3. s \in Seq(Nat) /\ Len(s) = Len(rows) + 1
          /\ FlattenSeq(chunks) \o s = SubSeq(Targets(job), 1, taken + 1)
        BY <2>1, NextRow
    <2>4. YieldFull(s)
        BY <2>1
    <2> HIDE DEF s
    <2>5. CASE Len(s) = CommitSamples
        <3>1. chunks' = Append(chunks, s) /\ rows' = <<>> /\ phase' = "yielded"
            BY <2>4, <2>5 DEF YieldFull
        <3>2. FlattenSeq(chunks') \o rows' = FlattenSeq(chunks) \o s
            BY <1>0, <2>3, <3>1, YieldDelivers
        <3>3. Len(rows') = 0
            BY <3>1
        <3> QED BY <1>c, <2>1, <2>2, <2>3, <3>1, <3>2, <3>3 DEF DeliveredInv
    <2>6. CASE Len(s) # CommitSamples
        <3>1. rows' = s /\ chunks' = chunks /\ phase' = phase
            BY <2>4, <2>6 DEF YieldFull
        <3>2. Len(s) < CommitSamples
            BY <1>0, <1>c, <2>3, <2>6 DEF DeliveredInv
        <3> QED BY <2>1, <2>2, <2>3, <3>1, <3>2 DEF DeliveredInv
    <2> QED BY <2>5, <2>6
<1>6. CASE Resume
    <2>1. UNCHANGED <<job, taken, rows, chunks, outcome>>
          /\ phase = "yielded" /\ phase' = "merging"
        BY <1>6 DEF Resume, workers
    <2> QED BY <2>1 DEF DeliveredInv
<1>7. CASE YieldRest
    <2>1. /\ UNCHANGED <<job, taken, outcome>>
          /\ phase = "merging" /\ phase' = "yielded"
          /\ chunks' = Append(chunks, rows) /\ rows' = <<>>
        BY <1>7 DEF YieldRest, workers
    <2>2. FlattenSeq(chunks') \o rows' = FlattenSeq(chunks) \o rows
        BY <1>0, <2>1, YieldDelivers
    <2>3. Len(rows') = 0
        BY <2>1
    <2> QED BY <1>c, <2>1, <2>2, <2>3 DEF DeliveredInv
<1>8. CASE StartDraining
    <2>1. UNCHANGED <<job, taken, rows, chunks, outcome>>
          /\ phase = "merging" /\ phase' = "draining"
          /\ taken = Len(Targets(job)) /\ rows = <<>>
        BY <1>8 DEF StartDraining, workers
    <2> QED BY <2>1 DEF DeliveredInv
<1>9. CASE Finishes
    <2>1. UNCHANGED <<job, taken, rows, chunks, outcome>>
          /\ phase = "draining" /\ phase' = "joining"
        BY <1>9 DEF Finishes, workers
    <2> QED BY <2>1 DEF DeliveredInv
<1>10. CASE Join
    <2>1. UNCHANGED <<job, taken, rows, chunks>>
          /\ phase' = "ended" /\ outcome' # "none"
        BY <1>10 DEF Join
    <2> QED BY <2>1 DEF DeliveredInv
<1>11. ASSUME NEW r \in Ranks,
              \/ ReadChunk(r) \/ ReadReport(r) \/ Judge(r) \/ PutChunk(r)
              \/ PutReport(r) \/ Raise(r) \/ Crash(r) \/ Moves(r)
       PROVE  DeliveredInv'
    <2>1. UNCHANGED <<job, taken, rows, chunks, phase, outcome>>
        BY <1>11 DEF ReadChunk, ReadReport, Judge, PutChunk, PutReport, Raise, Crash, Moves,
                     ShardEnds, Leave, QuietExit, Hang, caller
    <2> QED BY <1>1, <2>1
<1> QED BY <1>2, <1>3, <1>4, <1>5, <1>6, <1>7, <1>8, <1>9, <1>10, <1>11, NextCases

\* The scan speaks of the same rows.
LEMMA ScanDelivers == \A s : Scan!Delivered(s) = FlattenSeq(s)
BY DEF Scan!Delivered, Scan!FlattenSeq, FlattenSeq

\* A chunk that is full, or the rest, is the chunk an ordered scan delivers.
LEMMA ChunkIsNext ==
    ASSUME CollectTypeOK, DeliveredInv, NEW s \in Seq(Nat), NEW n \in 0 .. Len(Targets(job)),
           FlattenSeq(chunks) \o s = SubSeq(Targets(job), 1, n), s # <<>>,
           Len(s) = CommitSamples \/ (Len(s) < CommitSamples /\ n = Len(Targets(job))),
           chunks' = Append(chunks, s), outcome = "none", UNCHANGED <<job, outcome>>
    PROVE  Scan!Deliver
<1> DEFINE T == Targets(job)
           a == FlattenSeq(chunks)
<1>1. T \in Seq(Nat) /\ Len(T) \in Nat /\ a \in Seq(Nat) /\ Len(a) \in Nat /\ Len(s) \in Nat \ {0}
    <2>1. Len(s) \in Nat \ {0}
        BY EmptySeq
    <2> QED BY <2>1, DeliveredTypes
<1> HIDE DEF T, a
<1>2. Len(a) + Len(s) = n /\ s = SubSeq(T, Len(a) + 1, n)
    <2>1. n \in 0 .. Len(T) /\ a \o s = SubSeq(T, 1, n)
        BY DEF T, a
    <2> QED BY <1>1, <2>1, RestOfPrefix
<1>3. n \in Nat /\ n <= Len(T)
    BY <1>1 DEF T
<1>4. Scan!NextChunk(chunks) = SubSeq(T, Len(a) + 1, n)
    <2>1. Scan!NextChunk(chunks)
            = SubSeq(T, Len(a) + 1,
                     Len(a) + (IF Len(T) - Len(a) < CommitSamples
                               THEN Len(T) - Len(a) ELSE CommitSamples))
        BY ScanDelivers DEF Scan!NextChunk, T, a
    <2>2. CommitSamples \in Nat
        BY SizesAssumption
    <2>3. CASE Len(s) = CommitSamples
        <3>1. ~(Len(T) - Len(a) < CommitSamples) /\ Len(a) + CommitSamples = n
            BY <1>1, <1>2, <1>3, <2>2, <2>3
        <3> QED BY <2>1, <3>1
    <2>4. CASE Len(s) < CommitSamples /\ n = Len(Targets(job))
        <3>1. n = Len(T)
            BY <2>4 DEF T
        <3>2. Len(T) - Len(a) < CommitSamples /\ Len(a) + (Len(T) - Len(a)) = n
            BY <1>1, <1>2, <2>2, <2>4, <3>1
        <3> QED BY <2>1, <3>2
    <2> QED BY <2>3, <2>4
<1>5. Scan!Delivered(chunks) # T
    <2>1. Len(a) # Len(T)
        BY <1>1, <1>2, <1>3
    <2> QED BY <2>1, ScanDelivers DEF a
<1>6. chunks' = Append(chunks, Scan!NextChunk(chunks))
    BY <1>2, <1>4
<1>7. Targets(job)' = Targets(job)
    OBVIOUS
<1> QED BY <1>5, <1>6, <1>7 DEF Scan!Deliver, T

LEMMA ScanStep ==
    ASSUME CollectTypeOK, DeliveredInv, [Next]_vars
    PROVE  [Scan!Next]_(Scan!vars)
<1>0. /\ Targets(job) \in Seq(Nat) /\ Len(Targets(job)) \in Nat
      /\ taken \in 0 .. Len(Targets(job)) /\ rows \in Seq(Nat) /\ Len(rows) \in Nat
      /\ FlattenSeq(chunks) \in Seq(Nat)
    BY DeliveredTypes
<1>1. ASSUME UNCHANGED <<job, chunks, outcome>> PROVE UNCHANGED Scan!vars
    <2>1. Targets(job)' = Targets(job)
        BY <1>1
    <2> QED BY <1>1, <2>1 DEF Scan!vars
<1>2. CASE UNCHANGED vars
    BY <1>1, <1>2 DEF vars
<1>3. CASE Ends
    <2>1. /\ UNCHANGED <<job, chunks>>
          /\ phase # "ended" /\ outcome' \in {"failed", "abandoned"}
        BY <1>3 DEF Ends, End
    <2>2. outcome = "none"
        BY <2>1 DEF DeliveredInv
    <2>3. Targets(job)' = Targets(job)
        BY <2>1
    <2>4. Scan!Stop
        BY <2>1, <2>2, <2>3 DEF Scan!Stop
    <2> QED BY <2>4 DEF Scan!Next
<1>4. CASE Start \/ Resume \/ StartDraining \/ Finishes
    <2>1. UNCHANGED <<job, chunks, outcome>>
        BY <1>4 DEF Start, Resume, StartDraining, Finishes, workers
    <2> QED BY <1>1, <2>1
<1>5. CASE TakeRow
    <2>1. Merging /\ YieldFull(Append(rows, Wanted)) /\ taken' = taken + 1 /\ job' = job
          /\ outcome' = outcome /\ phase = "merging"
        BY <1>5 DEF TakeRow, workers, Merging
    <2>2. PICK s \in Seq(Nat) : /\ s = Append(rows, Wanted) /\ Len(s) = Len(rows) + 1
                                /\ FlattenSeq(chunks) \o s = SubSeq(Targets(job), 1, taken + 1)
        BY <2>1, NextRow
    <2>3. CASE Len(s) = CommitSamples
        <3>1. chunks' = Append(chunks, s)
            BY <2>1, <2>2, <2>3 DEF YieldFull
        <3>2. PICK n \in 0 .. Len(Targets(job)) : n = taken + 1
            BY <1>0, <2>1 DEF Merging
        <3>3. outcome = "none"
            BY <2>1 DEF DeliveredInv
        <3>4. s # <<>>
            <4>1. Len(s) # 0
                BY <1>0, <2>2
            <4> QED BY <4>1
        <3>5. FlattenSeq(chunks) \o s = SubSeq(Targets(job), 1, n)
            BY <2>2, <3>2
        <3>6. Scan!Deliver
            BY <2>1, <2>3, <3>1, <3>3, <3>4, <3>5, ChunkIsNext
        <3> QED BY <3>6 DEF Scan!Next
    <2>4. CASE Len(s) # CommitSamples
        <3>1. UNCHANGED <<job, chunks, outcome>>
            BY <2>1, <2>2, <2>4 DEF YieldFull
        <3> QED BY <1>1, <3>1
    <2> QED BY <2>3, <2>4
<1>6. CASE YieldRest
    <2>1. /\ UNCHANGED <<job, outcome>>
          /\ phase = "merging" /\ taken = Len(Targets(job)) /\ rows # <<>>
          /\ chunks' = Append(chunks, rows)
        BY <1>6 DEF YieldRest, workers
    <2>2. outcome = "none" /\ Len(rows) < CommitSamples
        BY <2>1 DEF DeliveredInv
    <2>3. FlattenSeq(chunks) \o rows = SubSeq(Targets(job), 1, taken)
        BY DEF DeliveredInv
    <2>4. Scan!Deliver
        BY <1>0, <2>1, <2>2, <2>3, ChunkIsNext
    <2> QED BY <2>4 DEF Scan!Next
<1>7. CASE Join
    <2>1. /\ UNCHANGED <<job, chunks>>
          /\ phase = "joining" /\ outcome' \in {"failed", "complete"}
        BY <1>7 DEF Join
    <2>2. outcome = "none"
        BY <2>1 DEF DeliveredInv
    <2>3. Targets(job)' = Targets(job)
        BY <2>1
    <2>4. Scan!Delivered(chunks) = Targets(job)
        <3>1. taken = Len(Targets(job)) /\ rows = <<>>
            BY <2>1 DEF DeliveredInv
        <3>2. FlattenSeq(chunks) \o <<>> = SubSeq(Targets(job), 1, Len(Targets(job)))
            BY <3>1 DEF DeliveredInv
        <3>3. FlattenSeq(chunks) \o <<>> = FlattenSeq(chunks)
            BY <1>0, ConcatEmptySeq
        <3>4. SubSeq(Targets(job), 1, Len(Targets(job))) = Targets(job)
            BY <1>0, SubSeqFull
        <3> QED BY <3>2, <3>3, <3>4, ScanDelivers
    <2>5. Scan!Complete \/ Scan!Stop
        BY <2>1, <2>2, <2>3, <2>4 DEF Scan!Complete, Scan!Stop
    <2> QED BY <2>5 DEF Scan!Next
<1>8. ASSUME NEW r \in Ranks,
              \/ ReadChunk(r) \/ ReadReport(r) \/ Judge(r) \/ PutChunk(r)
              \/ PutReport(r) \/ Raise(r) \/ Crash(r) \/ Moves(r)
       PROVE  UNCHANGED Scan!vars
    <2>1. UNCHANGED <<job, chunks, outcome>>
        BY <1>8 DEF ReadChunk, ReadReport, Judge, PutChunk, PutReport, Raise, Crash, Moves,
                    ShardEnds, Leave, QuietExit, Hang, caller
    <2> QED BY <1>1, <2>1
<1> QED BY <1>2, <1>3, <1>4, <1>5, <1>6, <1>7, <1>8, NextCases

LEMMA DeliveredInvariant == Spec => [](CollectTypeOK /\ DeliveredInv)
<1>1. Init => CollectTypeOK /\ DeliveredInv
    BY InitTypes, InitDelivered
<1>2. CollectTypeOK /\ DeliveredInv /\ [Next]_vars => (CollectTypeOK /\ DeliveredInv)'
    BY TypesStep, DeliveredStep
<1> QED BY <1>1, <1>2, PTL DEF Spec

\* A parallel collection is an ordered scan of the missing rows by one process:
\* whatever workers do, the caller yields the chunks such a scan yields, in its
\* order, and reports completion only after the last.
THEOREM OrderedScanImplemented == Spec => ImplementsScan
<1>1. Init => Scan!Init
    BY DEF Init, Scan!Init
<1>2. CollectTypeOK /\ DeliveredInv /\ [Next]_vars => [Scan!Next]_(Scan!vars)
    BY ScanStep
<1> QED BY <1>1, <1>2, DeliveredInvariant, PTL DEF Spec, ImplementsScan, Scan!Spec

-----------------------------------------------------------------------------
(* The shard of each worker.                                               *)

LEMMA InitSplit ==
    ASSUME Init, NEW r \in Ranks
    PROVE  SplitInv(r) /\ ReportInv(r) /\ RoomInv(r)
<1>1. /\ queue[r] = <<>> /\ held[r] = <<>> /\ todo[r] = ShardRows(job, r) /\ buffer[r] = {}
      /\ worker[r] = "new" /\ done = {} /\ taken = 0 /\ job \in Jobs
    BY DEF Init
<1>2. PICK e \in Seq(Nat) : e = <<>> /\ Len(e) = 0
    BY EmptySeq
<1>3. PICK s \in Seq(Nat) : s = ShardRows(job, r)
    BY <1>1, ShardFacts
<1>4. e \o (e \o (e \o (e \o s))) = s
    <2>1. \A t \in Seq(Nat) : e \o t = t
        BY <1>2, ConcatEmptySeq
    <2> QED BY <2>1
<1>5. RowsIn(queue[r]) = e
    BY <1>1, <1>2, RowsInEmpty
<1>6. Consumed = {}
    BY <1>1 DEF Consumed
<1>7. ToSet(e) = {}
    BY <1>2 DEF ToSet
<1>8. ShardRows(job, r) = e \o (RowsIn(queue[r]) \o (e \o (held[r] \o todo[r])))
    BY <1>1, <1>2, <1>3, <1>4, <1>5
<1>9. Split(r, e, e)
    BY <1>1, <1>2, <1>6, <1>7, <1>8 DEF Split
<1>10. SplitInv(r)
    BY <1>2, <1>9 DEF SplitInv
<1>11. Len(queue[r]) = 0 /\ Len(held[r]) = 0
    BY <1>1, <1>2
<1>12. ReportInv(r)
    <2>1. \A k \in 1 .. Len(queue[r]) : FALSE
        BY <1>11
    <2> QED BY <1>1, <2>1 DEF ReportInv, Reported, HasReport
<1>13. RoomInv(r)
    <2>1. \A k \in 1 .. Len(queue[r]) : FALSE
        BY <1>11
    <2>2. IsFiniteSet(buffer[r]) /\ Cardinality(buffer[r]) = 0
        BY <1>1, FS_EmptySet
    <2>3. WorkerCommit \in Nat /\ QueueSize \in Nat
        BY SizesAssumption
    <2> QED BY <1>11, <2>1, <2>2, <2>3 DEF RoomInv
<1> QED BY <1>10, <1>12, <1>13

\* Of worker r only the state of its process changes, and not back.
Keeps(r) ==
    /\ UNCHANGED <<job, taken>>
    /\ todo'[r] = todo[r] /\ held'[r] = held[r] /\ queue'[r] = queue[r] /\ buffer'[r] = buffer[r]
    /\ r \in raised' <=> r \in raised
    /\ r \in done' <=> r \in done
    /\ worker[r] = "crashed" => worker'[r] = "crashed"
    /\ worker'[r] \in {"new", "scanning", "reporting"} => held[r] = <<>>
    /\ worker'[r] = "reporting" => r \in raised \/ todo[r] = <<>>
    /\ worker[r] \in {"leaving", "left", "crashed", "killed"} =>
            worker'[r] \in {"leaving", "left", "crashed", "killed"}

LEMMA SliceKept ==
    ASSUME NEW r \in Ranks, Keeps(r), SplitInv(r), ReportInv(r), RoomInv(r)
    PROVE  SplitInv(r)' /\ ReportInv(r)' /\ RoomInv(r)'
<1>1. PICK passed \in Seq(Nat), lost \in Seq(Nat) :
        Split(r, passed, lost) /\ (Reported(r) => lost = <<>>)
    BY DEF SplitInv
<1>2. Consumed' = Consumed /\ ShardRows(job, r)' = ShardRows(job, r)
    BY DEF Keeps, Consumed
<1>3. Reported(r)' <=> Reported(r)
    BY DEF Keeps, Reported, HasReport
<1>4. Split(r, passed, lost)'
    BY <1>1, <1>2 DEF Split, Keeps
<1>5. SplitInv(r)'
    BY <1>1, <1>3, <1>4 DEF SplitInv
<1>6. ReportInv(r)'
    <2>1. worker'[r] \in {"new", "scanning", "reporting"} => held'[r] = <<>>
        BY DEF Keeps
    <2>2. worker'[r] = "reporting" => r \in raised' \/ todo'[r] = <<>>
        BY DEF Keeps
    <2>3. Reported(r)' => worker'[r] \in {"leaving", "left", "crashed", "killed"}
        BY <1>3 DEF Keeps, ReportInv
    <2>4. \A k \in 1 .. Len(queue'[r]) :
            queue'[r][k].kind = "report" =>
                /\ k = Len(queue'[r])
                /\ queue'[r][k].failed <=> r \in raised'
                /\ r \in raised' \/ (todo'[r] = <<>> /\ held'[r] = <<>>)
                /\ r \notin done'
        BY DEF Keeps, ReportInv
    <2>5. r \in done' => /\ queue'[r] = <<>> /\ todo'[r] = <<>> /\ held'[r] = <<>>
                         /\ r \notin raised'
        BY DEF Keeps, ReportInv
    <2> QED BY <2>1, <2>2, <2>3, <2>4, <2>5 DEF ReportInv
<1>7. RoomInv(r)'
    BY DEF Keeps, RoomInv
<1> QED BY <1>5, <1>6, <1>7

LEMMA QueueTypes ==
    ASSUME CollectTypeOK, NEW r \in Ranks
    PROVE  /\ queue[r] \in Seq(Messages) /\ RowsIn(queue[r]) \in Seq(Nat)
           /\ held[r] \in Seq(Nat) /\ todo[r] \in Seq(Nat)
           /\ Len(queue[r]) \in Nat /\ Len(held[r]) \in Nat /\ Len(todo[r]) \in Nat
           /\ \A k \in 1 .. Len(queue[r]) : queue[r][k] \in Messages
           /\ buffer[r] \in SUBSET Nat
           /\ ShardRows(job, r) \in Seq(Nat)
<1>1. /\ queue[r] \in Seq(Messages) /\ held[r] \in Seq(Nat) /\ todo[r] \in Seq(Nat)
      /\ buffer[r] \in SUBSET Nat /\ job \in Jobs
    BY DEF CollectTypeOK
<1> QED BY <1>1, RowsInType, LenProperties, ElementOfSeq, ShardFacts

LEMMA JudgeSplits ==
    ASSUME CollectTypeOK, NEW r \in Ranks, Judge(r), SplitInv(r), ReportInv(r), RoomInv(r)
    PROVE  SplitInv(r)' /\ ReportInv(r)' /\ RoomInv(r)'
<1>0. /\ queue' = queue /\ buffer' = buffer /\ job' = job /\ taken' = taken /\ done' = done
      /\ raised' = raised /\ worker[r] = "scanning" /\ worker'[r] = "putting"
    BY DEF Judge, caller, CollectTypeOK
<1>1. PICK n \in Nat : /\ n <= Len(todo[r]) /\ n <= WorkerCommit
                       /\ held'[r] = SubSeq(todo[r], 1, n)
                       /\ todo'[r] = SubSeq(todo[r], n + 1, Len(todo[r]))
    <2>1. Len(todo[r]) \in Nat /\ WorkerCommit \in Nat
        BY QueueTypes, SizesAssumption
    <2>2. PICK n \in Nat : /\ n = IF Len(todo[r]) < WorkerCommit THEN Len(todo[r])
                                  ELSE WorkerCommit
                           /\ n <= Len(todo[r]) /\ n <= WorkerCommit
        BY <2>1
    <2>3. held'[r] = SubSeq(todo[r], 1, n) /\ todo'[r] = SubSeq(todo[r], n + 1, Len(todo[r]))
        BY <2>2 DEF Judge, CollectTypeOK
    <2> QED BY <2>2, <2>3
<1>2. PICK passed \in Seq(Nat), lost \in Seq(Nat) :
        Split(r, passed, lost) /\ (Reported(r) => lost = <<>>)
    BY DEF SplitInv
<1>3. held[r] = <<>> /\ ~Reported(r)
    BY <1>0 DEF ReportInv
<1>4. held'[r] \o todo'[r] = held[r] \o todo[r]
    <2>1. PICK t \in Seq(Nat) : t = todo[r] /\ Len(t) \in Nat
        BY QueueTypes
    <2>2. <<>> \o t = t
        BY ConcatEmptySeq
    <2>3. SubSeq(t, 1, n) \o SubSeq(t, n + 1, Len(t)) = SubSeq(t, 1, Len(t))
        <3>1. 1 \in 1 .. Len(t) + 1 /\ n \in 1 - 1 .. Len(t) /\ Len(t) \in n .. Len(t)
            BY <1>1, <2>1
        <3> QED BY <3>1, ConcatAdjacentSubSeq
    <2>4. SubSeq(t, 1, Len(t)) = t
        BY SubSeqFull
    <2> QED BY <1>1, <1>3, <2>1, <2>2, <2>3, <2>4
<1>5. Consumed' = Consumed /\ ShardRows(job, r)' = ShardRows(job, r)
      /\ RowsIn(queue[r])' = RowsIn(queue[r])
    BY <1>0 DEF Consumed
<1>6. lost = <<>>
    BY <1>0, <1>2 DEF Split
<1>7. Split(r, passed, lost)'
    BY <1>0, <1>2, <1>4, <1>5, <1>6 DEF Split
<1>8. SplitInv(r)'
    BY <1>2, <1>6, <1>7 DEF SplitInv
<1>9. ~Reported(r)'
    BY <1>0, <1>3 DEF Reported, HasReport
<1>10. ReportInv(r)'
    BY <1>0, <1>9 DEF ReportInv, Reported, HasReport
<1>11. Len(held'[r]) = n
    <2>1. Len(todo[r]) \in Nat /\ todo[r] \in Seq(Nat)
        BY QueueTypes
    <2>2. n \in 0 .. Len(todo[r])
        BY <1>1, <2>1
    <2> QED BY <1>1, <2>1, <2>2, PrefixType
<1>12. RoomInv(r)'
    BY <1>0, <1>1, <1>11 DEF RoomInv
<1> QED BY <1>8, <1>10, <1>12

LEMMA PutChunkSplits ==
    ASSUME CollectTypeOK, NEW r \in Ranks, PutChunk(r), SplitInv(r), ReportInv(r), RoomInv(r)
    PROVE  SplitInv(r)' /\ ReportInv(r)' /\ RoomInv(r)'
<1>0. /\ todo' = todo /\ buffer' = buffer /\ job' = job /\ taken' = taken /\ done' = done
      /\ raised' = raised /\ worker[r] = "putting" /\ worker'[r] = "scanning"
      /\ held'[r] = <<>> /\ HasRoom(r) /\ queue'[r] = Append(queue[r], Chunk(held[r]))
    BY DEF PutChunk, Put, caller, CollectTypeOK
<1>1. PICK passed \in Seq(Nat), lost \in Seq(Nat) :
        Split(r, passed, lost) /\ (Reported(r) => lost = <<>>)
    BY DEF SplitInv
<1>2. ~Reported(r)
    BY <1>0 DEF ReportInv
<1>3. lost = <<>>
    BY <1>0, <1>1 DEF Split
<1>m. PICK m \in Messages : m = Chunk(held[r]) /\ m.kind = "chunk" /\ MessageRows(m) = held[r]
    <2>1. Chunk(held[r]) \in Messages
        BY QueueTypes DEF Chunk, Messages
    <2>2. Chunk(held[r]).kind = "chunk" /\ MessageRows(Chunk(held[r])) = held[r]
        BY DEF Chunk, MessageRows
    <2> QED BY <2>1, <2>2
<1>4. PICK q \in Seq(Messages), h \in Seq(Nat), t \in Seq(Nat), c \in Seq(Nat) :
        q = queue[r] /\ h = held[r] /\ t = todo[r] /\ c = RowsIn(q) /\ Len(q) \in Nat
    BY QueueTypes
<1>5. RowsIn(queue'[r]) = c \o h
    <2>1. RowsIn(Append(q, m)) = RowsIn(q) \o MessageRows(m)
        BY RowsInAppend
    <2> QED BY <1>0, <1>m, <1>4, <2>1
<1>6. passed \o (c \o (<<>> \o (h \o t))) = passed \o ((c \o h) \o (<<>> \o (<<>> \o t)))
    <2>1. \A s \in Seq(Nat) : <<>> \o s = s
        BY ConcatEmptySeq
    <2>2. h \o t \in Seq(Nat)
        BY ConcatProperties
    <2>3. (c \o h) \o t = c \o (h \o t)
        BY ConcatAssociative
    <2> QED BY <2>1, <2>2, <2>3
<1>7. Consumed' = Consumed /\ ShardRows(job, r)' = ShardRows(job, r)
    BY <1>0 DEF Consumed
<1>8. Split(r, passed, lost)'
    BY <1>0, <1>1, <1>3, <1>4, <1>5, <1>6, <1>7 DEF Split
<1>9. SplitInv(r)'
    BY <1>1, <1>3, <1>8 DEF SplitInv
<1>10. /\ Len(queue'[r]) = Len(q) + 1 /\ queue'[r][Len(q) + 1] = m
       /\ \A k \in 1 .. Len(q) : queue'[r][k] = queue[r][k]
    BY <1>0, <1>m, <1>4, AppendProperties
<1>11. \A k \in 1 .. Len(queue'[r]) : queue'[r][k].kind # "report"
    <2>1. \A k \in 1 .. Len(q) : queue[r][k].kind # "report"
        BY <1>2, <1>4 DEF Reported, HasReport
    <2>2. \A k \in 1 .. Len(queue'[r]) : k \in 1 .. Len(q) \/ k = Len(q) + 1
        BY <1>4, <1>10
    <2>3. m.kind # "report"
        BY <1>m
    <2> QED BY <1>10, <2>1, <2>2, <2>3
<1>12. ReportInv(r)'
    <2>1. r \notin done'
        BY <1>0, <1>2 DEF Reported
    <2> QED BY <1>0, <1>11, <2>1 DEF ReportInv, Reported, HasReport
<1>13. RoomInv(r)'
    <2>1. Len(queue'[r]) <= QueueSize
        BY <1>0, <1>4, <1>10, SizesAssumption DEF HasRoom
    <2>2. Len(held'[r]) <= WorkerCommit
        <3>1. Len(held'[r]) = 0
            BY <1>0
        <3> QED BY <3>1, SizesAssumption
    <2>3. \A k \in 1 .. Len(queue'[r]) : Len(MessageRows(queue'[r][k])) <= WorkerCommit
        <3>1. \A k \in 1 .. Len(queue'[r]) : k \in 1 .. Len(q) \/ k = Len(q) + 1
            BY <1>4, <1>10
        <3>2. Len(MessageRows(m)) <= WorkerCommit
            BY <1>m DEF RoomInv
        <3>3. \A k \in 1 .. Len(q) : Len(MessageRows(queue[r][k])) <= WorkerCommit
            BY <1>4 DEF RoomInv
        <3> QED BY <1>10, <3>1, <3>2, <3>3
    <2> QED BY <1>0, <2>1, <2>2, <2>3 DEF RoomInv
<1> QED BY <1>9, <1>12, <1>13

LEMMA PutReportSplits ==
    ASSUME CollectTypeOK, NEW r \in Ranks, PutReport(r), SplitInv(r), ReportInv(r), RoomInv(r)
    PROVE  SplitInv(r)' /\ ReportInv(r)' /\ RoomInv(r)'
<1>0. /\ todo' = todo /\ held' = held /\ buffer' = buffer /\ job' = job /\ taken' = taken
      /\ done' = done /\ raised' = raised
      /\ worker[r] = "reporting" /\ worker'[r] = "leaving"
      /\ HasRoom(r) /\ queue'[r] = Append(queue[r], Report(r \in raised))
    BY DEF PutReport, Put, caller, CollectTypeOK
<1>1. PICK passed \in Seq(Nat), lost \in Seq(Nat) :
        Split(r, passed, lost) /\ (Reported(r) => lost = <<>>)
    BY DEF SplitInv
<1>2. ~Reported(r) /\ held[r] = <<>> /\ (r \in raised \/ todo[r] = <<>>)
    BY <1>0 DEF ReportInv
<1>3. lost = <<>>
    BY <1>0, <1>1 DEF Split
<1>m. PICK m \in Messages : /\ m = Report(r \in raised) /\ m.kind = "report"
                            /\ MessageRows(m) = <<>> /\ (m.failed <=> r \in raised)
    <2>1. Report(r \in raised) \in Messages
        BY DEF Report, Messages
    <2>2. Report(r \in raised).kind = "report" /\ MessageRows(Report(r \in raised)) = <<>>
        BY DEF Report, MessageRows
    <2>3. Report(r \in raised).failed <=> r \in raised
        BY DEF Report
    <2> QED BY <2>1, <2>2, <2>3
<1>4. PICK q \in Seq(Messages), c \in Seq(Nat) :
        q = queue[r] /\ c = RowsIn(q) /\ Len(q) \in Nat
    BY QueueTypes
<1>5. RowsIn(queue'[r]) = c
    <2>1. RowsIn(Append(q, m)) = RowsIn(q) \o MessageRows(m)
        BY RowsInAppend
    <2>2. c \o <<>> = c
        BY ConcatEmptySeq
    <2> QED BY <1>0, <1>m, <1>4, <2>1, <2>2
<1>7. Consumed' = Consumed /\ ShardRows(job, r)' = ShardRows(job, r)
    BY <1>0 DEF Consumed
<1>8. Split(r, passed, lost)'
    BY <1>0, <1>1, <1>3, <1>4, <1>5, <1>7 DEF Split
<1>9. SplitInv(r)'
    BY <1>1, <1>3, <1>8 DEF SplitInv
<1>10. /\ Len(queue'[r]) = Len(q) + 1 /\ queue'[r][Len(q) + 1] = m
       /\ \A k \in 1 .. Len(q) : queue'[r][k] = queue[r][k]
    BY <1>0, <1>m, <1>4, AppendProperties
<1>11. \A k \in 1 .. Len(queue'[r]) : k \in 1 .. Len(q) \/ k = Len(q) + 1
    BY <1>4, <1>10
<1>12. \A k \in 1 .. Len(queue'[r]) : queue'[r][k].kind = "report" => k = Len(q) + 1
    <2>1. \A k \in 1 .. Len(q) : queue[r][k].kind # "report"
        BY <1>2, <1>4 DEF Reported, HasReport
    <2> QED BY <1>10, <1>11, <2>1
<1>13. ReportInv(r)'
    <2>1. r \notin done' /\ r \notin done
        BY <1>0, <1>2 DEF Reported
    <2>2. \A k \in 1 .. Len(queue'[r]) :
            queue'[r][k].kind = "report" =>
                /\ k = Len(queue'[r])
                /\ queue'[r][k].failed <=> r \in raised'
                /\ r \in raised' \/ (todo'[r] = <<>> /\ held'[r] = <<>>)
                /\ r \notin done'
        BY <1>0, <1>2, <1>m, <1>10, <1>12, <2>1
    <2> QED BY <1>0, <2>1, <2>2 DEF ReportInv
<1>14. RoomInv(r)'
    <2>1. Len(queue'[r]) <= QueueSize
        BY <1>0, <1>4, <1>10, SizesAssumption DEF HasRoom
    <2>2. \A k \in 1 .. Len(queue'[r]) : Len(MessageRows(queue'[r][k])) <= WorkerCommit
        <3>1. Len(MessageRows(m)) <= WorkerCommit
            <4>1. Len(MessageRows(m)) = 0
                BY <1>m
            <4> QED BY <4>1, SizesAssumption
        <3>2. \A k \in 1 .. Len(q) : Len(MessageRows(queue[r][k])) <= WorkerCommit
            BY <1>4 DEF RoomInv
        <3> QED BY <1>10, <1>11, <3>1, <3>2
    <2> QED BY <1>0, <2>1, <2>2 DEF RoomInv
<1> QED BY <1>9, <1>13, <1>14

LEMMA RaiseSplits ==
    ASSUME CollectTypeOK, NEW r \in Ranks, Raise(r), SplitInv(r), ReportInv(r), RoomInv(r)
    PROVE  SplitInv(r)' /\ ReportInv(r)' /\ RoomInv(r)'
<1>0. /\ todo' = todo /\ held' = held /\ buffer' = buffer /\ job' = job /\ taken' = taken
      /\ done' = done /\ queue' = queue /\ r \in raised'
      /\ worker[r] = "scanning" /\ worker'[r] = "reporting"
    BY DEF Raise, caller, CollectTypeOK
<1>1. PICK passed \in Seq(Nat), lost \in Seq(Nat) :
        Split(r, passed, lost) /\ (Reported(r) => lost = <<>>)
    BY DEF SplitInv
<1>2. ~Reported(r) /\ held[r] = <<>>
    BY <1>0 DEF ReportInv
<1>3. lost = <<>>
    BY <1>0, <1>1 DEF Split
<1>4. Consumed' = Consumed /\ ShardRows(job, r)' = ShardRows(job, r)
    BY <1>0 DEF Consumed
<1>5. Split(r, passed, lost)'
    BY <1>0, <1>1, <1>3, <1>4 DEF Split
<1>6. SplitInv(r)'
    BY <1>1, <1>3, <1>5 DEF SplitInv
<1>7. ~Reported(r)'
    BY <1>0, <1>2 DEF Reported, HasReport
<1>8. ReportInv(r)'
    BY <1>0, <1>2, <1>7 DEF ReportInv, Reported, HasReport
<1>9. RoomInv(r)'
    BY <1>0 DEF RoomInv
<1> QED BY <1>6, <1>8, <1>9

\* Ways to write the parts of a shard one after another.
Associates(s, t, u) == (s \o t) \o u = s \o (t \o u)

LEMMA Associated ==
    ASSUME NEW S, NEW s \in Seq(S), NEW t \in Seq(S), NEW u \in Seq(S)
    PROVE  Associates(s, t, u)
BY ConcatAssociative DEF Associates

Regrouped(s, t, u, v) == (s \o t) \o (u \o v) = s \o ((t \o u) \o v)

LEMMA Regroup ==
    ASSUME NEW S, NEW s \in Seq(S), NEW t \in Seq(S), NEW u \in Seq(S), NEW v \in Seq(S)
    PROVE  Regrouped(s, t, u, v)
<1>1. PICK y \in Seq(S) : y = u \o v
    BY ConcatProperties
<1>2. (s \o t) \o y = s \o (t \o y)
    BY ConcatAssociative
<1>3. (t \o u) \o v = t \o (u \o v)
    BY ConcatAssociative
<1> QED BY <1>1, <1>2, <1>3 DEF Regrouped

LEMMA CrashSplits ==
    ASSUME CollectTypeOK, NEW r \in Ranks, Crash(r), SplitInv(r), ReportInv(r), RoomInv(r)
    PROVE  SplitInv(r)' /\ ReportInv(r)' /\ RoomInv(r)'
<1>0. /\ todo' = todo /\ held' = held /\ buffer' = buffer /\ job' = job /\ taken' = taken
      /\ done' = done /\ raised' = raised /\ worker'[r] = "crashed"
    BY DEF Crash, caller, CollectTypeOK
<1>1. PICK passed \in Seq(Nat), lost \in Seq(Nat) :
        Split(r, passed, lost) /\ (Reported(r) => lost = <<>>)
    BY DEF SplitInv
<1>2. PICK q \in Seq(Messages), x \in Seq(Nat) :
        q = queue[r] /\ Len(q) \in Nat /\ x = held[r] \o todo[r]
    BY QueueTypes, ConcatProperties
<1>3. PICK n \in 0 .. Len(q) : queue'[r] = SubSeq(q, 1, n)
    BY <1>2 DEF Crash, CollectTypeOK
<1>4. PICK k \in Seq(Messages) : /\ k = queue'[r] /\ k = SubSeq(q, 1, n) /\ Len(k) = n
                                 /\ \A i \in 1 .. n : k[i] = q[i]
    BY <1>3, PrefixType
<1>5. PICK d \in Seq(Messages) : /\ d = SubSeq(q, n + 1, Len(q)) /\ q = k \o d
                                 /\ n = Len(q) => d = <<>>
    <2>1. SubSeq(q, 1, n) \o SubSeq(q, n + 1, Len(q)) = SubSeq(q, 1, Len(q))
        <3>1. 1 \in 1 .. Len(q) + 1 /\ n \in 1 - 1 .. Len(q) /\ Len(q) \in n .. Len(q)
            BY <1>2
        <3> QED BY <3>1, ConcatAdjacentSubSeq
    <2>2. SubSeq(q, 1, Len(q)) = q
        BY SubSeqFull
    <2>3. SubSeq(q, n + 1, Len(q)) \in Seq(Messages)
        <3>1. \A i \in n + 1 .. Len(q) : q[i] \in Messages
            BY <1>2, ElementOfSeq
        <3>2. n + 1 \in Int /\ Len(q) \in Int
            BY <1>2
        <3> QED BY <3>1, <3>2, SubSeqProperties
    <2>4. n = Len(q) => SubSeq(q, n + 1, Len(q)) = <<>>
        <3> SUFFICES ASSUME n = Len(q) PROVE SubSeq(q, n + 1, Len(q)) = <<>>
            OBVIOUS
        <3>1. n + 1 \in Int /\ Len(q) \in Int /\ Len(q) < n + 1
            BY <1>2
        <3> QED BY <3>1, SubSeqEmpty
    <2> QED BY <1>4, <2>1, <2>2, <2>3, <2>4
<1>6. PICK a \in Seq(Nat), b \in Seq(Nat) : /\ a = RowsIn(k) /\ b = RowsIn(d)
                                            /\ RowsIn(q) = a \o b
                                            /\ d = <<>> => b = <<>>
    <2>1. RowsIn(k \o d) = RowsIn(k) \o RowsIn(d)
        BY RowsInConcat
    <2> QED BY <1>5, <2>1, RowsInType, RowsInEmpty
<1>7. PICK gone \in Seq(Nat) : gone = b \o lost
    BY ConcatProperties
<1>8. passed \o ((a \o b) \o (lost \o x)) = passed \o (a \o (gone \o x))
    <2>1. (a \o b) \o (lost \o x) = a \o ((b \o lost) \o x)
        <3>1. Regrouped(a, b, lost, x)
            BY Regroup
        <3> QED BY <3>1 DEF Regrouped
    <2> QED BY <1>7, <2>1
<1>9. Consumed' = Consumed /\ ShardRows(job, r)' = ShardRows(job, r)
    BY <1>0 DEF Consumed
<1>10. Split(r, passed, gone)'
    BY <1>0, <1>1, <1>2, <1>4, <1>6, <1>8, <1>9 DEF Split
<1>11. Reported(r)' => Reported(r) /\ (HasReport(r)' => n = Len(q))
    <2>1. ASSUME HasReport(r)' PROVE HasReport(r) /\ n = Len(q)
        <3>1. PICK i \in 1 .. n : queue[r][i].kind = "report"
            BY <1>2, <1>4, <2>1 DEF HasReport
        <3>2. i \in 1 .. Len(q)
            BY <1>2
        <3>3. i = Len(q)
            BY <1>2, <3>1, <3>2 DEF ReportInv
        <3> QED BY <1>2, <3>1, <3>2, <3>3 DEF HasReport
    <2> QED BY <1>0, <2>1 DEF Reported
<1>12. Reported(r)' => gone = <<>>
    <2> SUFFICES ASSUME Reported(r)' PROVE gone = <<>>
        OBVIOUS
    <2>1. lost = <<>> /\ Reported(r)
        BY <1>1, <1>11
    <2>2. n = Len(q)
        <3>1. CASE HasReport(r)'
            BY <1>11, <3>1
        <3>2. CASE r \in done
            <4>1. q = <<>>
                BY <1>2, <3>2 DEF ReportInv
            <4> QED BY <4>1
        <3> QED BY <1>0, <3>1, <3>2 DEF Reported
    <2>3. b = <<>>
        BY <1>5, <1>6, <2>2
    <2>4. \A s \in Seq(Nat) : <<>> \o s = s
        BY ConcatEmptySeq
    <2> QED BY <1>7, <2>1, <2>3, <2>4
<1>13. SplitInv(r)'
    BY <1>10, <1>12 DEF SplitInv
<1>14. ReportInv(r)'
    <2>1. \A i \in 1 .. Len(queue'[r]) :
            queue'[r][i].kind = "report" =>
                /\ i = Len(queue'[r])
                /\ queue'[r][i].failed <=> r \in raised'
                /\ r \in raised' \/ (todo'[r] = <<>> /\ held'[r] = <<>>)
                /\ r \notin done'
        <3> SUFFICES ASSUME NEW i \in 1 .. n, queue[r][i].kind = "report"
                     PROVE  /\ i = n
                            /\ queue[r][i].failed <=> r \in raised
                            /\ r \in raised \/ (todo[r] = <<>> /\ held[r] = <<>>)
                            /\ r \notin done
            BY <1>0, <1>2, <1>4
        <3>1. i \in 1 .. Len(queue[r])
            BY <1>2
        <3>2. /\ i = Len(queue[r])
              /\ queue[r][i].failed <=> r \in raised
              /\ r \in raised \/ (todo[r] = <<>> /\ held[r] = <<>>)
              /\ r \notin done
            BY <3>1 DEF ReportInv
        <3> QED BY <1>2, <3>2
    <2>2. r \in done' => /\ queue'[r] = <<>> /\ todo'[r] = <<>> /\ held'[r] = <<>>
                         /\ r \notin raised'
        <3> SUFFICES ASSUME r \in done PROVE queue'[r] = <<>> /\ todo[r] = <<>> /\ held[r] = <<>>
                                             /\ r \notin raised
            BY <1>0
        <3>1. queue[r] = <<>> /\ todo[r] = <<>> /\ held[r] = <<>> /\ r \notin raised
            BY DEF ReportInv
        <3>2. Len(k) = 0
            <4>1. Len(q) = 0
                BY <1>2, <3>1
            <4> QED BY <1>4, <4>1
        <3>3. k = <<>>
            BY <3>2, EmptySeq
        <3> QED BY <1>4, <3>1, <3>3
    <2> QED BY <1>0, <2>1, <2>2 DEF ReportInv
<1>15. RoomInv(r)'
    <2>1. Len(queue'[r]) <= QueueSize
        <3>1. Len(q) <= QueueSize /\ QueueSize \in Nat
            BY <1>2, SizesAssumption DEF RoomInv
        <3> QED BY <1>2, <1>4, <3>1
    <2>2. \A i \in 1 .. Len(queue'[r]) : Len(MessageRows(queue'[r][i])) <= WorkerCommit
        <3>1. \A i \in 1 .. Len(q) : Len(MessageRows(q[i])) <= WorkerCommit
            BY <1>2 DEF RoomInv
        <3>2. \A i \in 1 .. n : i \in 1 .. Len(q)
            BY <1>2
        <3> QED BY <1>4, <3>1, <3>2
    <2> QED BY <1>0, <2>1, <2>2 DEF RoomInv
<1> QED BY <1>13, <1>14, <1>15

LEMMA ReadReportSplits ==
    ASSUME CollectTypeOK, NEW r \in Ranks, ReadReport(r), SplitInv(r), ReportInv(r), RoomInv(r)
    PROVE  SplitInv(r)' /\ ReportInv(r)' /\ RoomInv(r)'
<1>0. /\ todo' = todo /\ held' = held /\ buffer' = buffer /\ job' = job /\ taken' = taken
      /\ raised' = raised /\ worker' = worker /\ r \in done'
      /\ queue[r] # <<>> /\ queue'[r] = Tail(queue[r])
      /\ Head(queue[r]).kind = "report" /\ ~Head(queue[r]).failed
    BY DEF ReadReport, CollectTypeOK
<1>1. PICK passed \in Seq(Nat), lost \in Seq(Nat) :
        Split(r, passed, lost) /\ (Reported(r) => lost = <<>>)
    BY DEF SplitInv
<1>2. PICK q \in Seq(Messages) : q = queue[r] /\ Len(q) \in Nat \ {0} /\ Head(q) = q[1]
    <2>1. queue[r] \in Seq(Messages)
        BY QueueTypes
    <2>2. Len(queue[r]) \in Nat \ {0}
        BY <1>0, <2>1, EmptySeq
    <2>3. Head(queue[r]) = queue[r][1]
        BY <1>0, <2>1
    <2> QED BY <2>1, <2>2, <2>3
<1>3. /\ HasReport(r) /\ Len(q) = 1 /\ r \notin raised /\ todo[r] = <<>> /\ held[r] = <<>>
      /\ ~q[1].failed /\ q[1].kind = "report"
    <2>1. 1 \in 1 .. Len(queue[r]) /\ queue[r][1].kind = "report" /\ ~queue[r][1].failed
        BY <1>0, <1>2
    <2>2. /\ 1 = Len(queue[r])
          /\ queue[r][1].failed <=> r \in raised
          /\ r \in raised \/ (todo[r] = <<>> /\ held[r] = <<>>)
        BY <2>1 DEF ReportInv
    <2> QED BY <1>2, <2>1, <2>2 DEF HasReport
<1>4. PICK t \in Seq(Messages) : t = queue'[r] /\ t = Tail(q) /\ Len(t) = 0 /\ t = <<>>
    <2>1. Tail(q) \in Seq(Messages) /\ Len(Tail(q)) = Len(q) - 1
        BY <1>0, <1>2, HeadTailProperties
    <2>2. Len(Tail(q)) = 0
        BY <1>3, <2>1
    <2>3. Tail(q) = <<>>
        BY <2>1, <2>2, EmptySeq
    <2> QED BY <1>0, <1>2, <2>1, <2>2, <2>3
<1>5. RowsIn(queue'[r]) = RowsIn(queue[r])
    <2>1. RowsIn(q) = MessageRows(Head(q)) \o RowsIn(Tail(q))
        BY <1>0, <1>2, RowsInHead
    <2>2. MessageRows(Head(q)) = <<>>
        BY <1>0, <1>2 DEF MessageRows
    <2>3. RowsIn(Tail(q)) = <<>>
        BY <1>4, RowsInEmpty
    <2>4. <<>> \o <<>> = <<>>
        <3>1. <<>> \in Seq(Nat)
            BY EmptySeq
        <3> QED BY <3>1, ConcatEmptySeq
    <2> QED BY <1>2, <1>4, <2>1, <2>2, <2>3, <2>4
<1>6. Consumed' = Consumed /\ ShardRows(job, r)' = ShardRows(job, r)
    BY <1>0 DEF Consumed
<1>7. lost = <<>>
    BY <1>1, <1>3 DEF Reported
<1>8. Split(r, passed, lost)'
    BY <1>0, <1>1, <1>5, <1>6, <1>7 DEF Split
<1>9. SplitInv(r)'
    BY <1>1, <1>7, <1>8 DEF SplitInv
<1>13. Len(queue'[r]) = 0
    <2>1. Len(t) = 0 /\ t = queue'[r]
        BY <1>4
    <2> QED BY <2>1
<1>10. \A k \in 1 .. Len(queue'[r]) : FALSE
    BY <1>13
<1>11. ReportInv(r)'
    <2>1. worker'[r] \in {"leaving", "left", "crashed", "killed"}
        BY <1>0, <1>3 DEF ReportInv, Reported
    <2>2. queue'[r] = <<>> /\ todo'[r] = <<>> /\ held'[r] = <<>> /\ r \notin raised'
        BY <1>0, <1>3, <1>4
    <2> QED BY <1>10, <2>1, <2>2 DEF ReportInv
<1>12. RoomInv(r)'
    <2>1. Len(queue'[r]) <= QueueSize
        BY <1>13, SizesAssumption
    <2> QED BY <1>0, <1>10, <2>1 DEF RoomInv
<1> QED BY <1>9, <1>11, <1>12

\* What follows from a shard's being split: no row is in two places.
LEMMA SplitFacts ==
    ASSUME CollectTypeOK, NEW r \in Ranks, NEW passed \in Seq(Nat), NEW lost \in Seq(Nat),
           Split(r, passed, lost)
    PROVE  /\ ToSet(passed) \subseteq ToSet(ShardRows(job, r))
           /\ ToSet(RowsIn(queue[r])) \subseteq ToSet(ShardRows(job, r))
           /\ ToSet(held[r] \o todo[r]) \subseteq ToSet(ShardRows(job, r))
           /\ IsInjective(RowsIn(queue[r])) /\ IsInjective(held[r] \o todo[r])
           /\ ToSet(passed) \cap ToSet(RowsIn(queue[r])) = {}
           /\ ToSet(passed) \cap ToSet(held[r] \o todo[r]) = {}
           /\ ToSet(RowsIn(queue[r])) \cap ToSet(held[r] \o todo[r]) = {}
           /\ \A i \in ToSet(ShardRows(job, r)) : TargetRank(job, i) = r
<1>1. PICK q \in Seq(Nat), x \in Seq(Nat) : q = RowsIn(queue[r]) /\ x = held[r] \o todo[r]
    BY QueueTypes, ConcatProperties
<1>2. PICK y \in Seq(Nat) : y = lost \o x
    BY ConcatProperties
<1>3. PICK z \in Seq(Nat) : z = q \o y
    BY ConcatProperties
<1>4. PICK s \in Seq(Nat) : s = ShardRows(job, r) /\ s = passed \o z
    BY <1>1, <1>2, <1>3, QueueTypes DEF Split
<1>5. /\ IsInjective(s)
      /\ \A i \in ToSet(s) : TargetRank(job, i) = r
    BY <1>4, ShardFacts DEF CollectTypeOK
<1>6. IsInjective(z) /\ ToSet(passed) \cap ToSet(z) = {}
    BY <1>4, <1>5, InjectiveParts
<1>7. IsInjective(q) /\ IsInjective(y) /\ ToSet(q) \cap ToSet(y) = {}
    BY <1>3, <1>6, InjectiveParts
<1>8. IsInjective(x)
    BY <1>2, <1>7, InjectiveParts
<1>9. /\ ToSet(s) = ToSet(passed) \cup ToSet(z)
      /\ ToSet(z) = ToSet(q) \cup ToSet(y)
      /\ ToSet(y) = ToSet(lost) \cup ToSet(x)
    <2>1. ToSet(passed \o z) = ToSet(passed) \cup ToSet(z)
        BY ToSetOfConcat
    <2>2. ToSet(q \o y) = ToSet(q) \cup ToSet(y)
        BY ToSetOfConcat
    <2>3. ToSet(lost \o x) = ToSet(lost) \cup ToSet(x)
        BY ToSetOfConcat
    <2> QED BY <1>2, <1>3, <1>4, <2>1, <2>2, <2>3
<1> QED BY <1>1, <1>4, <1>5, <1>6, <1>7, <1>8, <1>9

LEMMA ReadChunkSplits ==
    ASSUME CollectTypeOK, NEW r \in Ranks, ReadChunk(r), SplitInv(r), ReportInv(r)
    PROVE  SplitInv(r)' /\ ReportInv(r)'
<1>0. /\ todo' = todo /\ held' = held /\ job' = job /\ taken' = taken
      /\ raised' = raised /\ worker' = worker /\ done' = done
      /\ queue[r] # <<>> /\ queue'[r] = Tail(queue[r])
      /\ Head(queue[r]).kind = "chunk"
      /\ buffer'[r] = buffer[r] \cup ToSet(Head(queue[r]).rows)
    BY DEF ReadChunk, CollectTypeOK
<1>1. PICK passed \in Seq(Nat), lost \in Seq(Nat) :
        Split(r, passed, lost) /\ (Reported(r) => lost = <<>>)
    BY DEF SplitInv
<1>2. PICK q \in Seq(Messages) : q = queue[r] /\ Len(q) \in Nat \ {0}
    <2>1. queue[r] \in Seq(Messages)
        BY QueueTypes
    <2>2. Len(queue[r]) \in Nat \ {0}
        BY <1>0, <2>1, EmptySeq
    <2> QED BY <2>1, <2>2
<1>3. PICK t \in Seq(Messages) : /\ t = queue'[r] /\ t = Tail(q) /\ Len(t) = Len(q) - 1
                                 /\ \A k \in 1 .. Len(t) : t[k] = q[k + 1]
    <2>1. /\ Tail(q) \in Seq(Messages) /\ Len(Tail(q)) = Len(q) - 1
          /\ \A k \in 1 .. Len(Tail(q)) : Tail(q)[k] = q[k + 1]
        BY <1>0, <1>2, HeadTailProperties
    <2> QED BY <1>0, <1>2, <2>1
<1>4. PICK c \in Seq(Nat), w \in Seq(Nat) :
        c = Head(queue[r]).rows /\ w = RowsIn(t) /\ RowsIn(q) = c \o w
    <2>1. Head(q) \in Messages /\ RowsIn(q) = MessageRows(Head(q)) \o RowsIn(Tail(q))
        BY <1>0, <1>2, RowsInHead
    <2>2. MessageRows(Head(q)) = Head(q).rows
        BY <1>0, <1>2 DEF MessageRows
    <2>3. MessageRows(Head(q)) \in Seq(Nat)
        BY <2>1, MessageRowsType
    <2> QED BY <1>2, <1>3, <2>1, <2>2, <2>3, RowsInType
<1>5. PICK read \in Seq(Nat) : read = passed \o c
    BY ConcatProperties
<1>6. PICK x \in Seq(Nat) : x = lost \o (held[r] \o todo[r])
    BY QueueTypes, ConcatProperties
<1>7. passed \o ((c \o w) \o x) = read \o (w \o x)
    <2>1. PICK y \in Seq(Nat) : y = w \o x
        BY ConcatProperties
    <2>2. Associates(c, w, x) /\ Associates(passed, c, y)
        BY Associated
    <2> QED BY <1>5, <2>1, <2>2 DEF Associates
<1>8. Consumed' = Consumed /\ ShardRows(job, r)' = ShardRows(job, r)
    BY <1>0 DEF Consumed
<1>9. ShardRows(job, r)' = read \o (RowsIn(queue[r])' \o (lost \o (held[r] \o todo[r])'))
    BY <1>0, <1>1, <1>2, <1>3, <1>4, <1>6, <1>7, <1>8 DEF Split
<1>10. ToSet(read) = ToSet(passed) \cup ToSet(c)
    BY <1>5, ToSetOfConcat
<1>11. ToSet(c) \cap Consumed = {} /\ ToSet(c) \subseteq ToSet(ShardRows(job, r))
    <2>1. ToSet(RowsIn(q)) = ToSet(c) \cup ToSet(w)
        BY <1>4, ToSetOfConcat
    <2>2. /\ ToSet(RowsIn(q)) \subseteq ToSet(ShardRows(job, r))
          /\ ToSet(passed) \cap ToSet(RowsIn(q)) = {}
        BY <1>1, <1>2, SplitFacts
    <2>3. Consumed \cap ToSet(ShardRows(job, r)) \subseteq ToSet(passed)
        BY <1>1 DEF Split
    <2> QED BY <2>1, <2>2, <2>3
<1>12. buffer'[r] = ToSet(read) \ Consumed
    <2>1. buffer[r] = ToSet(passed) \ Consumed
        BY <1>1 DEF Split
    <2> QED BY <1>0, <1>4, <1>10, <1>11, <2>1
<1>13. Consumed \cap ToSet(ShardRows(job, r)) \subseteq ToSet(read)
    BY <1>1, <1>10 DEF Split
<1>14. lost # <<>> => worker'[r] = "crashed"
    BY <1>0, <1>1 DEF Split
<1>15. Split(r, read, lost)'
    BY <1>8, <1>9, <1>12, <1>13, <1>14 DEF Split
<1>16. \A k \in 1 .. Len(t) : /\ k + 1 \in 1 .. Len(queue[r]) /\ k \in Nat
                              /\ t[k] = queue[r][k + 1]
    BY <1>2, <1>3
<1>17. Reported(r)' => Reported(r)
    <2>1. HasReport(r)' => HasReport(r)
        BY <1>3, <1>16 DEF HasReport
    <2> QED BY <1>0, <2>1 DEF Reported
<1>18. SplitInv(r)'
    BY <1>1, <1>15, <1>17 DEF SplitInv
<1>19. r \notin done
    BY <1>0 DEF ReportInv
<1>20. \A k \in 1 .. Len(queue'[r]) :
            queue'[r][k].kind = "report" =>
                /\ k = Len(queue'[r])
                /\ queue'[r][k].failed <=> r \in raised'
                /\ r \in raised' \/ (todo'[r] = <<>> /\ held'[r] = <<>>)
                /\ r \notin done'
    <2> SUFFICES ASSUME NEW k \in 1 .. Len(t), t[k].kind = "report"
                 PROVE  /\ k = Len(t)
                        /\ t[k].failed <=> r \in raised
                        /\ r \in raised \/ (todo[r] = <<>> /\ held[r] = <<>>)
        BY <1>0, <1>3, <1>19
    <2>1. PICK m \in 1 .. Len(queue[r]) : m = k + 1 /\ t[k] = queue[r][m]
        BY <1>16
    <2>2. /\ m = Len(queue[r])
          /\ queue[r][m].failed <=> r \in raised
          /\ r \in raised \/ (todo[r] = <<>> /\ held[r] = <<>>)
        BY <2>1 DEF ReportInv
    <2>3. k = Len(t)
        BY <1>2, <1>3, <2>1, <2>2
    <2> QED BY <2>1, <2>2, <2>3
<1>21. ReportInv(r)'
    <2>1. worker'[r] \in {"new", "scanning", "reporting"} => held'[r] = <<>>
        BY <1>0 DEF ReportInv
    <2>2. worker'[r] = "reporting" => r \in raised' \/ todo'[r] = <<>>
        BY <1>0 DEF ReportInv
    <2>3. Reported(r)' => worker'[r] \in {"leaving", "left", "crashed", "killed"}
        BY <1>0, <1>17 DEF ReportInv
    <2>4. r \notin done'
        BY <1>0, <1>19
    <2> QED BY <1>20, <2>1, <2>2, <2>3, <2>4 DEF ReportInv
<1> QED BY <1>18, <1>21

LEMMA TakeRowSplits ==
    ASSUME CollectTypeOK, NEW r \in Ranks, TakeRow, SplitInv(r), ReportInv(r), RoomInv(r)
    PROVE  SplitInv(r)' /\ ReportInv(r)' /\ RoomInv(r)'
<1>0. /\ todo' = todo /\ held' = held /\ job' = job /\ taken' = taken + 1 /\ queue' = queue
      /\ raised' = raised /\ worker' = worker /\ done' = done
      /\ Wanted \in buffer[WantedRank] /\ Merging
      /\ buffer' = [buffer EXCEPT ![WantedRank] = buffer[WantedRank] \ {Wanted}]
    BY DEF TakeRow, workers
<1>1. PICK passed \in Seq(Nat), lost \in Seq(Nat) :
        Split(r, passed, lost) /\ (Reported(r) => lost = <<>>)
    BY DEF SplitInv
<1>2. /\ WantedRank \in Ranks /\ WantedRank = TargetRank(job, Wanted)
      /\ Wanted = Targets(job)[taken + 1] /\ taken \in Nat
    BY <1>0, WantedFacts DEF CollectTypeOK
<1>3. Consumed' = Consumed \cup {Wanted}
    <2>1. \A m \in 1 .. taken + 1 : m \in 1 .. taken \/ m = taken + 1
        BY <1>2
    <2>2. \A m \in 1 .. taken : m \in 1 .. taken + 1
        BY <1>2
    <2>3. taken + 1 \in 1 .. taken + 1
        BY <1>2
    <2> QED BY <1>0, <1>2, <2>1, <2>2, <2>3 DEF Consumed
<1>4. ShardRows(job, r)' = ShardRows(job, r)
    BY <1>0
<1>5. /\ buffer[r] = ToSet(passed) \ Consumed
      /\ Consumed \cap ToSet(ShardRows(job, r)) \subseteq ToSet(passed)
    BY <1>1 DEF Split
<1>6. /\ ToSet(passed) \subseteq ToSet(ShardRows(job, r))
      /\ \A i \in ToSet(ShardRows(job, r)) : TargetRank(job, i) = r
    BY <1>1, SplitFacts
<1>7. /\ buffer'[r] = ToSet(passed) \ Consumed'
      /\ Consumed' \cap ToSet(ShardRows(job, r)) \subseteq ToSet(passed)
      /\ buffer'[r] \subseteq buffer[r]
    <2>0. buffer \in [Ranks -> SUBSET Nat]
        BY DEF CollectTypeOK
    <2>1. CASE r = WantedRank
        <3>1. buffer'[r] = buffer[r] \ {Wanted} /\ Wanted \in buffer[r]
            BY <1>0, <2>0, <2>1
        <3> QED BY <1>3, <1>5, <3>1
    <2>2. CASE r # WantedRank
        <3>1. buffer'[r] = buffer[r]
            BY <1>0, <2>0, <2>2
        <3>2. Wanted \notin ToSet(ShardRows(job, r))
            BY <1>2, <1>6, <2>2
        <3> QED BY <1>3, <1>5, <1>6, <3>1, <3>2
    <2> QED BY <2>1, <2>2
<1>8. Split(r, passed, lost)'
    BY <1>0, <1>1, <1>4, <1>7 DEF Split
<1>9. Reported(r)' <=> Reported(r)
    BY <1>0 DEF Reported, HasReport
<1>10. SplitInv(r)'
    BY <1>1, <1>8, <1>9 DEF SplitInv
<1>11. ReportInv(r)'
    BY <1>0, <1>9 DEF ReportInv, Reported, HasReport
<1>12. job.mapStyle => IsFiniteSet(buffer'[r]) /\ Cardinality(buffer'[r]) <= WorkerCommit
    <2> SUFFICES ASSUME job.mapStyle
                 PROVE  IsFiniteSet(buffer'[r]) /\ Cardinality(buffer'[r]) <= WorkerCommit
        OBVIOUS
    <2>1. IsFiniteSet(buffer[r]) /\ Cardinality(buffer[r]) <= WorkerCommit
        BY DEF RoomInv
    <2>2. IsFiniteSet(buffer'[r]) /\ Cardinality(buffer'[r]) <= Cardinality(buffer[r])
        BY <1>7, <2>1, FS_Subset
    <2>3. Cardinality(buffer'[r]) \in Nat /\ Cardinality(buffer[r]) \in Nat
        BY <2>1, <2>2, FS_CardinalityType
    <2> QED BY <2>1, <2>2, <2>3, SizesAssumption
<1>13. RoomInv(r)'
    BY <1>0, <1>12 DEF RoomInv
<1> QED BY <1>10, <1>11, <1>13

\* The caller of a map-style collection reads from a worker only when it holds
\* nothing of it.
LEMMA NothingBuffered ==
    ASSUME CollectTypeOK, DeliveredInv, NEW r \in Ranks, Reads(r), SplitInv(r), job.mapStyle
    PROVE  buffer[r] = {}
<1>0. job \in Jobs /\ taken \in Nat
    BY DEF CollectTypeOK
<1>1. PICK passed \in Seq(Nat), lost \in Seq(Nat) : Split(r, passed, lost)
    BY DEF SplitInv
<1>2. PICK s \in Seq(Nat) : /\ s = ShardRows(job, r) /\ ToSet(s) = ShardOf(job, r)
                            /\ \A k, m \in 1 .. Len(s) : k < m => s[k] < s[m]
    BY <1>0, ShardFacts
<1>3. PICK t \in Seq(Nat) : /\ t = Targets(job) /\ ToSet(t) = Missing(job)
                            /\ \A k, m \in 1 .. Len(t) : k < m => t[k] < t[m]
    BY <1>0, TargetFacts
<1>4. Len(s) \in Nat /\ Len(t) \in Nat /\ DOMAIN s = 1 .. Len(s) /\ DOMAIN t = 1 .. Len(t)
      /\ Len(passed) \in Nat /\ DOMAIN passed = 1 .. Len(passed)
    BY LenProperties
<1>5. ShardOf(job, r) = {i \in Missing(job) : TargetRank(job, i) = r}
    BY DEF ShardOf
<1>6. ToSet(passed) \subseteq ToSet(s)
    BY <1>1, <1>2, SplitFacts
<1>7. SUFFICES ASSUME NEW i \in buffer[r] PROVE FALSE
    OBVIOUS
<1>8. i \in ToSet(passed) /\ i \notin Consumed /\ i \in Missing(job)
    BY <1>1, <1>2, <1>5, <1>6, <1>7 DEF Split
<1>9. PICK k \in 1 .. Len(t) : t[k] = i
    BY <1>3, <1>4, <1>8 DEF ToSet
<1>10. k > taken
    <2>1. k \notin 1 .. taken
        BY <1>3, <1>8, <1>9 DEF Consumed
    <2> QED BY <1>0, <1>4, <2>1
<1>11. CASE phase = "draining"
    <2>1. taken = Len(t)
        BY <1>3, <1>11 DEF DeliveredInv
    <2> QED BY <1>4, <1>10, <2>1
<1>12. CASE Merging /\ r = WantedRank /\ Wanted \notin buffer[r]
    <2>1. /\ taken + 1 \in 1 .. Len(t) /\ Wanted = t[taken + 1] /\ Wanted \in Missing(job)
          /\ r = TargetRank(job, Wanted)
        BY <1>3, <1>12, WantedFacts
    <2>2. Wanted \notin Consumed
        <3> SUFFICES ASSUME Wanted \in Consumed PROVE FALSE
            OBVIOUS
        <3>1. PICK m \in 1 .. taken : t[m] = Wanted
            BY <1>3 DEF Consumed
        <3>2. m \in 1 .. Len(t) /\ m < taken + 1
            BY <1>0, <1>4, <2>1
        <3>3. t[m] < t[taken + 1] /\ t[m] \in Nat
            BY <1>3, <1>4, <2>1, <3>2, ElementOfSeq
        <3> QED BY <2>1, <3>1, <3>3
    <2>3. Wanted \in ToSet(s) /\ Wanted \notin ToSet(passed)
        BY <1>1, <1>2, <1>5, <1>12, <2>1, <2>2 DEF Split
    <2>4. PICK m \in 1 .. Len(s) : s[m] = Wanted
        BY <1>4, <2>3 DEF ToSet
    <2>5. PICK z \in Seq(Nat) : s = passed \o z
        <3>1. PICK x \in Seq(Nat) : x = held[r] \o todo[r]
            BY QueueTypes, ConcatProperties
        <3>2. PICK y \in Seq(Nat) : y = lost \o x
            BY ConcatProperties
        <3>3. PICK z \in Seq(Nat) : z = RowsIn(queue[r]) \o y
            BY QueueTypes, ConcatProperties
        <3> QED BY <1>1, <1>2, <3>1, <3>2, <3>3 DEF Split
    <2>6. \A p \in 1 .. Len(passed) : p \in 1 .. Len(s) /\ s[p] = passed[p]
        <3>1. /\ Len(s) = Len(passed) + Len(z) /\ Len(z) \in Nat
              /\ \A p \in 1 .. Len(passed) + Len(z) :
                    s[p] = IF p <= Len(passed) THEN passed[p] ELSE z[p - Len(passed)]
            BY <2>5, ConcatProperties, LenProperties
        <3> QED BY <1>4, <3>1
    <2>7. m > Len(passed)
        <3>1. m \notin 1 .. Len(passed)
            BY <1>4, <2>3, <2>4, <2>6 DEF ToSet
        <3> QED BY <1>4, <3>1
    <2>8. PICK p \in 1 .. Len(passed) : passed[p] = i
        BY <1>4, <1>8 DEF ToSet
    <2>9. i < Wanted
        <3>0. p < m
            BY <1>4, <2>7
        <3>1. p \in 1 .. Len(s) /\ s[p] = i /\ p < m
            BY <2>6, <2>8, <3>0
        <3>2. s[p] < s[m]
            BY <1>2, <2>4, <3>1
        <3> QED BY <2>4, <3>1, <3>2
    <2>10. ~(k < taken + 1) /\ ~(taken + 1 < k) => k = taken + 1
        BY <1>0, <1>4
    <2>11. ~(taken + 1 < k)
        <3> SUFFICES ASSUME taken + 1 < k PROVE FALSE
            OBVIOUS
        <3>1. Wanted < i
            BY <1>3, <1>9, <2>1
        <3>2. i \in Nat /\ Wanted \in Nat
            BY <1>0, <1>8, <2>1, JobFacts
        <3> QED BY <2>9, <3>1, <3>2
    <2>12. k = taken + 1
        BY <1>0, <1>4, <1>10, <2>10, <2>11
    <2> QED BY <1>7, <1>9, <1>12, <2>1, <2>12
<1> QED BY <1>11, <1>12 DEF Reads

LEMMA ReadChunkRoom ==
    ASSUME CollectTypeOK, DeliveredInv, NEW r \in Ranks, ReadChunk(r), SplitInv(r), RoomInv(r)
    PROVE  RoomInv(r)'
<1>0. /\ held' = held /\ job' = job /\ Reads(r)
      /\ queue[r] # <<>> /\ queue'[r] = Tail(queue[r])
      /\ Head(queue[r]).kind = "chunk"
      /\ buffer'[r] = buffer[r] \cup ToSet(Head(queue[r]).rows)
    BY DEF ReadChunk, CollectTypeOK
<1>1. PICK q \in Seq(Messages) : q = queue[r] /\ Len(q) \in Nat \ {0}
    <2>1. queue[r] \in Seq(Messages)
        BY QueueTypes
    <2>2. Len(queue[r]) \in Nat \ {0}
        BY <1>0, <2>1, EmptySeq
    <2> QED BY <2>1, <2>2
<1>2. PICK t \in Seq(Messages) : /\ t = queue'[r] /\ Len(t) = Len(q) - 1
                                 /\ \A k \in 1 .. Len(t) : t[k] = q[k + 1]
    <2>1. /\ Tail(q) \in Seq(Messages) /\ Len(Tail(q)) = Len(q) - 1
          /\ \A k \in 1 .. Len(Tail(q)) : Tail(q)[k] = q[k + 1]
        BY <1>0, <1>1, HeadTailProperties
    <2> QED BY <1>0, <1>1, <2>1
<1>3. Len(queue'[r]) <= QueueSize
    <2>1. Len(q) <= QueueSize /\ QueueSize \in Nat
        BY <1>1, SizesAssumption DEF RoomInv
    <2> QED BY <1>1, <1>2, <2>1
<1>4. \A k \in 1 .. Len(q) : Len(MessageRows(q[k])) <= WorkerCommit
    BY <1>1 DEF RoomInv
<1>5. \A k \in 1 .. Len(queue'[r]) : Len(MessageRows(queue'[r][k])) <= WorkerCommit
    <2> SUFFICES ASSUME NEW k \in 1 .. Len(t) PROVE Len(MessageRows(t[k])) <= WorkerCommit
        BY <1>2
    <2>1. PICK m \in 1 .. Len(q) : t[k] = q[m]
        <3>1. k + 1 \in 1 .. Len(q) /\ t[k] = q[k + 1]
            BY <1>1, <1>2
        <3> QED BY <3>1
    <2> QED BY <1>4, <2>1
<1>6. PICK c \in Seq(Nat) : c = Head(queue[r]).rows /\ Len(c) <= WorkerCommit
    <2>1. Head(q) \in Messages /\ Head(q) = q[1] /\ 1 \in 1 .. Len(q)
        <3>1. Head(q) \in Messages
            BY <1>0, <1>1, HeadTailProperties
        <3> QED BY <1>0, <1>1, <3>1
    <2>2. MessageRows(Head(q)) = Head(q).rows
        BY <1>0, <1>1 DEF MessageRows
    <2>3. MessageRows(Head(q)) \in Seq(Nat)
        BY <2>1, MessageRowsType
    <2>4. Len(MessageRows(Head(q))) <= WorkerCommit
        BY <1>4, <2>1
    <2> QED BY <1>1, <2>2, <2>3, <2>4
<1>7. job.mapStyle => IsFiniteSet(buffer'[r]) /\ Cardinality(buffer'[r]) <= WorkerCommit
    <2> SUFFICES ASSUME job.mapStyle
                 PROVE  IsFiniteSet(buffer'[r]) /\ Cardinality(buffer'[r]) <= WorkerCommit
        OBVIOUS
    <2>1. buffer'[r] = ToSet(c)
        BY <1>0, <1>6, NothingBuffered
    <2>2. Len(c) \in Nat /\ c \in [1 .. Len(c) -> Nat] /\ DOMAIN c = 1 .. Len(c)
        BY LenProperties
    <2>3. c \in Surjection(1 .. Len(c), ToSet(c))
        BY <2>2 DEF Surjection, ToSet
    <2>4. IsFiniteSet(1 .. Len(c)) /\ Cardinality(1 .. Len(c)) = Len(c)
        <3>1. PICK n \in Nat : n = Len(c)
            BY <2>2
        <3>2. /\ IsFiniteSet(1 .. n)
              /\ Cardinality(1 .. n) = IF 1 > n THEN 0 ELSE n - 1 + 1
            BY FS_Interval
        <3>3. Cardinality(1 .. n) = n
            BY <3>1, <3>2
        <3> QED BY <3>1, <3>2, <3>3
    <2>5. IsFiniteSet(ToSet(c)) /\ Cardinality(ToSet(c)) <= Cardinality(1 .. Len(c))
        BY <2>3, <2>4, FS_Surjection
    <2>6. Cardinality(ToSet(c)) \in Nat
        BY <2>5, FS_CardinalityType
    <2> QED BY <1>6, <2>1, <2>2, <2>4, <2>5, <2>6, SizesAssumption
<1>8. Len(held'[r]) <= WorkerCommit
    BY <1>0 DEF RoomInv
<1> QED BY <1>0, <1>3, <1>5, <1>7, <1>8 DEF RoomInv

\* A step of one worker, or of the caller with it, does not touch the others.
LEMMA OthersKept ==
    ASSUME CollectTypeOK, NEW r \in Ranks, NEW q \in Ranks, q # r, ReportInv(r),
           \/ ReadChunk(q) \/ ReadReport(q) \/ Judge(q) \/ PutChunk(q)
           \/ PutReport(q) \/ Raise(q) \/ Crash(q) \/ Moves(q)
    PROVE  Keeps(r)
<1>1. /\ worker'[r] = worker[r] /\ todo'[r] = todo[r] /\ held'[r] = held[r]
      /\ queue'[r] = queue[r] /\ buffer'[r] = buffer[r]
      /\ UNCHANGED <<job, taken>>
    BY DEF CollectTypeOK, ReadChunk, ReadReport, Judge, PutChunk, Put, PutReport, Raise, Crash,
           Moves, ShardEnds, Leave, QuietExit, Hang, caller
<1>2. r \in raised' <=> r \in raised
    BY DEF ReadChunk, ReadReport, Judge, PutChunk, Put, PutReport, Raise, Crash,
           Moves, ShardEnds, Leave, QuietExit, Hang, caller
<1>3. r \in done' <=> r \in done
    BY DEF ReadChunk, ReadReport, Judge, PutChunk, Put, PutReport, Raise, Crash,
           Moves, ShardEnds, Leave, QuietExit, Hang, caller
<1> QED BY <1>1, <1>2, <1>3 DEF Keeps, ReportInv

\* A caller that goes on, or stops, leaves what the workers have delivered.
LEMMA CallerKeeps ==
    ASSUME CollectTypeOK, NEW r \in Ranks, ReportInv(r),
           \/ UNCHANGED vars \/ Ends \/ Start \/ Resume \/ YieldRest \/ StartDraining
           \/ Finishes \/ Join \/ Moves(r)
    PROVE  Keeps(r)
<1>1. CASE UNCHANGED vars \/ Resume \/ YieldRest \/ StartDraining \/ Finishes
    <2>1. UNCHANGED <<job, taken, worker, todo, held, raised, queue, buffer, done>>
        BY <1>1 DEF vars, workers, Resume, YieldRest, StartDraining, Finishes
    <2> QED BY <2>1 DEF Keeps, ReportInv
<1>2. CASE Ends \/ Join
    <2>1. /\ UNCHANGED <<job, taken, todo, held, raised, queue, buffer, done>>
          /\ worker' = [q \in Ranks |-> IF Alive(q) THEN "killed" ELSE worker[q]]
        BY <1>2 DEF Ends, End, Join
    <2>2. worker'[r] = IF Alive(r) THEN "killed" ELSE worker[r]
        BY <2>1
    <2> QED BY <2>1, <2>2 DEF Keeps, ReportInv, Alive
<1>3. CASE Start
    <2>1. /\ UNCHANGED <<job, taken, todo, held, raised, queue, buffer, done>>
          /\ worker'[r] = worker[r] \/ (worker[r] = "new" /\ worker'[r] = "scanning")
        BY <1>3 DEF Start, CollectTypeOK
    <2> QED BY <2>1 DEF Keeps, ReportInv
<1>4. CASE Moves(r)
    <2>1. UNCHANGED <<job, taken, todo, held, raised, queue, buffer, done>>
        BY <1>4 DEF Moves, ShardEnds, Leave, QuietExit, Hang, caller
    <2>2. \/ worker[r] = "scanning" /\ todo[r] = <<>> /\ worker'[r] = "reporting"
          \/ worker[r] = "leaving" /\ worker'[r] = "left"
          \/ worker[r] = "scanning" /\ worker'[r] = "quit"
          \/ worker[r] = "scanning" /\ worker'[r] = "hung"
        BY <1>4 DEF Moves, ShardEnds, Leave, QuietExit, Hang, CollectTypeOK
    <2> QED BY <2>1, <2>2 DEF Keeps, ReportInv
<1> QED BY <1>1, <1>2, <1>3, <1>4

LEMMA RankStep ==
    ASSUME CollectTypeOK, DeliveredInv, [Next]_vars, NEW r \in Ranks,
           SplitInv(r), ReportInv(r), RoomInv(r)
    PROVE  SplitInv(r)' /\ ReportInv(r)' /\ RoomInv(r)'
<1>1. CASE \/ UNCHANGED vars \/ Ends \/ Start \/ Resume \/ YieldRest \/ StartDraining
           \/ Finishes \/ Join \/ Moves(r)
    BY <1>1, CallerKeeps, SliceKept
<1>2. CASE TakeRow
    BY <1>2, TakeRowSplits
<1>3. CASE ReadChunk(r)
    BY <1>3, ReadChunkSplits, ReadChunkRoom
<1>4. CASE ReadReport(r)
    BY <1>4, ReadReportSplits
<1>5. CASE Judge(r)
    BY <1>5, JudgeSplits
<1>6. CASE PutChunk(r)
    BY <1>6, PutChunkSplits
<1>7. CASE PutReport(r)
    BY <1>7, PutReportSplits
<1>8. CASE Raise(r)
    BY <1>8, RaiseSplits
<1>9. CASE Crash(r)
    BY <1>9, CrashSplits
<1>10. ASSUME NEW q \in Ranks, q # r,
              \/ ReadChunk(q) \/ ReadReport(q) \/ Judge(q) \/ PutChunk(q)
              \/ PutReport(q) \/ Raise(q) \/ Crash(q) \/ Moves(q)
       PROVE  SplitInv(r)' /\ ReportInv(r)' /\ RoomInv(r)'
    BY <1>10, OthersKept, SliceKept
<1> QED BY <1>1, <1>2, <1>3, <1>4, <1>5, <1>6, <1>7, <1>8, <1>9, <1>10, NextCases

LEMMA FinishStep ==
    ASSUME CollectTypeOK, DeliveredInv, FinishInv, [Next]_vars
    PROVE  FinishInv'
<1>1. CASE UNCHANGED vars
    BY <1>1 DEF vars, FinishInv
<1>2. CASE Ends
    <2>1. phase' = "ended" /\ outcome' # "complete"
        BY <1>2 DEF Ends, End
    <2> QED BY <2>1 DEF FinishInv
<1>3. CASE Start \/ TakeRow \/ Resume \/ YieldRest \/ StartDraining
    <2>1. outcome' = outcome /\ phase # "ended"
        BY <1>3 DEF Start, TakeRow, Resume, YieldRest, StartDraining, Merging
    <2>2. phase' # "joining"
        <3>1. CASE TakeRow
            BY <3>1 DEF TakeRow, YieldFull, Merging
        <3>2. CASE Start \/ Resume \/ YieldRest \/ StartDraining
            BY <3>2 DEF Start, Resume, YieldRest, StartDraining
        <3> QED BY <1>3, <3>1, <3>2
    <2>3. outcome # "complete"
        BY <2>1 DEF DeliveredInv
    <2> QED BY <2>1, <2>2, <2>3 DEF FinishInv
<1>4. CASE Finishes
    BY <1>4 DEF Finishes, FinishInv
<1>5. CASE Join
    <2>1. phase = "joining" /\ done' = done /\ buffer' = buffer
        BY <1>5 DEF Join
    <2> QED BY <2>1 DEF FinishInv
<1>6. ASSUME NEW r \in Ranks, ReadChunk(r) \/ ReadReport(r) PROVE FinishInv'
    <2>1. phase' = phase /\ outcome' = outcome /\ phase \in {"merging", "draining"}
        BY <1>6 DEF ReadChunk, ReadReport, Reads, Merging
    <2>2. outcome # "complete"
        BY <2>1 DEF DeliveredInv
    <2> QED BY <2>1, <2>2 DEF FinishInv
<1>7. ASSUME NEW r \in Ranks, \/ Judge(r) \/ PutChunk(r) \/ PutReport(r) \/ Raise(r)
                              \/ Crash(r) \/ Moves(r)
      PROVE  FinishInv'
    <2>1. UNCHANGED <<phase, outcome, done, buffer>>
        BY <1>7 DEF Judge, PutChunk, PutReport, Raise, Crash, Moves,
                    ShardEnds, Leave, QuietExit, Hang, caller
    <2> QED BY <2>1 DEF FinishInv
<1> QED BY <1>1, <1>2, <1>3, <1>4, <1>5, <1>6, <1>7, NextCases

\* The inductive invariant: types, the rows delivered, where every row of a shard
\* is, what the reports say, how much is held, and when the end is reached.
THEOREM CollectSafe == Spec => []CollectInv
<1>1. Init => CollectInv
    <2> SUFFICES ASSUME Init PROVE CollectInv
        OBVIOUS
    <2>1. CollectTypeOK /\ DeliveredInv
        BY InitTypes, InitDelivered
    <2>2. \A r \in Ranks : SplitInv(r) /\ ReportInv(r) /\ RoomInv(r)
        BY InitSplit
    <2>3. FinishInv
        BY DEF Init, FinishInv
    <2> QED BY <2>1, <2>2, <2>3 DEF CollectInv
<1>2. CollectInv /\ [Next]_vars => CollectInv'
    <2> SUFFICES ASSUME CollectInv, [Next]_vars PROVE CollectInv'
        OBVIOUS
    <2>1. CollectTypeOK' /\ DeliveredInv' /\ FinishInv'
        BY TypesStep, DeliveredStep, FinishStep DEF CollectInv
    <2>2. \A r \in Ranks : SplitInv(r)' /\ ReportInv(r)' /\ RoomInv(r)'
        BY RankStep DEF CollectInv
    <2> QED BY <2>1, <2>2 DEF CollectInv
<1> QED BY <1>1, <1>2, PTL DEF Spec

-----------------------------------------------------------------------------
(* What the runs check follows.                                            *)

\* When a rank is done and nothing of it is buffered, its whole shard was consumed.
LEMMA DoneIsConsumed ==
    ASSUME CollectTypeOK, NEW r \in Ranks, SplitInv(r), ReportInv(r), r \in done, buffer[r] = {}
    PROVE  ShardOf(job, r) \subseteq Consumed
<1>1. PICK passed \in Seq(Nat), lost \in Seq(Nat) :
        Split(r, passed, lost) /\ (Reported(r) => lost = <<>>)
    BY DEF SplitInv
<1>2. queue[r] = <<>> /\ todo[r] = <<>> /\ held[r] = <<>> /\ lost = <<>>
    BY <1>1 DEF ReportInv, Reported
<1>3. ShardRows(job, r) = passed
    <2>1. PICK e \in Seq(Nat) : e = <<>>
        BY EmptySeq
    <2>2. e \o e = e /\ passed \o e = passed
        BY <2>1, ConcatEmptySeq
    <2>3. ShardRows(job, r) = passed \o (e \o (e \o (e \o e)))
        BY <1>1, <1>2, <2>1, RowsInEmpty DEF Split
    <2> QED BY <2>2, <2>3
<1>4. ToSet(passed) = ShardOf(job, r)
    BY <1>3, ShardFacts DEF CollectTypeOK
<1>5. ToSet(passed) \ Consumed = {}
    BY <1>1 DEF Split
<1> QED BY <1>4, <1>5

\* Only missing indexes are consumed.
LEMMA ConsumedIsMissing ==
    ASSUME CollectTypeOK, DeliveredInv
    PROVE  Consumed \subseteq Missing(job)
<1>1. job \in Jobs /\ taken \in Nat
    BY DEF CollectTypeOK
<1>2. PICK t \in Seq(Missing(job)) : t = Targets(job)
    BY <1>1, TargetFacts
<1>3. Len(t) \in Nat /\ taken <= Len(t)
    BY <1>2, LenProperties DEF DeliveredInv
<1>4. \A m \in 1 .. taken : t[m] \in Missing(job)
    <2>1. \A m \in 1 .. Len(t) : t[m] \in Missing(job)
        BY <1>2, ElementOfSeq
    <2>2. \A m \in 1 .. taken : m \in 1 .. Len(t)
        BY <1>1, <1>3
    <2> QED BY <2>1, <2>2
<1> QED BY <1>2, <1>4 DEF Consumed

LEMMA CompleteHidesNothing == CollectInv => NothingIsHidden
<1> SUFFICES ASSUME CollectInv, outcome = "complete"
             PROVE  /\ raised = {}
                    /\ \A r \in Ranks : /\ todo[r] = <<>> /\ held[r] = <<>>
                                        /\ queue[r] = <<>> /\ buffer[r] = {}
                    /\ job.actual <= SampleCount
    BY DEF NothingIsHidden
<1>1. /\ CollectTypeOK /\ DeliveredInv
      /\ \A r \in Ranks : SplitInv(r) /\ ReportInv(r)
      /\ \A r \in Ranks : r \in done /\ buffer[r] = {}
    BY DEF CollectInv, FinishInv
<1>2. \A r \in Ranks : queue[r] = <<>> /\ todo[r] = <<>> /\ held[r] = <<>> /\ r \notin raised
    BY <1>1 DEF ReportInv
<1>3. raised = {}
    BY <1>1, <1>2 DEF CollectTypeOK
<1>4. job.actual <= SampleCount
    <2>1. job \in Jobs
        BY <1>1 DEF CollectTypeOK
    <2>2. PICK a \in Nat : a = job.actual
        BY <2>1, JobFacts
    <2>3. SUFFICES ASSUME SampleCount < a PROVE FALSE
        BY <2>2, SizesAssumption
    <2>4. ~job.mapStyle
        <3>1. job.mapStyle => job.actual = SampleCount
            BY <2>1, JobFacts
        <3> QED BY <2>2, <2>3, <3>1, SizesAssumption
    <2>5. SampleCount \notin job.resumed /\ SampleCount \notin Missing(job)
        <3>1. SampleCount \notin 0 .. SampleCount - 1
            BY SizesAssumption
        <3>2. job.resumed \subseteq 0 .. SampleCount - 1
            BY <2>1, JobFacts
        <3> QED BY <3>1, <3>2 DEF Missing
    <2>7. PICK r \in Ranks : SampleCount \in ShardOf(job, r)
        <3>1. SampleCount \in Nat /\ SampleCount < job.actual
            BY <2>2, <2>3, SizesAssumption
        <3> QED BY <2>1, <2>4, <2>5, <3>1, EveryRowIsRead
    <2>6. SampleCount \in Consumed
        BY <1>1, <2>7, DoneIsConsumed
    <2> QED BY <1>1, <2>5, <2>6, ConsumedIsMissing
<1> QED BY <1>1, <1>2, <1>3, <1>4

\* A collection is reported complete only when no worker raised, no row is left
\* anywhere, and an iterable did not yield more rows than it has.
THEOREM HidesNothing == Spec => []NothingIsHidden
BY CollectSafe, CompleteHidesNothing, PTL

\* What a queue holds, at most.
LEMMA RowsInBound ==
    ASSUME NEW w \in Nat
    PROVE  \A q \in Seq(Messages) :
                (\A k \in 1 .. Len(q) : Len(MessageRows(q[k])) <= w)
                    => Len(RowsIn(q)) <= w * Len(q)
<1> DEFINE Small(q) == \A k \in 1 .. Len(q) : Len(MessageRows(q[k])) <= w
           B == {n \in Nat : \A q \in Seq(Messages) :
                    Len(q) = n /\ Small(q) => Len(RowsIn(q)) <= w * n}
<1>1. 0 \in B
    <2> SUFFICES ASSUME NEW q \in Seq(Messages), Len(q) = 0
                 PROVE  Len(RowsIn(q)) <= w * 0
        OBVIOUS
    <2>1. q = <<>>
        BY EmptySeq
    <2>2. Len(RowsIn(q)) = 0
        BY <2>1, RowsInEmpty, EmptySeq
    <2> QED BY <2>2
<1>2. ASSUME NEW n \in Nat, n \in B PROVE n + 1 \in B
    <2> SUFFICES ASSUME NEW q \in Seq(Messages), Len(q) = n + 1, Small(q)
                 PROVE  Len(RowsIn(q)) <= w * (n + 1)
        OBVIOUS
    <2>1. q # <<>>
        <3>1. Len(q) # 0
            OBVIOUS
        <3> QED BY <3>1, EmptySeq
    <2>a. /\ Tail(q) \in Seq(Messages) /\ Len(Tail(q)) = Len(q) - 1
          /\ \A k \in 1 .. Len(Tail(q)) : Tail(q)[k] = q[k + 1]
        BY <2>1, HeadTailProperties
    <2>b. PICK t \in Seq(Messages) : t = Tail(q)
        BY <2>a
    <2>2. t = Tail(q) /\ Len(t) = n /\ \A k \in 1 .. Len(t) : t[k] = q[k + 1]
        BY <2>a, <2>b
    <2>3. PICK m \in Messages : m = Head(q) /\ m = q[1]
        BY <2>1, HeadTailProperties
    <2>4. Small(t)
        <3> SUFFICES ASSUME NEW k \in 1 .. Len(t) PROVE Len(MessageRows(t[k])) <= w
            OBVIOUS
        <3>1. PICK j \in 1 .. Len(q) : t[k] = q[j]
            <4>1. k + 1 \in 1 .. Len(q) /\ t[k] = q[k + 1]
                BY <2>2
            <4> QED BY <4>1
        <3> QED BY <3>1
    <2>5. Len(RowsIn(t)) <= w * n
        BY <1>2, <2>2, <2>4
    <2>6. PICK a \in Seq(Nat), b \in Seq(Nat) : a = MessageRows(m) /\ b = RowsIn(t)
        BY MessageRowsType, RowsInType
    <2>7. RowsIn(q) = a \o b
        BY <2>1, <2>2, <2>3, <2>6, RowsInHead
    <2>8. Len(a \o b) = Len(a) + Len(b) /\ Len(a) \in Nat /\ Len(b) \in Nat
        BY ConcatProperties, LenProperties
    <2>9. Len(a) <= w
        <3>1. 1 \in 1 .. Len(q)
            OBVIOUS
        <3> QED BY <2>3, <2>6, <3>1
    <2>10. w * (n + 1) = w * n + w /\ w * n \in Nat
        OBVIOUS
    <2> QED BY <2>5, <2>6, <2>7, <2>8, <2>9, <2>10
<1>0. B \in SUBSET Nat
    OBVIOUS
<1> HIDE DEF B
<1>3. B = Nat
    BY <1>0, <1>1, <1>2, AllNaturals
<1>4. ASSUME NEW q \in Seq(Messages), Small(q) PROVE Len(RowsIn(q)) <= w * Len(q)
    <2>1. Len(q) \in Nat
        BY LenProperties
    <2>2. Len(q) \in B
        BY <1>3, <2>1
    <2> QED BY <1>4, <2>2 DEF B
<1> QED BY <1>4

LEMMA CollectsShares == CollectInv => ShardsAgree
<1> SUFFICES ASSUME CollectInv, NEW r \in Ranks
             PROVE  LET arriving == RowsIn(queue[r]) \o held[r] \o todo[r] IN
                        /\ IsInjective(arriving)
                        /\ ToSet(arriving) \cap buffer[r] = {}
                        /\ \A i \in ToSet(arriving) \cup buffer[r] : TargetRank(job, i) = r
    BY DEF ShardsAgree
<1>1. CollectTypeOK /\ SplitInv(r)
    BY DEF CollectInv
<1>2. PICK passed \in Seq(Nat), lost \in Seq(Nat) : Split(r, passed, lost)
    BY <1>1 DEF SplitInv
<1>3. PICK q \in Seq(Nat), h \in Seq(Nat), t \in Seq(Nat) :
        q = RowsIn(queue[r]) /\ h = held[r] /\ t = todo[r]
    BY <1>1, QueueTypes
<1>4. PICK x \in Seq(Nat) : x = h \o t
    BY ConcatProperties
<1>5. PICK y \in Seq(Nat) : y = q \o x
    BY ConcatProperties
<1>6. (q \o h) \o t = y
    <2>1. Associates(q, h, t)
        BY Associated
    <2> QED BY <1>4, <1>5, <2>1 DEF Associates
<1>7. /\ ToSet(passed) \subseteq ToSet(ShardRows(job, r))
      /\ ToSet(q) \subseteq ToSet(ShardRows(job, r))
      /\ ToSet(x) \subseteq ToSet(ShardRows(job, r))
      /\ IsInjective(q) /\ IsInjective(x)
      /\ ToSet(passed) \cap ToSet(q) = {}
      /\ ToSet(passed) \cap ToSet(x) = {}
      /\ ToSet(q) \cap ToSet(x) = {}
      /\ \A i \in ToSet(ShardRows(job, r)) : TargetRank(job, i) = r
    BY <1>1, <1>2, <1>3, <1>4, SplitFacts
<1>8. IsInjective(y)
    BY <1>5, <1>7, InjectiveParts
<1>9. ToSet(y) = ToSet(q) \cup ToSet(x)
    BY <1>5, ToSetOfConcat
<1>10. buffer[r] \subseteq ToSet(passed)
    BY <1>2 DEF Split
<1>11. ToSet(y) \cap buffer[r] = {}
    BY <1>7, <1>9, <1>10
<1>12. \A i \in ToSet(y) \cup buffer[r] : TargetRank(job, i) = r
    BY <1>7, <1>9, <1>10
<1> QED BY <1>3, <1>6, <1>8, <1>11, <1>12

LEMMA CollectsWithinBounds == CollectInv => WorkAheadIsBounded
<1> SUFFICES ASSUME CollectInv, job.mapStyle, NEW r \in Ranks
             PROVE  Ahead(r) <= (QueueSize + 2) * WorkerCommit
    BY DEF WorkAheadIsBounded
<1>1. PICK w \in Nat, s \in Nat : w = WorkerCommit /\ s = QueueSize
    BY SizesAssumption
<1>2. CollectTypeOK /\ RoomInv(r)
    BY DEF CollectInv
<1>3. PICK q \in Seq(Messages) : q = queue[r] /\ Len(q) \in Nat
    BY <1>2, QueueTypes
<1>4. PICK n \in Nat : n = Len(RowsIn(q))
    BY RowsInType, LenProperties
<1>5. n <= w * s
    <2>1. \A k \in 1 .. Len(q) : Len(MessageRows(q[k])) <= w
        BY <1>1, <1>2, <1>3 DEF RoomInv
    <2>2. n <= w * Len(q)
        BY <1>4, <2>1, RowsInBound
    <2>3. Len(q) <= s
        BY <1>1, <1>2, <1>3 DEF RoomInv
    <2>4. PICK m \in Nat : m = Len(q)
        BY <1>3
    <2>5. w * m <= w * s
        BY <2>3, <2>4, TimesMonotonic
    <2>6. w * m \in Nat /\ w * s \in Nat
        OBVIOUS
    <2> QED BY <2>2, <2>4, <2>5, <2>6
<1>6. PICK h \in Nat : h = Len(held[r]) /\ h <= w
    <2>1. Len(held[r]) \in Nat
        BY <1>2, QueueTypes
    <2>2. Len(held[r]) <= w
        BY <1>1, <1>2 DEF RoomInv
    <2> QED BY <2>1, <2>2
<1>7. PICK b \in Nat : b = Cardinality(buffer[r]) /\ b <= w
    <2>1. IsFiniteSet(buffer[r]) /\ Cardinality(buffer[r]) <= w
        BY <1>1, <1>2 DEF RoomInv
    <2>2. Cardinality(buffer[r]) \in Nat
        BY <2>1, FS_CardinalityType
    <2> QED BY <2>1, <2>2
<1>8. Ahead(r) = h + n + b
    BY <1>3, <1>4, <1>6, <1>7 DEF Ahead
<1>9. (s + 2) * w = w * s + w + w /\ w * s \in Nat
    OBVIOUS
<1> QED BY <1>1, <1>5, <1>6, <1>7, <1>8, <1>9

\* Every row in a worker's hand, in its queue or in the caller's buffer is of its
\* share and in one place only, and a map-style worker runs ahead by what its
\* queue, its hand and the caller's buffer hold.
THEOREM SharesSafe == Spec => []SharesHold
BY CollectSafe, CollectsShares, CollectsWithinBounds, PTL DEF SharesHold
=============================================================================
