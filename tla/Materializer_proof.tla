-------------------------- MODULE Materializer_proof --------------------------
(***************************************************************************)
(* That without orphans a worker computes nothing that is durable already: *)
(* the shares of the workers of a call are cut out of what is missing, and *)
(* their chunks stay apart from each other and from all fragments until    *)
(* they are written.                                                       *)
(***************************************************************************)
EXTENDS Materializer, SequenceTheorems, NaturalsInduction, WellFoundedInduction, TLAPS

-----------------------------------------------------------------------------
(* Arithmetic.                                                             *)

\* Natural numbers have a least one.
LEMMA LeastNatural ==
    ASSUME NEW T \in SUBSET Nat, T # {}
    PROVE  \E n \in T : \A m \in T : n <= m
<1> DEFINE R == OpToRel(<, Nat)
<1>1. IsWellFoundedOn(R, Nat)
    BY NatLessThanWellFounded
<1>2. \E x \in T : \A y \in T : <<y, x>> \notin R
    BY <1>1, WFMin
<1>3. \A x, y \in Nat : x < y => <<x, y>> \in R
    BY DEF OpToRel
<1> HIDE DEF R
<1>4. PICK x \in T : \A y \in T : <<y, x>> \notin R
    BY <1>2
<1>5. \A y \in T : ~(y < x)
    BY <1>3, <1>4
<1>6. \A y \in T : x <= y
    BY <1>5
<1> QED BY <1>6

LEMMA AllNaturals ==
    ASSUME NEW T \in SUBSET Nat, 0 \in T, \A n \in T : n + 1 \in T
    PROVE  T = Nat
<1> SUFFICES ASSUME Nat \ T # {} PROVE FALSE
    OBVIOUS
<1>1. PICK n \in Nat \ T : \A m \in Nat \ T : n <= m
    BY LeastNatural
<1>2. n - 1 \in T
    BY <1>1
<1>3. (n - 1) + 1 \in T
    BY <1>2
<1> QED BY <1>1, <1>3

LEMMA Grows ==
    ASSUME NEW j \in Nat, NEW k \in Nat, NEW n \in Nat, j < k
    PROVE  j * n + n <= k * n /\ j * n \in Nat /\ k * n \in Nat
<1>1. PICK d \in Nat : k = j + 1 + d
    <2>1. k - j - 1 \in Nat /\ k = j + 1 + (k - j - 1)
        OBVIOUS
    <2> QED BY <2>1
<1>2. k * n = j * n + n + d * n
    BY <1>1
<1>3. d * n \in Nat /\ j * n \in Nat /\ k * n \in Nat
    OBVIOUS
<1> QED BY <1>2, <1>3

\* Positions r, r + n, r + 2n, ... of different shards or different steps differ.
LEMMA StridesDiffer ==
    ASSUME NEW n \in Nat \ {0}, NEW q \in 0 .. n - 1, NEW r \in 0 .. n - 1,
           NEW j \in Nat, NEW k \in Nat, q + 1 + j * n = r + 1 + k * n
    PROVE  q = r /\ j = k
<1>0. j * n \in Nat /\ k * n \in Nat
    OBVIOUS
<1>1. ~(j < k)
    <2>1. SUFFICES ASSUME j < k PROVE FALSE
        OBVIOUS
    <2>2. j * n + n <= k * n
        BY <2>1, Grows
    <2> QED BY <1>0, <2>2
<1>2. ~(k < j)
    <2>1. SUFFICES ASSUME k < j PROVE FALSE
        OBVIOUS
    <2>2. k * n + n <= j * n
        BY <2>1, Grows
    <2> QED BY <1>0, <2>2
<1>3. j = k
    BY <1>1, <1>2
<1> QED BY <1>0, <1>3

LEMMA TimesBefore ==
    ASSUME NEW k \in Nat \ {0}, NEW n \in Nat
    PROVE  (k - 1) * n \in Nat /\ k * n = (k - 1) * n + n
<1>1. PICK j \in Nat : k = j + 1
    <2>1. k - 1 \in Nat /\ k = (k - 1) + 1
        OBVIOUS
    <2> QED BY <2>1
<1>2. j * n \in Nat /\ k * n = j * n + n /\ k - 1 = j
    BY <1>1
<1> QED BY <1>2

LEMMA DivisionBounds ==
    ASSUME NEW a \in Nat, NEW n \in Nat \ {0}, NEW k \in 1 .. a \div n
    PROVE  k * n <= a /\ k * n \in Nat
<1>1. a \div n \in Nat /\ a = n * (a \div n) + (a % n) /\ a % n \in 0 .. n - 1
    OBVIOUS
<1> QED OBVIOUS

-----------------------------------------------------------------------------
(* Sequences of distinct elements, and how they are cut.                   *)

Distinct(s) == \A j, k \in DOMAIN s : s[j] = s[k] => j = k

LEMMA SeqMade ==
    ASSUME NEW S, NEW n \in Nat, NEW f \in [1 .. n -> S]
    PROVE  f \in Seq(S)
BY SeqDef

LEMMA SliceIs ==
    ASSUME NEW S, NEW s \in Seq(S), NEW n \in Nat \ {0}, NEW r \in 0 .. n - 1
    PROVE  /\ Slice(s, r, n) \in Seq(S)
           /\ DOMAIN Slice(s, r, n) \subseteq Nat \ {0}
           /\ \A k \in DOMAIN Slice(s, r, n) :
                /\ r + 1 + (k - 1) * n \in DOMAIN s
                /\ Slice(s, r, n)[k] = s[r + 1 + (k - 1) * n]
<1> DEFINE L == (Len(s) - r + n - 1) \div n
<1>1. Len(s) \in Nat /\ DOMAIN s = 1 .. Len(s) /\ \A i \in 1 .. Len(s) : s[i] \in S
    OBVIOUS
<1>2. Len(s) - r + n - 1 \in Nat
    BY <1>1
<1>3. L \in Nat
    BY <1>2
<1>4. ASSUME NEW k \in 1 .. L PROVE r + 1 + (k - 1) * n \in 1 .. Len(s)
    <2>1. k * n <= Len(s) - r + n - 1
        BY <1>2, DivisionBounds
    <2>2. (k - 1) * n = k * n - n
        BY <1>3
    <2>3. k - 1 \in Nat /\ (k - 1) * n \in Nat /\ k * n \in Nat
        BY <1>3
    <2> QED BY <1>1, <2>1, <2>2, <2>3
<1>5. Slice(s, r, n) = [k \in 1 .. L |-> s[r + 1 + (k - 1) * n]]
    BY DEF Slice
<1> HIDE DEF L
<1>6. DOMAIN Slice(s, r, n) = 1 .. L
    BY <1>5
<1>7. \A k \in 1 .. L : Slice(s, r, n)[k] = s[r + 1 + (k - 1) * n]
    BY <1>5
<1>8. Slice(s, r, n) \in Seq(S)
    <2>1. Slice(s, r, n) \in [1 .. L -> S]
        BY <1>1, <1>4, <1>5
    <2> QED BY <1>3, <2>1, SeqDef
<1>9. \A k \in DOMAIN Slice(s, r, n) : r + 1 + (k - 1) * n \in DOMAIN s
    BY <1>1, <1>4, <1>6
<1>10. 1 .. L \subseteq Nat \ {0}
    BY <1>3
<1> QED BY <1>6, <1>7, <1>8, <1>9, <1>10

\* The shares of a sequence of distinct elements are apart and distinct.
LEMMA SlicesApart ==
    ASSUME NEW S, NEW s \in Seq(S), NEW n \in Nat \ {0},
           NEW q \in 0 .. n - 1, NEW r \in 0 .. n - 1, Distinct(s),
           NEW j \in DOMAIN Slice(s, q, n), NEW k \in DOMAIN Slice(s, r, n),
           Slice(s, q, n)[j] = Slice(s, r, n)[k]
    PROVE  q = r /\ j = k
<1>1. j \in Nat \ {0} /\ k \in Nat \ {0}
    BY SliceIs
<1>2. /\ q + 1 + (j - 1) * n \in DOMAIN s /\ Slice(s, q, n)[j] = s[q + 1 + (j - 1) * n]
      /\ r + 1 + (k - 1) * n \in DOMAIN s /\ Slice(s, r, n)[k] = s[r + 1 + (k - 1) * n]
    BY SliceIs
<1>3. q + 1 + (j - 1) * n = r + 1 + (k - 1) * n
    BY <1>2 DEF Distinct
<1>4. q = r /\ j - 1 = k - 1
    BY <1>1, <1>3, StridesDiffer
<1> QED BY <1>1, <1>4

LEMMA ChunksAre ==
    ASSUME NEW S, NEW s \in Seq(S), NEW size \in Nat \ {0}
    PROVE  /\ Chunks(s, size) \in Seq(Seq(S))
           /\ DOMAIN Chunks(s, size) \subseteq Nat \ {0}
           /\ \A k \in DOMAIN Chunks(s, size) : \A x \in ToSet(Chunks(s, size)[k]) :
                \E p \in DOMAIN s : /\ s[p] = x
                                    /\ (k - 1) * size < p /\ p <= k * size
<1> DEFINE L == (Len(s) + size - 1) \div size
           To(k) == IF k * size < Len(s) THEN k * size ELSE Len(s)
           C(k) == SubSeq(s, (k - 1) * size + 1, To(k))
<1>1. Len(s) \in Nat /\ DOMAIN s = 1 .. Len(s) /\ Len(s) + size - 1 \in Nat
    OBVIOUS
<1>2. L \in Nat
    BY <1>1
<1>3. ASSUME NEW k \in 1 .. L
      PROVE  /\ C(k) \in Seq(S)
             /\ \A x \in ToSet(C(k)) : \E p \in DOMAIN s :
                    s[p] = x /\ (k - 1) * size < p /\ p <= k * size
    <2>1. k * size <= Len(s) + size - 1 /\ k * size \in Nat
        BY <1>1, DivisionBounds
    <2>2. (k - 1) * size = k * size - size /\ (k - 1) * size \in Nat
        <3>1. k - 1 \in Nat
            BY <1>2
        <3> QED BY <1>2, <3>1
    <2> DEFINE a == (k - 1) * size + 1
               b == To(k)
    <2>3. a \in Nat /\ 1 <= a /\ b \in Nat /\ b <= Len(s) /\ a <= b /\ b <= k * size
          /\ a = (k - 1) * size + 1
        BY <1>1, <2>1, <2>2
    <2> HIDE DEF a, b
    <2>4. a \in 1 .. Len(s) /\ b \in 1 .. Len(s)
        BY <1>1, <2>3
    <2>5. /\ SubSeq(s, a, b) \in Seq(S) /\ DOMAIN SubSeq(s, a, b) = 1 .. b - a + 1
          /\ \A i \in 1 .. b - a + 1 : SubSeq(s, a, b)[i] = s[a + i - 1]
        <3>1. /\ SubSeq(s, a, b) \in Seq(S)
              /\ Len(SubSeq(s, a, b)) = b - a + 1
              /\ \A i \in 1 .. b - a + 1 : SubSeq(s, a, b)[i] = s[a + i - 1]
            <4>1. \A i \in a .. b : s[i] \in S
                BY <1>1, <2>4
            <4> QED BY <2>3, <4>1, SubSeqProperties
        <3> QED BY <2>3, <3>1
    <2>6. ASSUME NEW x \in ToSet(SubSeq(s, a, b))
          PROVE  \E p \in DOMAIN s : s[p] = x /\ (k - 1) * size < p /\ p <= k * size
        <3>1. PICK i \in 1 .. b - a + 1 : x = s[a + i - 1]
            BY <2>5 DEF ToSet
        <3>2. a + i - 1 \in DOMAIN s /\ (k - 1) * size < a + i - 1 /\ a + i - 1 <= k * size
            BY <1>1, <2>2, <2>3, <2>1
        <3> QED BY <3>1, <3>2
    <2>7. C(k) = SubSeq(s, a, b)
        BY DEF a, b
    <2> HIDE DEF C
    <2> QED BY <2>5, <2>6, <2>7
<1>4. Chunks(s, size) = [k \in 1 .. L |-> C(k)]
    BY DEF Chunks
<1> HIDE DEF L, C
<1>5. DOMAIN Chunks(s, size) = 1 .. L /\ \A k \in 1 .. L : Chunks(s, size)[k] = C(k)
    BY <1>4
<1>6. Chunks(s, size) \in Seq(Seq(S))
    <2>1. Chunks(s, size) \in [1 .. L -> Seq(S)]
        BY <1>3, <1>4
    <2> QED BY <1>2, <2>1, SeqMade
<1>7. ASSUME NEW k \in DOMAIN Chunks(s, size), NEW x \in ToSet(Chunks(s, size)[k])
      PROVE  \E p \in DOMAIN s : s[p] = x /\ (k - 1) * size < p /\ p <= k * size
    <2>1. k \in 1 .. L /\ x \in ToSet(C(k))
        BY <1>5
    <2> QED BY <1>3, <2>1
<1>8. 1 .. L \subseteq Nat \ {0}
    BY <1>2
<1> QED BY <1>5, <1>6, <1>7, <1>8

\* Chunks of a sequence of distinct elements share none.
LEMMA ChunksApart ==
    ASSUME NEW S, NEW s \in Seq(S), NEW size \in Nat \ {0}, Distinct(s),
           NEW j \in DOMAIN Chunks(s, size), NEW k \in DOMAIN Chunks(s, size),
           NEW x, x \in ToSet(Chunks(s, size)[j]), x \in ToSet(Chunks(s, size)[k])
    PROVE  j = k
<1>1. j \in Nat \ {0} /\ k \in Nat \ {0}
    BY ChunksAre
<1>2. PICK p \in DOMAIN s : s[p] = x /\ (j - 1) * size < p /\ p <= j * size
    BY ChunksAre
<1>3. PICK q \in DOMAIN s : s[q] = x /\ (k - 1) * size < q /\ q <= k * size
    BY ChunksAre
<1>4. p = q /\ p \in Nat
    BY <1>2, <1>3 DEF Distinct
<1>5. /\ (j - 1) * size \in Nat /\ j * size = (j - 1) * size + size
      /\ (k - 1) * size \in Nat /\ k * size = (k - 1) * size + size
    BY <1>1, TimesBefore
<1>6. ~(j - 1 < k - 1)
    <2> SUFFICES ASSUME j - 1 < k - 1 PROVE FALSE
        OBVIOUS
    <2>1. (j - 1) * size + size <= (k - 1) * size
        BY <1>1, Grows
    <2> QED BY <1>2, <1>3, <1>4, <1>5, <2>1
<1>7. ~(k - 1 < j - 1)
    <2> SUFFICES ASSUME k - 1 < j - 1 PROVE FALSE
        OBVIOUS
    <2>1. (k - 1) * size + size <= (j - 1) * size
        BY <1>1, Grows
    <2> QED BY <1>2, <1>3, <1>4, <1>5, <2>1
<1> QED BY <1>1, <1>6, <1>7

\* The function that Remaining defines, as far as the first m indexes.
Keeps(s, done, m, f) ==
    f = [n \in 0 .. m |-> IF n = 0 THEN <<>>
                          ELSE IF s[n] \in done THEN f[n - 1] ELSE Append(f[n - 1], s[n])]

LEMMA RemainingChosen ==
    ASSUME NEW s, NEW done
    PROVE  Remaining(s, done) = (CHOOSE f : Keeps(s, done, Len(s), f))[Len(s)]
BY DEF Remaining, Keeps

LEMMA KeepsExtended ==
    ASSUME NEW s, NEW done, NEW m \in Nat, NEW f, Keeps(s, done, m, f)
    PROVE  \E g : Keeps(s, done, m + 1, g)
<1> DEFINE new == IF s[m + 1] \in done THEN f[m] ELSE Append(f[m], s[m + 1])
           g == [n \in 0 .. m + 1 |-> IF n = m + 1 THEN new ELSE f[n]]
<1>1. \A n \in 0 .. m : f[n] = IF n = 0 THEN <<>>
                              ELSE IF s[n] \in done THEN f[n - 1] ELSE Append(f[n - 1], s[n])
    BY DEF Keeps
<1>2. \A n \in 0 .. m : g[n] = f[n]
    OBVIOUS
<1>3. g[m + 1] = new
    OBVIOUS
<1> HIDE DEF g
<1>4. ASSUME NEW n \in 0 .. m + 1
      PROVE  g[n] = IF n = 0 THEN <<>>
                    ELSE IF s[n] \in done THEN g[n - 1] ELSE Append(g[n - 1], s[n])
    <2>1. CASE n = m + 1
        <3>1. n # 0 /\ n - 1 = m /\ g[m] = f[m]
            BY <1>2, <2>1
        <3> QED BY <1>3, <2>1, <3>1
    <2>2. CASE n # m + 1 /\ n # 0
        <3>1. n \in 0 .. m /\ n - 1 \in 0 .. m
            BY <2>2
        <3>2. g[n] = f[n] /\ g[n - 1] = f[n - 1]
            BY <1>2, <3>1
        <3> QED BY <1>1, <2>2, <3>1, <3>2
    <2>3. CASE n = 0
        <3>1. n \in 0 .. m
            BY <2>3
        <3> QED BY <1>1, <1>2, <2>3, <3>1
    <2> QED BY <2>1, <2>2, <2>3
<1>5. g = [n \in 0 .. m + 1 |-> g[n]]
    BY DEF g
<1>6. Keeps(s, done, m + 1, g)
    BY <1>4, <1>5 DEF Keeps
<1> QED BY <1>6

LEMMA KeepsExists ==
    ASSUME NEW s, NEW done, NEW m \in Nat
    PROVE  \E f : Keeps(s, done, m, f)
<1> DEFINE T == {n \in Nat : \E f : Keeps(s, done, n, f)}
<1>1. 0 \in T
    <2>1. Keeps(s, done, 0, [n \in 0 .. 0 |-> <<>>])
        BY DEF Keeps
    <2> QED BY <2>1
<1>2. \A n \in T : n + 1 \in T
    BY KeepsExtended
<1> HIDE DEF T
<1>3. T = Nat
    <2>1. T \subseteq Nat
        BY DEF T
    <2> QED BY <1>1, <1>2, <2>1, AllNaturals
<1> QED BY <1>3 DEF T

\* What is left over the first m indexes.
LeftOver(s, done, m, rest) ==
    /\ rest \in Seq(ToSet(s)) /\ Distinct(rest)
    /\ \A k \in DOMAIN rest : rest[k] \notin done /\ \E p \in 1 .. m : s[p] = rest[k]

LEMMA LeftOverNext ==
    ASSUME NEW S, NEW s \in Seq(S), Distinct(s), NEW done, NEW m \in Nat, m + 1 <= Len(s),
           NEW rest, LeftOver(s, done, m, rest)
    PROVE  LeftOver(s, done, m + 1,
                    IF s[m + 1] \in done THEN rest ELSE Append(rest, s[m + 1]))
<1>1. Len(s) \in Nat /\ DOMAIN s = 1 .. Len(s) /\ m + 1 \in DOMAIN s
    OBVIOUS
<1>2. \A p \in 1 .. m : p \in 1 .. m + 1
    OBVIOUS
<1>3. CASE s[m + 1] \in done
    BY <1>2, <1>3 DEF LeftOver
<1>4. CASE s[m + 1] \notin done
    <2> DEFINE new == Append(rest, s[m + 1])
    <2>1. /\ rest \in Seq(ToSet(s)) /\ Len(rest) \in Nat /\ DOMAIN rest = 1 .. Len(rest)
          /\ s[m + 1] \in ToSet(s)
        BY <1>1 DEF LeftOver, ToSet
    <2>2. /\ new \in Seq(ToSet(s)) /\ DOMAIN new = 1 .. Len(rest) + 1
          /\ \A k \in 1 .. Len(rest) : new[k] = rest[k]
          /\ new[Len(rest) + 1] = s[m + 1]
        BY <2>1
    <2> HIDE DEF new
    <2>3. \A k \in 1 .. Len(rest) + 1 : k \in 1 .. Len(rest) \/ k = Len(rest) + 1
        BY <2>1
    <2>4. \A k \in 1 .. Len(rest) : rest[k] # s[m + 1]
        <3> SUFFICES ASSUME NEW k \in 1 .. Len(rest), rest[k] = s[m + 1] PROVE FALSE
            OBVIOUS
        <3>1. PICK p \in 1 .. m : s[p] = rest[k]
            BY <2>1 DEF LeftOver
        <3>2. p = m + 1
            BY <1>1, <3>1 DEF Distinct
        <3> QED BY <3>1, <3>2
    <2>5. Distinct(new)
        BY <2>1, <2>2, <2>3, <2>4 DEF Distinct, LeftOver
    <2>6. ASSUME NEW k \in DOMAIN new
          PROVE  new[k] \notin done /\ \E p \in 1 .. m + 1 : s[p] = new[k]
        <3>1. CASE k \in 1 .. Len(rest)
            BY <1>2, <2>1, <2>2, <3>1 DEF LeftOver
        <3>2. CASE k = Len(rest) + 1
            <4>1. m + 1 \in 1 .. m + 1
                OBVIOUS
            <4> QED BY <1>4, <2>2, <3>2, <4>1
        <3> QED BY <2>2, <2>3, <3>1, <3>2
    <2>7. LeftOver(s, done, m + 1, new)
        BY <2>2, <2>5, <2>6 DEF LeftOver
    <2> QED BY <1>4, <2>7 DEF new
<1> QED BY <1>3, <1>4

\* What remains of distinct indexes are distinct ones of them that are not completed.
LEMMA RemainingIs ==
    ASSUME NEW S, NEW s \in Seq(S), Distinct(s), NEW done
    PROVE  /\ Remaining(s, done) \in Seq(ToSet(s))
           /\ Distinct(Remaining(s, done))
           /\ \A k \in DOMAIN Remaining(s, done) : Remaining(s, done)[k] \notin done
<1>1. Len(s) \in Nat
    OBVIOUS
<1> DEFINE f == CHOOSE g : Keeps(s, done, Len(s), g)
           T == {n \in Nat : n <= Len(s) => LeftOver(s, done, n, f[n])}
<1>2. Keeps(s, done, Len(s), f)
    BY <1>1, KeepsExists
<1> HIDE DEF f
<1>3. \A n \in 0 .. Len(s) : f[n] = IF n = 0 THEN <<>>
                              ELSE IF s[n] \in done THEN f[n - 1] ELSE Append(f[n - 1], s[n])
    BY <1>2 DEF Keeps
<1>4. 0 \in T
    <2>1. f[0] = <<>>
        BY <1>1, <1>3
    <2>2. LeftOver(s, done, 0, <<>>)
        BY DEF LeftOver, Distinct
    <2> QED BY <2>1, <2>2
<1>5. ASSUME NEW n \in T PROVE n + 1 \in T
    <2> SUFFICES ASSUME n + 1 <= Len(s) PROVE LeftOver(s, done, n + 1, f[n + 1])
        OBVIOUS
    <2>1. n \in Nat /\ LeftOver(s, done, n, f[n])
        BY <1>1
    <2>2. f[n + 1] = IF s[n + 1] \in done THEN f[n] ELSE Append(f[n], s[n + 1])
        <3>1. n + 1 \in 0 .. Len(s) /\ n + 1 # 0 /\ (n + 1) - 1 = n
            BY <1>1, <2>1
        <3> QED BY <1>3, <3>1
    <2> QED BY <2>1, <2>2, LeftOverNext
<1> HIDE DEF T
<1>6. T = Nat
    <2>1. T \subseteq Nat
        BY DEF T
    <2> QED BY <1>4, <1>5, <2>1, AllNaturals
<1>7. LeftOver(s, done, Len(s), f[Len(s)])
    BY <1>1, <1>6 DEF T
<1>8. Remaining(s, done) = f[Len(s)]
    BY RemainingChosen DEF f
<1> QED BY <1>7, <1>8 DEF LeftOver

-----------------------------------------------------------------------------
(* Shares.                                                                 *)

LEMMA FirstIndexesAre ==
    ASSUME NEW n \in Nat
    PROVE  FirstIndexes(n) \in Seq(Nat) /\ Distinct(FirstIndexes(n))
<1>1. FirstIndexes(n) \in [1 .. n -> Nat]
    BY DEF FirstIndexes
<1>2. FirstIndexes(n) \in Seq(Nat)
    BY <1>1, SeqMade
<1>3. Distinct(FirstIndexes(n))
    BY DEF FirstIndexes, Distinct
<1> QED BY <1>2, <1>3

LEMMA PrefixIs ==
    ASSUME NEW S, NEW s \in Seq(S), NEW n \in 0 .. Len(s)
    PROVE  /\ SubSeq(s, 1, n) \in Seq(S) /\ DOMAIN SubSeq(s, 1, n) = 1 .. n
           /\ \A k \in 1 .. n : SubSeq(s, 1, n)[k] = s[k]
<1>1. Len(s) \in Nat /\ DOMAIN s = 1 .. Len(s) /\ n \in Nat /\ \A k \in 1 .. n : s[k] \in S
    OBVIOUS
<1>2. /\ SubSeq(s, 1, n) \in Seq(S) /\ Len(SubSeq(s, 1, n)) = IF 1 <= n THEN n - 1 + 1 ELSE 0
      /\ \A k \in 1 .. n - 1 + 1 : SubSeq(s, 1, n)[k] = s[1 + k - 1]
    BY <1>1, SubSeqProperties
<1>3. Len(SubSeq(s, 1, n)) = n
    BY <1>1, <1>2
<1>4. n - 1 + 1 = n /\ \A k \in 1 .. n : 1 + k - 1 = k
    BY <1>1
<1> QED BY <1>2, <1>3, <1>4

\* What has to be computed is not completed.
LEMMA WorkIndexesAre ==
    ASSUME NEW completed, NEW call, call.limit \in Nat \cup {Every}
    PROVE  /\ WorkIndexes(completed, call) \in Seq(Nat)
           /\ Distinct(WorkIndexes(completed, call))
           /\ \A k \in DOMAIN WorkIndexes(completed, call) :
                WorkIndexes(completed, call)[k] \notin completed
<1> DEFINE all == FirstIndexes(Expected)
           missing == Remaining(all, completed)
           n == IF call.limit < Len(missing) THEN call.limit ELSE Len(missing)
<1>1. all \in Seq(Nat) /\ Distinct(all)
    BY FirstIndexesAre, BoundsAssumption
<1>2. /\ missing \in Seq(ToSet(all)) /\ Distinct(missing)
      /\ \A k \in DOMAIN missing : missing[k] \notin completed
    BY <1>1, RemainingIs
<1>3. ToSet(all) \subseteq Nat
    <2> HIDE DEF all
    <2> QED BY <1>1 DEF ToSet
<1>4. WorkIndexes(completed, call) = IF call.limit = Every THEN missing ELSE SubSeq(missing, 1, n)
    BY DEF WorkIndexes
<1> HIDE DEF all, missing
<1>5. missing \in Seq(Nat) /\ Len(missing) \in Nat
    BY <1>2, <1>3, SeqMonotonic
<1>6. CASE call.limit = Every
    BY <1>2, <1>4, <1>5, <1>6
<1>7. CASE call.limit # Every
    <2>1. n \in 0 .. Len(missing)
        BY <1>5, <1>7
    <2> HIDE DEF n
    <2>2. /\ SubSeq(missing, 1, n) \in Seq(Nat) /\ DOMAIN SubSeq(missing, 1, n) = 1 .. n
          /\ \A k \in 1 .. n : SubSeq(missing, 1, n)[k] = missing[k]
        BY <1>5, <2>1, PrefixIs
    <2>3. \A k \in 1 .. n : k \in DOMAIN missing
        BY <1>5, <2>1
    <2> QED BY <1>2, <1>4, <1>7, <2>2, <2>3 DEF Distinct
<1> QED BY <1>6, <1>7

\* The shares of the workers of a call are apart and hold nothing completed.
LEMMA SharesApart ==
    ASSUME NEW n \in Nat \ {0}, NEW missing \in Seq(Nat), NEW completed, Distinct(missing),
           \A k \in DOMAIN missing : missing[k] \notin completed, cast.available \in Nat
    PROVE  /\ \A r \in 0 .. n - 1 :
                /\ Share(missing, completed, r, n) \in Seq(Nat)
                /\ Distinct(Share(missing, completed, r, n))
                /\ \A k \in DOMAIN Share(missing, completed, r, n) :
                        Share(missing, completed, r, n)[k] \notin completed
           /\ \A q, r \in 0 .. n - 1 :
                q # r => ToSet(Share(missing, completed, q, n))
                            \cap ToSet(Share(missing, completed, r, n)) = {}
<1> DEFINE all == IF cast.indexed THEN missing ELSE FirstIndexes(cast.available)
           S(r) == Share(missing, completed, r, n)
<1>1. all \in Seq(Nat) /\ Distinct(all)
    BY FirstIndexesAre
<1>2. cast.indexed => all = missing
    OBVIOUS
<1>3. \A r : S(r) = IF cast.indexed THEN Slice(all, r, n) ELSE Remaining(Slice(all, r, n), completed)
    BY DEF Share
<1> HIDE DEF all, S
<1>4. ASSUME NEW r \in 0 .. n - 1
      PROVE  /\ S(r) \in Seq(Nat) /\ Distinct(S(r)) /\ ToSet(S(r)) \subseteq ToSet(Slice(all, r, n))
             /\ \A k \in DOMAIN S(r) : S(r)[k] \notin completed
    <2>1. /\ Slice(all, r, n) \in Seq(Nat) /\ Distinct(Slice(all, r, n))
          /\ \A k \in DOMAIN Slice(all, r, n) : \E p \in DOMAIN all : Slice(all, r, n)[k] = all[p]
        <3>1. Slice(all, r, n) \in Seq(Nat)
            BY <1>1, SliceIs
        <3>2. Distinct(Slice(all, r, n))
            BY <1>1, SlicesApart DEF Distinct
        <3>3. \A k \in DOMAIN Slice(all, r, n) :
                r + 1 + (k - 1) * n \in DOMAIN all
                /\ Slice(all, r, n)[k] = all[r + 1 + (k - 1) * n]
            BY <1>1, SliceIs
        <3>4. \A k \in DOMAIN Slice(all, r, n) : \E p \in DOMAIN all : Slice(all, r, n)[k] = all[p]
            BY <3>3
        <3> QED BY <3>1, <3>2, <3>4
    <2> DEFINE slice == Slice(all, r, n)
    <2> HIDE DEF slice
    <2>2. CASE cast.indexed
        <3>1. S(r) = slice
            BY <1>3, <2>2 DEF slice
        <3>2. \A k \in DOMAIN slice : slice[k] \notin completed
            BY <1>2, <2>1, <2>2 DEF slice
        <3> QED BY <2>1, <3>1, <3>2 DEF slice
    <2>3. CASE ~cast.indexed
        <3>1. S(r) = Remaining(slice, completed)
            BY <1>3, <2>3 DEF slice
        <3>2. slice \in Seq(Nat) /\ Distinct(slice)
            BY <2>1 DEF slice
        <3>3. /\ S(r) \in Seq(ToSet(slice)) /\ Distinct(S(r))
              /\ \A k \in DOMAIN S(r) : S(r)[k] \notin completed
            BY <3>1, <3>2, RemainingIs
        <3>4. ToSet(slice) \subseteq Nat
            BY <3>2 DEF ToSet
        <3>5. S(r) \in Seq(Nat)
            BY <3>3, <3>4, SeqMonotonic
        <3>6. ToSet(S(r)) \subseteq ToSet(slice)
            BY <3>3 DEF ToSet
        <3> QED BY <3>3, <3>5, <3>6 DEF slice
    <2> QED BY <2>2, <2>3
<1>5. ASSUME NEW q \in 0 .. n - 1, NEW r \in 0 .. n - 1, q # r
      PROVE  ToSet(S(q)) \cap ToSet(S(r)) = {}
    <2> SUFFICES ASSUME NEW x, x \in ToSet(S(q)), x \in ToSet(S(r)) PROVE FALSE
        OBVIOUS
    <2>1. x \in ToSet(Slice(all, q, n)) /\ x \in ToSet(Slice(all, r, n))
        BY <1>4
    <2>2. PICK j \in DOMAIN Slice(all, q, n) : Slice(all, q, n)[j] = x
        BY <2>1 DEF ToSet
    <2>3. PICK k \in DOMAIN Slice(all, r, n) : Slice(all, r, n)[k] = x
        BY <2>1 DEF ToSet
    <2> QED BY <1>1, <1>5, <2>2, <2>3, SlicesApart
<1> QED BY <1>4, <1>5 DEF S

\* The chunks of all workers of a call: apart from each other and from what is completed.
Todo(missing, completed, r, n) == Chunks(Share(missing, completed, r, n), Commit)

LEMMA TodosApart ==
    ASSUME NEW n \in Nat \ {0}, NEW missing \in Seq(Nat), NEW completed, Distinct(missing),
           \A k \in DOMAIN missing : missing[k] \notin completed, cast.available \in Nat,
           NEW r \in 0 .. n - 1
    PROVE  /\ Todo(missing, completed, r, n) \in Seq(Seq(Nat))
           /\ \A j \in DOMAIN Todo(missing, completed, r, n) :
                ToSet(Todo(missing, completed, r, n)[j]) \cap completed = {}
           /\ \A q \in 0 .. n - 1 :
              \A j \in DOMAIN Todo(missing, completed, r, n),
                 k \in DOMAIN Todo(missing, completed, q, n) :
                q # r \/ j # k => ToSet(Todo(missing, completed, r, n)[j])
                                    \cap ToSet(Todo(missing, completed, q, n)[k]) = {}
<1> DEFINE S(q) == Share(missing, completed, q, n)
           T(q) == Chunks(S(q), Commit)
<1>1. Commit \in Nat \ {0}
    BY BoundsAssumption
<1>2. /\ \A q \in 0 .. n - 1 : /\ S(q) \in Seq(Nat) /\ Distinct(S(q))
                               /\ \A k \in DOMAIN S(q) : S(q)[k] \notin completed
      /\ \A q \in 0 .. n - 1 : q # r => ToSet(S(q)) \cap ToSet(S(r)) = {}
    BY SharesApart
<1> HIDE DEF S
<1>3. ASSUME NEW q \in 0 .. n - 1
      PROVE  /\ T(q) \in Seq(Seq(Nat))
             /\ \A j \in DOMAIN T(q) : ToSet(T(q)[j]) \subseteq ToSet(S(q)) \ completed
    <2>1. S(q) \in Seq(Nat)
        BY <1>2
    <2>2. /\ T(q) \in Seq(Seq(Nat))
          /\ \A j \in DOMAIN T(q) : \A x \in ToSet(T(q)[j]) : \E p \in DOMAIN S(q) : S(q)[p] = x
        BY <1>1, <2>1, ChunksAre
    <2>3. \A x : (\E p \in DOMAIN S(q) : S(q)[p] = x) => x \in ToSet(S(q)) \ completed
        BY <1>2 DEF ToSet
    <2> HIDE DEF T
    <2> QED BY <2>2, <2>3
<1>4. ASSUME NEW j \in DOMAIN T(r), NEW k \in DOMAIN T(r), j # k
      PROVE  ToSet(T(r)[j]) \cap ToSet(T(r)[k]) = {}
    BY <1>1, <1>2, <1>4, ChunksApart
<1> HIDE DEF T
<1>5. ASSUME NEW q \in 0 .. n - 1, NEW j \in DOMAIN T(r), NEW k \in DOMAIN T(q), q # r \/ j # k
      PROVE  ToSet(T(r)[j]) \cap ToSet(T(q)[k]) = {}
    <2>1. CASE q = r
        BY <1>4, <1>5, <2>1
    <2>2. CASE q # r
        BY <1>2, <1>3, <2>2
    <2> QED BY <2>1, <2>2
<1>6. \A q : Todo(missing, completed, q, n) = T(q)
    BY DEF Todo, T, S
<1> QED BY <1>3, <1>5, <1>6

-----------------------------------------------------------------------------
(* The invariant.                                                          *)

CallOK(call) ==
    call.devices \in 1 .. Devices /\ call.limit \in Nat \cup {Every}

\* The bounds of a behaviour are those it began with, but for what went wrong.
CastOK ==
    /\ cast = [calls |-> cast.calls, indexed |-> cast.indexed, available |-> cast.available,
               faults |-> cast.faults, crashes |-> cast.crashes, orphans |-> cast.orphans,
               writers |-> cast.writers, snapshots |-> cast.snapshots]
    /\ cast.available \in Nat
    /\ \A call \in cast.calls : CallOK(call)

Own == crew["own"]

WorkerOK(w) ==
    /\ w = [st |-> w.st, came |-> w.came, todo |-> w.todo, slice |-> w.slice]
    /\ w.todo \in Seq(Seq(Nat))

CrewOK ==
    /\ crew = [g \in Crews |-> IF g = "own" THEN Own ELSE NoRun]
    /\ Own = [call |-> Own.call, parts |-> Own.parts, procs |-> Own.procs]
    /\ Own.procs = [r \in Ranks |-> Own.procs[r]]
    /\ \A r \in Ranks : WorkerOK(Own.procs[r])

\* No two workers, and no two jobs of one, compute the same sample.
JobsApart(procs) ==
    \A q, r \in Ranks : procs[q].st = "work" /\ procs[r].st = "work" =>
        \A j \in DOMAIN procs[q].todo, k \in DOMAIN procs[r].todo :
            q # r \/ j # k => ToSet(procs[q].todo[j]) \cap ToSet(procs[r].todo[k]) = {}

\* Nobody computes a sample that is durable.
JobsMissing(procs, fragments) ==
    \A r \in Ranks : procs[r].st = "work" =>
        \A j \in DOMAIN procs[r].todo, f \in fragments :
            ToSet(procs[r].todo[j]) \cap ToSet(f.indexes) = {}

\* No sample is durable twice.
FragmentsApart(fragments) ==
    \A f, g \in fragments : f # g => ToSet(f.indexes) \cap ToSet(g.indexes) = {}

WorkInv ==
    /\ CastOK
    /\ ~cast.orphans =>
        /\ CrewOK
        /\ resume = [id |-> resume.id, fragments |-> resume.fragments]
        /\ JobsApart(Own.procs)
        /\ JobsMissing(Own.procs, resume.fragments)
        /\ FragmentsApart(resume.fragments)

LEMMA NoWorkerOK == WorkerOK(NoWorker) /\ NoWorker.st = "none"
<1>1. <<>> \in Seq(Seq(Nat))
    OBVIOUS
<1>2. NoWorker.todo = <<>> /\ NoWorker.st = "none"
    BY DEF NoWorker
<1>3. NoWorker = [st |-> NoWorker.st, came |-> NoWorker.came,
                  todo |-> NoWorker.todo, slice |-> NoWorker.slice]
    BY DEF NoWorker
<1> QED BY <1>1, <1>2, <1>3 DEF WorkerOK

\* A record that differs from one of a worker in other fields than its jobs is one.
LEMMA WorkerAgain ==
    ASSUME NEW v, WorkerOK(v), NEW w, DOMAIN w = DOMAIN v, w.todo = v.todo,
           w = [x \in DOMAIN v |-> w[x]]
    PROVE  WorkerOK(w)
<1>1. v = [st |-> v.st, came |-> v.came, todo |-> v.todo, slice |-> v.slice]
    BY DEF WorkerOK
<1>2. DOMAIN v = {"st", "came", "todo", "slice"}
    BY <1>1
<1>3. w = [st |-> w.st, came |-> w.came, todo |-> w.todo, slice |-> w.slice]
    BY <1>2
<1> QED BY <1>3 DEF WorkerOK

LEMMA WorkerFields ==
    ASSUME NEW v, WorkerOK(v)
    PROVE  DOMAIN v = {"st", "came", "todo", "slice"}
<1>1. v = [st |-> v.st, came |-> v.came, todo |-> v.todo, slice |-> v.slice]
    BY DEF WorkerOK
<1> QED BY <1>1

Leaves(w, v, st, came) == w = [v EXCEPT !.st = st, !.came = came]
Reads(w, v, st, slice) == w = [v EXCEPT !.st = st, !.slice = slice]

LEMMA WorkerLeaves ==
    ASSUME NEW v, WorkerOK(v), NEW st, NEW came, NEW w, Leaves(w, v, st, came)
    PROVE  WorkerOK(w) /\ w.st = st
<1>1. DOMAIN v = {"st", "came", "todo", "slice"}
    BY WorkerFields
<1>2. w.todo = v.todo /\ w.st = st /\ DOMAIN w = DOMAIN v
    BY <1>1 DEF Leaves
<1>3. w = [x \in DOMAIN v |-> w[x]]
    BY <1>1 DEF Leaves
<1> QED BY <1>2, <1>3, WorkerAgain

LEMMA WorkerReads ==
    ASSUME NEW v, WorkerOK(v), NEW st, NEW slice, NEW w, Reads(w, v, st, slice)
    PROVE  WorkerOK(w) /\ w.st = st
<1>1. DOMAIN v = {"st", "came", "todo", "slice"}
    BY WorkerFields
<1>2. w.todo = v.todo /\ w.st = st /\ DOMAIN w = DOMAIN v
    BY <1>1 DEF Reads
<1>3. w = [x \in DOMAIN v |-> w[x]]
    BY <1>1 DEF Reads
<1> QED BY <1>2, <1>3, WorkerAgain

LEMMA WorkerFailed ==
    ASSUME NEW v, WorkerOK(v), NEW st, NEW w, w = [v EXCEPT !.st = st]
    PROVE  WorkerOK(w) /\ w.st = st
BY WorkerAgain, WorkerFields

LEMMA WorkInit == Init => WorkInv
<1> SUFFICES ASSUME Init PROVE WorkInv
    OBVIOUS
<1>1. cast \in [calls : SUBSET [devices : 1 .. Devices, finalize : BOOLEAN,
                               limit : Nat \cup {Every}, id : Ids],
               indexed : BOOLEAN, available : {n \in Nat : n <= MaxIndex + 1},
               faults : Nat, crashes : Nat,
               orphans : BOOLEAN, writers : BOOLEAN, snapshots : BOOLEAN]
    BY BoundsAssumption DEF Init
<1>2. CastOK
    BY <1>1 DEF CastOK, CallOK
<1>3. crew = [g \in Crews |-> NoRun] /\ Own = NoRun
    BY DEF Init, Own, Crews
<1>4. CrewOK
    BY <1>3, NoWorkerOK DEF CrewOK, NoRun
<1>5. \A r \in Ranks : Own.procs[r].st # "work"
    BY <1>3, NoWorkerOK DEF NoRun
<1>6. resume = [id |-> resume.id, fragments |-> resume.fragments] /\ resume.fragments = {}
    BY DEF Init, NoDirectory
<1> QED BY <1>2, <1>4, <1>5, <1>6 DEF WorkInv, JobsApart, JobsMissing, FragmentsApart

\* A step in which nobody gets work and no fragment is added.
LEMMA NothingNew ==
    ASSUME WorkInv, ~cast.orphans, CastOK', cast'.orphans = cast.orphans, CrewOK',
           resume' = [id |-> resume'.id, fragments |-> resume'.fragments],
           resume'.fragments \subseteq resume.fragments,
           \A r \in Ranks : Own'.procs[r].st = "work" =>
                Own.procs[r].st = "work" /\ Own'.procs[r].todo = Own.procs[r].todo
    PROVE  WorkInv'
<1>1. JobsApart(Own.procs) /\ JobsMissing(Own.procs, resume.fragments)
      /\ FragmentsApart(resume.fragments)
    BY DEF WorkInv
<1>2. JobsApart(Own'.procs)
    BY <1>1 DEF JobsApart
<1>3. JobsMissing(Own'.procs, resume'.fragments)
    BY <1>1 DEF JobsMissing
<1>4. FragmentsApart(resume'.fragments)
    BY <1>1 DEF FragmentsApart
<1> QED BY <1>2, <1>3, <1>4 DEF WorkInv

\* The processes of the call are gone.
LEMMA CallOver ==
    ASSUME WorkInv, ~cast.orphans, NEW call, NEW merges, NEW run,
           run = [call |-> call, parts |-> merges, procs |-> NoRun.procs],
           crew' = [crew EXCEPT !["own"] = run]
    PROVE  CrewOK' /\ \A r \in Ranks : Own'.procs[r].st # "work"
<1>1. crew' = [g \in Crews |-> IF g = "own" THEN run ELSE NoRun] /\ Own' = run
    BY DEF WorkInv, CrewOK, Own, Crews
<1>2. /\ run.procs = [r \in Ranks |-> run.procs[r]]
      /\ \A r \in Ranks : run.procs[r] = NoWorker
      /\ run = [call |-> run.call, parts |-> run.parts, procs |-> run.procs]
    BY DEF NoRun
<1>3. \A r \in Ranks : WorkerOK(run.procs[r]) /\ run.procs[r].st # "work"
    BY <1>2, NoWorkerOK
<1> HIDE DEF NoRun
<1> QED BY <1>1, <1>2, <1>3 DEF CrewOK

\* One process changes.
Turns(g, rank, w) ==
    crew[g].procs[rank].st # "none" /\ crew' = [crew EXCEPT ![g].procs[rank] = w]

LEMMA ProcessChanged ==
    ASSUME WorkInv, ~cast.orphans, NEW g \in Crews, NEW rank \in Ranks, NEW w,
           WorkerOK(w), Turns(g, rank, w)
    PROVE  /\ g = "own" /\ CrewOK'
           /\ Own'.procs = [Own.procs EXCEPT ![rank] = w]
<1>1. g = "own"
    BY NoWorkerOK DEF WorkInv, CrewOK, Crews, NoRun, Turns
<1> DEFINE run == [Own EXCEPT !.procs[rank] = w]
<1>2. crew' = [h \in Crews |-> IF h = "own" THEN run ELSE NoRun] /\ Own' = run
    BY <1>1 DEF WorkInv, CrewOK, Own, Crews, Turns
<1>3. /\ run = [call |-> run.call, parts |-> run.parts, procs |-> run.procs]
      /\ run.procs = [Own.procs EXCEPT ![rank] = w]
    BY DEF WorkInv, CrewOK
<1> HIDE DEF run
<1>4. \A r \in Ranks : run.procs[r] = IF r = rank THEN w ELSE Own.procs[r]
    BY <1>3 DEF WorkInv, CrewOK
<1>5. run.procs = [r \in Ranks |-> run.procs[r]]
    BY <1>3 DEF WorkInv, CrewOK
<1>6. CrewOK'
    BY <1>2, <1>3, <1>4, <1>5 DEF WorkInv, CrewOK
<1> QED BY <1>1, <1>2, <1>3, <1>6

-----------------------------------------------------------------------------
(* The steps of the workers.                                               *)

LEMMA CastStep ==
    ASSUME CastOK, cast' = cast \/ cast' = [cast EXCEPT !.faults = @ - 1]
                                \/ cast' = [cast EXCEPT !.crashes = @ - 1]
    PROVE  CastOK' /\ cast'.orphans = cast.orphans
BY DEF CastOK, CallOK

\* A process that stops working adds nothing.
LEMMA StopsWorking ==
    ASSUME WorkInv, ~cast.orphans, CastOK', cast'.orphans = cast.orphans,
           NEW g \in Crews, NEW rank \in Ranks, NEW w,
           WorkerOK(w), w.st # "work", Turns(g, rank, w), resume' = resume
    PROVE  WorkInv'
<1>1. CrewOK' /\ Own'.procs = [Own.procs EXCEPT ![rank] = w]
    BY ProcessChanged
<1>2. \A r \in Ranks : Own'.procs[r] = IF r = rank THEN w ELSE Own.procs[r]
    BY <1>1 DEF WorkInv, CrewOK
<1>3. \A r \in Ranks : Own'.procs[r].st = "work" =>
                Own.procs[r].st = "work" /\ Own'.procs[r].todo = Own.procs[r].todo
    BY <1>2
<1>4. /\ resume' = [id |-> resume'.id, fragments |-> resume'.fragments]
      /\ resume'.fragments \subseteq resume.fragments
    BY DEF WorkInv
<1> QED BY <1>1, <1>3, <1>4, NothingNew

LEMMA WorkerStopped ==
    ASSUME WorkInv, ~cast.orphans, NEW g \in Crews, NEW rank \in Ranks,
           \/ WorkerFails(g, rank) \/ WorkerKilled(g, rank) \/ Finished(g, rank)
           \/ ReadSlice(g, rank) \/ WritePart(g, rank)
    PROVE  WorkInv'
<1>1. /\ CastOK /\ (crew[g].procs[rank].st # "none" => g = "own")
      /\ WorkerOK(crew["own"].procs[rank])
    BY NoWorkerOK DEF WorkInv, CrewOK, Crews, NoRun, Own
<1>2. CASE WorkerFails(g, rank)
    <2> DEFINE w == [NoWorker EXCEPT !.st = "failed"]
    <2>1. WorkerOK(w) /\ w.st = "failed"
        <3> HIDE DEF NoWorker
        <3> QED BY NoWorkerOK, WorkerFailed DEF w
    <2> HIDE DEF w
    <2>2. /\ Turns(g, rank, w) /\ resume' = resume
          /\ cast' = cast \/ cast' = [cast EXCEPT !.faults = @ - 1]
        BY <1>2 DEF WorkerFails, w, Turns
    <2> QED BY <1>1, <2>1, <2>2, CastStep, StopsWorking
<1>3. CASE WorkerKilled(g, rank)
    <2> DEFINE w == [NoWorker EXCEPT !.st = "killed", !.came = crew[g].procs[rank].came]
    <2>1. WorkerOK(w) /\ w.st = "killed"
        <3>1. PICK came : came = crew[g].procs[rank].came
            OBVIOUS
        <3>2. PICK v : v = NoWorker
            OBVIOUS
        <3>3. Leaves(w, v, "killed", came) /\ WorkerOK(v)
            BY <3>1, <3>2, NoWorkerOK DEF Leaves
        <3> HIDE DEF w
        <3> QED BY <3>3, WorkerLeaves
    <2> HIDE DEF w
    <2>2. Turns(g, rank, w) /\ resume' = resume /\ cast' = [cast EXCEPT !.faults = @ - 1]
        BY <1>3 DEF WorkerKilled, w, Turns
    <2> QED BY <1>1, <2>1, <2>2, CastStep, StopsWorking
<1>4. CASE Finished(g, rank)
    <2> DEFINE merges == crew[g].parts /\ crew[g].call.finalize
               w == [crew[g].procs[rank] EXCEPT !.st = IF merges THEN "waiting" ELSE "gone",
                                                !.came = merges]
    <2>1. /\ Turns(g, rank, w) /\ crew[g].procs[rank].st = "work"
          /\ resume' = resume /\ cast' = cast
        BY <1>4 DEF Finished, Turns
    <2>2. WorkerOK(w) /\ w.st # "work"
        <3>1. PICK v : v = crew[g].procs[rank]
            OBVIOUS
        <3>2. PICK st : st = IF merges THEN "waiting" ELSE "gone"
            OBVIOUS
        <3>3. PICK came : came = merges
            OBVIOUS
        <3>4. WorkerOK(v)
            BY <1>1, <2>1, <3>1
        <3>5. Leaves(w, v, st, came) /\ st # "work"
            BY <3>1, <3>2, <3>3 DEF Leaves
        <3> HIDE DEF w
        <3> QED BY <3>4, <3>5, WorkerLeaves
    <2> HIDE DEF w
    <2> QED BY <1>1, <2>1, <2>2, CastStep, StopsWorking
<1>5. CASE ReadSlice(g, rank)
    <2> DEFINE w == [crew[g].procs[rank] EXCEPT !.st = "merging", !.slice =
                        FragmentSlice(resume.fragments, rank, crew[g].call.devices)]
    <2>1. /\ Turns(g, rank, w) /\ crew[g].procs[rank].st = "waiting"
          /\ resume' = resume /\ cast' = cast
        BY <1>5 DEF ReadSlice, Turns
    <2>2. WorkerOK(w) /\ w.st # "work"
        <3>1. PICK v : v = crew[g].procs[rank]
            OBVIOUS
        <3>2. PICK slice : slice = FragmentSlice(resume.fragments, rank, crew[g].call.devices)
            OBVIOUS
        <3>3. WorkerOK(v)
            BY <1>1, <2>1, <3>1
        <3>4. Reads(w, v, "merging", slice)
            BY <3>1, <3>2 DEF Reads
        <3> HIDE DEF w
        <3> QED BY <3>3, <3>4, WorkerReads
    <2> HIDE DEF w
    <2> QED BY <1>1, <2>1, <2>2, CastStep, StopsWorking
<1>6. CASE WritePart(g, rank)
    <2> DEFINE ok == /\ Part(crew[g], rank, FALSE).store # Failed
                     /\ \A p \in parts : p.shard # rank \/ p.tmp
               w == [NoWorker EXCEPT !.st = IF ok THEN "gone" ELSE "failed", !.came = TRUE]
    <2>1. WorkerOK(w) /\ w.st # "work"
        <3>1. PICK st : st = IF ok THEN "gone" ELSE "failed"
            OBVIOUS
        <3>2. PICK v : v = NoWorker
            OBVIOUS
        <3>3. PICK came : came = TRUE
            OBVIOUS
        <3>4. st # "work" /\ Leaves(w, v, st, came) /\ WorkerOK(v)
            BY <3>1, <3>2, <3>3, NoWorkerOK DEF Leaves
        <3> HIDE DEF w
        <3> QED BY <3>4, WorkerLeaves
    <2>2. Turns(g, rank, w) /\ resume' = resume /\ cast' = cast
        BY <1>6 DEF WritePart, Turns
    <2> HIDE DEF w
    <2> QED BY <1>1, <2>1, <2>2, CastStep, StopsWorking
<1> QED BY <1>2, <1>3, <1>4, <1>5, <1>6

\* A list without one of its elements.
LEMMA Removed ==
    ASSUME NEW S, NEW s \in Seq(S), NEW k \in DOMAIN s
    PROVE  /\ RemoveAt(s, k) \in Seq(S)
           /\ \A i \in DOMAIN RemoveAt(s, k) : \E j \in DOMAIN s \ {k} :
                RemoveAt(s, k)[i] = s[j] /\ j = (IF i < k THEN i ELSE i + 1)
<1> DEFINE a == SubSeq(s, 1, k - 1)
           b == SubSeq(s, k + 1, Len(s))
<1>1. Len(s) \in Nat /\ DOMAIN s = 1 .. Len(s) /\ k \in 1 .. Len(s)
    OBVIOUS
<1>2. \A i \in 1 .. Len(s) : s[i] \in S
    OBVIOUS
<1>3. a \in Seq(S) /\ Len(a) = k - 1 /\ \A i \in 1 .. k - 1 : a[i] = s[i]
    <2>1. k - 1 \in 0 .. Len(s)
        BY <1>1
    <2>2. a \in Seq(S) /\ DOMAIN a = 1 .. k - 1 /\ \A i \in 1 .. k - 1 : a[i] = s[i]
        BY <2>1, PrefixIs
    <2> QED BY <2>1, <2>2
<1>4. b \in Seq(S) /\ Len(b) = Len(s) - k /\ \A i \in 1 .. Len(s) - k : b[i] = s[i + k]
    <2>1. \A i \in k + 1 .. Len(s) : s[i] \in S
        BY <1>1, <1>2
    <2>2. /\ b \in Seq(S)
          /\ Len(b) = IF k + 1 <= Len(s) THEN Len(s) - (k + 1) + 1 ELSE 0
          /\ \A i \in 1 .. Len(s) - (k + 1) + 1 : b[i] = s[(k + 1) + i - 1]
        BY <1>1, <2>1, SubSeqProperties
    <2>3. Len(s) - (k + 1) + 1 = Len(s) - k /\ \A i \in 1 .. Len(s) - k : (k + 1) + i - 1 = i + k
        BY <1>1
    <2> HIDE DEF b
    <2> QED BY <1>1, <2>2, <2>3
<1>5. RemoveAt(s, k) = a \o b
    BY DEF RemoveAt
<1> HIDE DEF a, b
<1>6. /\ a \o b \in Seq(S) /\ DOMAIN (a \o b) = 1 .. Len(s) - 1
      /\ \A i \in 1 .. Len(s) - 1 : (a \o b)[i] = IF i < k THEN a[i] ELSE b[i - k + 1]
    <2>1. /\ a \o b \in Seq(S) /\ Len(a \o b) = Len(a) + Len(b)
          /\ \A i \in 1 .. Len(a) + Len(b) : (a \o b)[i] = IF i <= Len(a) THEN a[i] ELSE b[i - Len(a)]
        BY <1>3, <1>4, ConcatProperties
    <2>2. Len(a) + Len(b) = Len(s) - 1
        BY <1>1, <1>3, <1>4
    <2>3. \A i \in 1 .. Len(s) - 1 : (i <= Len(a) <=> i < k) /\ i - Len(a) = i - k + 1
        BY <1>1, <1>3
    <2>4. DOMAIN (a \o b) = 1 .. Len(a \o b)
        BY <2>1
    <2> QED BY <2>1, <2>2, <2>3, <2>4
<1>7. ASSUME NEW i \in 1 .. Len(s) - 1
      PROVE  \E j \in DOMAIN s \ {k} : (a \o b)[i] = s[j] /\ j = (IF i < k THEN i ELSE i + 1)
    <2>1. CASE i < k
        <3>1. i \in 1 .. k - 1 /\ i \in DOMAIN s \ {k}
            BY <1>1, <2>1
        <3> QED BY <1>3, <1>6, <2>1, <3>1
    <2>2. CASE ~(i < k)
        <3>1. i - k + 1 \in 1 .. Len(s) - k /\ (i - k + 1) + k = i + 1 /\ i + 1 \in DOMAIN s \ {k}
            BY <1>1, <2>2
        <3> QED BY <1>4, <1>6, <2>2, <3>1
    <2> QED BY <2>1, <2>2
<1> QED BY <1>5, <1>6, <1>7

\* The lists of jobs with one job less.
Shorter(procs, procs2, rank, k) ==
    \A r \in Ranks : procs2[r].st = "work" =>
        /\ procs[r].st = "work"
        /\ \A j \in DOMAIN procs2[r].todo : \E i \in DOMAIN procs[r].todo :
            /\ procs2[r].todo[j] = procs[r].todo[i]
            /\ i = (IF r = rank /\ ~(j < k) THEN j + 1 ELSE j)

LEMMA ApartWithout ==
    ASSUME NEW procs, NEW procs2, NEW rank \in Ranks, NEW k \in Nat, Shorter(procs, procs2, rank, k),
           \A r \in Ranks : procs2[r].todo \in Seq(Seq(Nat)),
           JobsApart(procs), procs[rank].st = "work", k \in DOMAIN procs[rank].todo
    PROVE  /\ JobsApart(procs2)
           /\ \A r \in Ranks : procs2[r].st = "work" =>
                \A j \in DOMAIN procs2[r].todo :
                    ToSet(procs2[r].todo[j]) \cap ToSet(procs[rank].todo[k]) = {}
<1>0. \A r \in Ranks : DOMAIN procs2[r].todo \subseteq Nat
    OBVIOUS
<1>1. ASSUME NEW q \in Ranks, NEW r \in Ranks, procs2[q].st = "work", procs2[r].st = "work",
             NEW i \in DOMAIN procs2[q].todo, NEW j \in DOMAIN procs2[r].todo, q # r \/ i # j
      PROVE  ToSet(procs2[q].todo[i]) \cap ToSet(procs2[r].todo[j]) = {}
    <2>1. PICK a \in DOMAIN procs[q].todo : /\ procs2[q].todo[i] = procs[q].todo[a]
                                            /\ a = (IF q = rank /\ ~(i < k) THEN i + 1 ELSE i)
        BY <1>1 DEF Shorter
    <2>2. PICK b \in DOMAIN procs[r].todo : /\ procs2[r].todo[j] = procs[r].todo[b]
                                            /\ b = (IF r = rank /\ ~(j < k) THEN j + 1 ELSE j)
        BY <1>1 DEF Shorter
    <2>3. q # r \/ a # b
        <3>1. i \in Nat /\ j \in Nat
            BY <1>0, <1>1
        <3> QED BY <1>1, <2>1, <2>2, <3>1
    <2>4. procs[q].st = "work" /\ procs[r].st = "work"
        BY <1>1 DEF Shorter
    <2>5. ToSet(procs[q].todo[a]) \cap ToSet(procs[r].todo[b]) = {}
        BY <2>3, <2>4 DEF JobsApart
    <2> QED BY <2>1, <2>2, <2>5
<1>2. ASSUME NEW r \in Ranks, procs2[r].st = "work", NEW j \in DOMAIN procs2[r].todo
      PROVE  ToSet(procs2[r].todo[j]) \cap ToSet(procs[rank].todo[k]) = {}
    <2>1. PICK b \in DOMAIN procs[r].todo : /\ procs2[r].todo[j] = procs[r].todo[b]
                                            /\ b = (IF r = rank /\ ~(j < k) THEN j + 1 ELSE j)
        BY <1>2 DEF Shorter
    <2>2. r # rank \/ b # k
        <3>1. j \in Nat
            BY <1>0, <1>2
        <3> QED BY <2>1, <3>1
    <2>3. procs[r].st = "work"
        BY <1>2 DEF Shorter
    <2> QED BY <2>1, <2>2, <2>3 DEF JobsApart
<1> QED BY <1>1, <1>2 DEF JobsApart

\* What becomes durable in a step was not durable.
AddsMissing ==
    \A f \in resume'.fragments \ resume.fragments, g \in resume.fragments :
        ToSet(f.indexes) \cap ToSet(g.indexes) = {}

LEMMA FragmentWritten ==
    ASSUME WorkInv, ~cast.orphans, NEW g \in Crews, NEW rank \in Ranks, WriteFragment(g, rank)
    PROVE  WorkInv' /\ AddsMissing
<1>0. /\ CastOK /\ (crew[g].procs[rank].st # "none" => g = "own") /\ CrewOK
      /\ JobsApart(Own.procs) /\ JobsMissing(Own.procs, resume.fragments)
      /\ FragmentsApart(resume.fragments)
      /\ resume = [id |-> resume.id, fragments |-> resume.fragments]
    BY NoWorkerOK DEF WorkInv, CrewOK, Crews, NoRun, Own
<1>1. g = "own"
    BY <1>0 DEF WriteFragment
<1>2. PICK v : v = Own.procs[rank]
    OBVIOUS
<1>3. PICK k \in 1 .. Window :
        /\ v.st = "work" /\ k <= Len(v.todo)
        /\ resume' = [resume EXCEPT !.fragments =
                        @ \cup {Fragment(v.todo[k], crew[g].call.id)}]
        /\ crew' = [crew EXCEPT ![g].procs[rank].todo = RemoveAt(v.todo, k)]
        /\ cast' = cast
    BY <1>1, <1>2 DEF WriteFragment, Own
<1>4. WorkerOK(v) /\ v.todo \in Seq(Seq(Nat)) /\ k \in DOMAIN v.todo /\ k \in Nat
    <2>1. WorkerOK(v)
        BY <1>0, <1>2 DEF CrewOK
    <2>2. v.todo \in Seq(Seq(Nat))
        BY <2>1 DEF WorkerOK
    <2>3. k \in Nat \ {0}
        BY BoundsAssumption
    <2> QED BY <1>3, <2>1, <2>2, <2>3
<1>5. PICK rest : rest = RemoveAt(v.todo, k)
    OBVIOUS
<1>6. /\ rest \in Seq(Seq(Nat))
      /\ \A j \in DOMAIN rest : \E i \in DOMAIN v.todo \ {k} :
            rest[j] = v.todo[i] /\ i = (IF j < k THEN j ELSE j + 1)
    BY <1>4, <1>5, Removed
<1>7. PICK w : w = [v EXCEPT !.todo = rest]
    OBVIOUS
<1>8. WorkerOK(w) /\ w.st = "work" /\ w.todo = rest
    <2>1. v = [st |-> v.st, came |-> v.came, todo |-> v.todo, slice |-> v.slice]
        BY <1>4 DEF WorkerOK
    <2>2. DOMAIN v = {"st", "came", "todo", "slice"}
        BY <2>1
    <2>3. w = [st |-> v.st, came |-> v.came, todo |-> rest, slice |-> v.slice]
        BY <1>7, <2>1, <2>2
    <2>4. w.st = v.st /\ w.todo = rest
        BY <2>3
    <2>5. w = [st |-> w.st, came |-> w.came, todo |-> w.todo, slice |-> w.slice]
        BY <2>3
    <2> QED BY <1>3, <1>6, <2>4, <2>5 DEF WorkerOK
<1>9. Turns(g, rank, w)
    BY <1>1, <1>2, <1>3, <1>5, <1>7 DEF Turns, Own
<1>10. CrewOK' /\ Own'.procs = [Own.procs EXCEPT ![rank] = w]
    BY <1>8, <1>9, ProcessChanged
<1>11. \A r \in Ranks : Own'.procs[r] = IF r = rank THEN w ELSE Own.procs[r]
    BY <1>0, <1>10 DEF CrewOK
<1>12. \A r \in Ranks : Own'.procs[r].todo \in Seq(Seq(Nat)) /\ Own.procs[r].todo \in Seq(Seq(Nat))
    BY <1>0, <1>8, <1>11 DEF CrewOK, WorkerOK
<1>13. Shorter(Own.procs, Own'.procs, rank, k)
    <2>1. ASSUME NEW r \in Ranks, Own'.procs[r].st = "work"
          PROVE  /\ Own.procs[r].st = "work"
                 /\ \A j \in DOMAIN Own'.procs[r].todo : \E i \in DOMAIN Own.procs[r].todo :
                     /\ Own'.procs[r].todo[j] = Own.procs[r].todo[i]
                     /\ i = (IF r = rank /\ ~(j < k) THEN j + 1 ELSE j)
        <3>1. CASE r = rank
            BY <1>2, <1>3, <1>6, <1>8, <1>11, <3>1
        <3>2. CASE r # rank
            BY <1>11, <2>1, <3>2
        <3> QED BY <3>1, <3>2
    <2> QED BY <2>1 DEF Shorter
<1>14. /\ JobsApart(Own'.procs)
       /\ \A r \in Ranks : Own'.procs[r].st = "work" =>
            \A j \in DOMAIN Own'.procs[r].todo : ToSet(Own'.procs[r].todo[j]) \cap ToSet(v.todo[k]) = {}
    BY <1>0, <1>2, <1>3, <1>4, <1>12, <1>13, ApartWithout
<1>15. PICK new : new = Fragment(v.todo[k], crew[g].call.id)
    OBVIOUS
<1>16. new.indexes = v.todo[k]
    BY <1>15 DEF Fragment
<1>17. /\ resume' = [id |-> resume.id, fragments |-> resume.fragments \cup {new}]
       /\ resume'.fragments = resume.fragments \cup {new}
    BY <1>0, <1>3, <1>15
<1>18. \A f \in resume.fragments : ToSet(new.indexes) \cap ToSet(f.indexes) = {}
    BY <1>0, <1>2, <1>3, <1>4, <1>16 DEF JobsMissing
<1>19. AddsMissing
    BY <1>17, <1>18 DEF AddsMissing
<1>20. FragmentsApart(resume'.fragments)
    BY <1>0, <1>17, <1>18 DEF FragmentsApart
<1>21. JobsMissing(Own'.procs, resume'.fragments)
    <2>1. ASSUME NEW r \in Ranks, Own'.procs[r].st = "work", NEW j \in DOMAIN Own'.procs[r].todo,
                 NEW f \in resume.fragments
          PROVE  ToSet(Own'.procs[r].todo[j]) \cap ToSet(f.indexes) = {}
        <3>1. Own.procs[r].st = "work" /\ \E i \in DOMAIN Own.procs[r].todo :
                Own'.procs[r].todo[j] = Own.procs[r].todo[i]
            BY <1>13, <2>1 DEF Shorter
        <3> QED BY <1>0, <3>1 DEF JobsMissing
    <2> QED BY <1>14, <1>16, <1>17, <2>1 DEF JobsMissing
<1>22. resume' = [id |-> resume'.id, fragments |-> resume'.fragments]
    BY <1>17
<1>23. CastOK' /\ cast' = cast
    BY <1>0, <1>3 DEF CastOK, CallOK
<1> QED BY <1>10, <1>14, <1>19, <1>20, <1>21, <1>22, <1>23 DEF WorkInv

-----------------------------------------------------------------------------
(* The steps of the caller.                                                *)

LEMMA DoneIs ==
    ASSUME NEW fragments, CompletedIndexes(fragments, Expected) # Failed
    PROVE  \A f \in fragments : ToSet(f.indexes) \subseteq CompletedIndexes(fragments, Expected)
BY DEF CompletedIndexes

\* The processes of a new call.
LEMMA RunStarted ==
    ASSUME CastOK, NEW call, CallOK(call), NEW completed, NEW missing,
           missing = WorkIndexes(completed, call), NEW fragments,
           \A f \in fragments : ToSet(f.indexes) \subseteq completed,
           crew' = [crew EXCEPT !["own"] = NewRun(missing, completed, call)],
           CrewOK
    PROVE  CrewOK' /\ JobsApart(Own'.procs) /\ JobsMissing(Own'.procs, fragments)
<1> PICK run : run = NewRun(missing, completed, call)
    OBVIOUS
<1> PICK n : n = call.devices
    OBVIOUS
<1>1. crew' = [g \in Crews |-> IF g = "own" THEN run ELSE NoRun] /\ Own' = run
    BY DEF CrewOK, Own, Crews
<1>2. /\ n \in Nat \ {0} /\ cast.available \in Nat /\ call.limit \in Nat \cup {Every}
      /\ Devices \in Nat
    BY BoundsAssumption DEF CallOK, CastOK
<1>3. /\ missing \in Seq(Nat) /\ Distinct(missing)
      /\ \A k \in DOMAIN missing : missing[k] \notin completed
    BY <1>2, WorkIndexesAre
<1>4. /\ run = [call |-> run.call, parts |-> run.parts, procs |-> run.procs]
      /\ run.procs = [r \in Ranks |-> IF r >= n THEN NoWorker
                        ELSE [NoWorker EXCEPT !.st = "work", !.todo = Todo(missing, completed, r, n)]]
    BY DEF NewRun, Todo
<1>5. \A r \in Ranks : run.procs[r] = IF r >= n THEN NoWorker
        ELSE [NoWorker EXCEPT !.st = "work", !.todo = Todo(missing, completed, r, n)]
    BY <1>4
<1>6. ASSUME NEW r \in Ranks
      PROVE  /\ WorkerOK(run.procs[r])
             /\ run.procs[r].st = "work" => r \in 0 .. n - 1
                    /\ run.procs[r].todo = Todo(missing, completed, r, n)
    <2>1. CASE r >= n
        BY <1>5, <2>1, NoWorkerOK
    <2>2. CASE ~(r >= n)
        <3>1. r \in 0 .. n - 1
            BY <1>2, <2>2 DEF Ranks
        <3>2. PICK todo : todo = Todo(missing, completed, r, n)
            OBVIOUS
        <3>3. todo \in Seq(Seq(Nat))
            BY <1>2, <1>3, <3>1, <3>2, TodosApart
        <3>4. PICK w : w = [NoWorker EXCEPT !.st = "work", !.todo = todo]
            OBVIOUS
        <3>5. w = [st |-> "work", came |-> FALSE, todo |-> todo, slice |-> <<>>]
            BY <3>4 DEF NoWorker
        <3>6. WorkerOK(w) /\ w.todo = todo
            BY <3>3, <3>5 DEF WorkerOK
        <3>7. run.procs[r] = w
            BY <1>5, <2>2, <3>2, <3>4
        <3> QED BY <3>1, <3>2, <3>6, <3>7
    <2> QED BY <2>1, <2>2
<1>7. CrewOK'
    <2>1. run.procs = [r \in Ranks |-> run.procs[r]]
        BY <1>4
    <2> QED BY <1>1, <1>4, <1>6, <2>1 DEF CrewOK
<1>8. JobsApart(run.procs)
    <2> SUFFICES ASSUME NEW q \in Ranks, NEW r \in Ranks,
                        run.procs[q].st = "work", run.procs[r].st = "work",
                        NEW j \in DOMAIN run.procs[q].todo, NEW k \in DOMAIN run.procs[r].todo,
                        q # r \/ j # k
                 PROVE  ToSet(run.procs[q].todo[j]) \cap ToSet(run.procs[r].todo[k]) = {}
        BY DEF JobsApart
    <2>1. /\ q \in 0 .. n - 1 /\ run.procs[q].todo = Todo(missing, completed, q, n)
          /\ r \in 0 .. n - 1 /\ run.procs[r].todo = Todo(missing, completed, r, n)
        BY <1>6
    <2>2. /\ j \in DOMAIN Todo(missing, completed, q, n)
          /\ k \in DOMAIN Todo(missing, completed, r, n)
        BY <2>1
    <2>3. ToSet(Todo(missing, completed, q, n)[j]) \cap ToSet(Todo(missing, completed, r, n)[k]) = {}
        BY <1>2, <1>3, <2>1, <2>2, TodosApart
    <2> QED BY <2>1, <2>3
<1>9. JobsMissing(run.procs, fragments)
    <2> SUFFICES ASSUME NEW r \in Ranks, run.procs[r].st = "work",
                        NEW j \in DOMAIN run.procs[r].todo, NEW f \in fragments
                 PROVE  ToSet(run.procs[r].todo[j]) \cap ToSet(f.indexes) = {}
        BY DEF JobsMissing
    <2>1. r \in 0 .. n - 1 /\ run.procs[r].todo = Todo(missing, completed, r, n)
        BY <1>6
    <2>2. ToSet(Todo(missing, completed, r, n)[j]) \cap completed = {}
        <3>1. j \in DOMAIN Todo(missing, completed, r, n)
            BY <2>1
        <3> QED BY <1>2, <1>3, <2>1, <3>1, TodosApart
    <2> QED BY <2>1, <2>2
<1> QED BY <1>1, <1>7, <1>8, <1>9

LEMMA CallStarted ==
    ASSUME WorkInv, ~cast.orphans, Start
    PROVE  WorkInv' /\ resume'.fragments \subseteq resume.fragments
<1>0. /\ CastOK /\ CrewOK /\ FragmentsApart(resume.fragments)
      /\ resume = [id |-> resume.id, fragments |-> resume.fragments]
    BY DEF WorkInv
<1>1. PICK call \in cast.calls :
        LET kept      == IF resume.id = call.id THEN resume ELSE [id |-> call.id, fragments |-> {}]
            completed == CompletedIndexes(kept.fragments, Expected)
            missing   == WorkIndexes(completed, call)
        IN /\ resume' = kept
           /\ \/ completed = Failed /\ crew' = crew
              \/ crew' = [crew EXCEPT !["own"] = [NoRun EXCEPT !.call = call]]
              \/ completed # Failed /\ crew' = [crew EXCEPT !["own"] = NewRun(missing, completed, call)]
           /\ cast' = cast
    BY DEF Start
<1>2. /\ resume' = [id |-> resume'.id, fragments |-> resume'.fragments]
      /\ resume'.fragments \subseteq resume.fragments
    <2>1. CASE resume.id = call.id
        BY <1>0, <1>1, <2>1
    <2>2. CASE resume.id # call.id
        <3>1. resume' = [id |-> call.id, fragments |-> {}]
            BY <1>1, <2>2
        <3> QED BY <3>1
    <2> QED BY <2>1, <2>2
<1>3. PICK completed : completed = CompletedIndexes(resume'.fragments, Expected)
    OBVIOUS
<1>4. PICK missing : missing = WorkIndexes(completed, call)
    OBVIOUS
<1>5. \/ crew' = crew
      \/ crew' = [crew EXCEPT !["own"] = [NoRun EXCEPT !.call = call]]
      \/ completed # Failed /\ crew' = [crew EXCEPT !["own"] = NewRun(missing, completed, call)]
    BY <1>1, <1>3, <1>4
<1>6. CastOK' /\ cast'.orphans = cast.orphans
    BY <1>0, <1>1, CastStep
<1>7. CASE crew' = crew
    <2>1. CrewOK' /\ Own' = Own
        BY <1>0, <1>7 DEF CrewOK, Own
    <2> QED BY <1>2, <1>6, <2>1, NothingNew
<1>8. CASE crew' = [crew EXCEPT !["own"] = [NoRun EXCEPT !.call = call]]
    <2>1. PICK run : run = [NoRun EXCEPT !.call = call]
        OBVIOUS
    <2>2. run = [call |-> call, parts |-> FALSE, procs |-> NoRun.procs]
        BY <2>1 DEF NoRun
    <2>3. CrewOK' /\ \A r \in Ranks : Own'.procs[r].st # "work"
        BY <1>8, <2>1, <2>2, CallOver
    <2> QED BY <1>2, <1>6, <2>3, NothingNew
<1>9. CASE completed # Failed /\ crew' = [crew EXCEPT !["own"] = NewRun(missing, completed, call)]
    <2>1. \A f \in resume'.fragments : ToSet(f.indexes) \subseteq completed
        BY <1>3, <1>9, DoneIs
    <2>2. CallOK(call)
        BY <1>0 DEF CastOK
    <2>3. CrewOK' /\ JobsApart(Own'.procs) /\ JobsMissing(Own'.procs, resume'.fragments)
        BY <1>0, <1>4, <1>9, <2>1, <2>2, RunStarted
    <2>4. FragmentsApart(resume'.fragments)
        BY <1>0, <1>2 DEF FragmentsApart
    <2> QED BY <1>2, <1>6, <2>3, <2>4 DEF WorkInv
<1> QED BY <1>2, <1>5, <1>7, <1>8, <1>9

\* The caller is told, gives up, publishes, cleans up or dies; others look on.
LEMMA CallerStep ==
    ASSUME WorkInv, ~cast.orphans,
           \/ GiveUp \/ AllDone \/ Finish \/ Cleanup \/ Crash \/ OrphansEnd \/ Snapshot
           \/ \E w \in Writers : OpenWriter(w) \/ CloseWriter(w)
           \/ UNCHANGED vars
    PROVE  WorkInv' /\ resume'.fragments \subseteq resume.fragments
<1>0. /\ CastOK /\ CrewOK /\ crew["orphan"] = NoRun
      /\ resume = [id |-> resume.id, fragments |-> resume.fragments]
    BY DEF WorkInv, CrewOK, Crews
<1>1. ~OrphansEnd
    BY <1>0 DEF OrphansEnd
<1>2. CastOK' /\ cast'.orphans = cast.orphans
    <2>1. cast' = cast \/ cast' = [cast EXCEPT !.crashes = @ - 1]
        BY <1>1 DEF GiveUp, AllDone, Finish, Cleanup, Crash, Snapshot, OpenWriter, CloseWriter, vars
    <2> QED BY <1>0, <2>1, CastStep
<1>3. /\ resume' = [id |-> resume'.id, fragments |-> resume'.fragments]
      /\ resume'.fragments \subseteq resume.fragments
    <2>1. resume' = resume \/ resume' = NoDirectory
        BY <1>1 DEF GiveUp, AllDone, Finish, Cleanup, Crash, Snapshot, OpenWriter, CloseWriter, vars
    <2>2. CASE resume' = NoDirectory
        BY <2>2 DEF NoDirectory
    <2> QED BY <1>0, <2>1, <2>2
<1>4. PICK none : none = NoRun
    OBVIOUS
<1>5. \/ crew' = crew \/ crew' = [crew EXCEPT !["own"] = none]
      \/ crew' = [crew EXCEPT !["own"].procs = NoRun.procs]
    <2>1. Crash => crew' = [crew EXCEPT !["own"] = none]
        BY <1>4 DEF Crash
    <2> QED BY <1>1, <1>4, <2>1 DEF GiveUp, AllDone, Finish, Cleanup, Snapshot, OpenWriter, CloseWriter, vars
<1>6. CASE crew' = crew
    <2>1. CrewOK' /\ Own' = Own
        BY <1>0, <1>6 DEF CrewOK, Own
    <2> QED BY <1>2, <1>3, <2>1, NothingNew
<1>7. CASE crew' = [crew EXCEPT !["own"] = none]
    <2>1. none = [call |-> Absent, parts |-> FALSE, procs |-> NoRun.procs]
        BY <1>4 DEF NoRun
    <2>2. CrewOK' /\ \A r \in Ranks : Own'.procs[r].st # "work"
        BY <1>7, <2>1, CallOver
    <2> QED BY <1>2, <1>3, <2>2, NothingNew
<1>8. CASE crew' = [crew EXCEPT !["own"].procs = NoRun.procs]
    <2>1. PICK run : run = [crew["own"] EXCEPT !.procs = NoRun.procs]
        OBVIOUS
    <2>2. run = [call |-> Own.call, parts |-> Own.parts, procs |-> NoRun.procs]
        BY <1>0, <2>1 DEF CrewOK, Own
    <2>3. crew' = [crew EXCEPT !["own"] = run]
        BY <1>8, <2>1
    <2>4. CrewOK' /\ \A r \in Ranks : Own'.procs[r].st # "work"
        BY <2>2, <2>3, CallOver
    <2> QED BY <1>2, <1>3, <2>4, NothingNew
<1> QED BY <1>3, <1>5, <1>6, <1>7, <1>8

LEMMA WithOrphans ==
    ASSUME WorkInv, [Next]_vars, cast.orphans
    PROVE  WorkInv'
<1>1. cast' = cast \/ cast' = [cast EXCEPT !.faults = @ - 1] \/ cast' = [cast EXCEPT !.crashes = @ - 1]
    <2>1. CASE Start \/ GiveUp \/ AllDone \/ Finish
        BY <2>1 DEF Start, GiveUp, AllDone, Finish
    <2>2. CASE Cleanup \/ Crash \/ OrphansEnd \/ Snapshot \/ UNCHANGED vars
        BY <2>2 DEF Cleanup, Crash, OrphansEnd, Snapshot, vars
    <2>3. ASSUME NEW w \in Writers, OpenWriter(w) \/ CloseWriter(w) PROVE cast' = cast
        BY <2>3 DEF OpenWriter, CloseWriter
    <2>4. ASSUME NEW g \in Crews, NEW r \in Ranks, Run(g, r) PROVE cast' = cast
        BY <2>4 DEF Run, WriteFragment, Finished, ReadSlice, WritePart
    <2>5. ASSUME NEW g \in Crews, NEW r \in Ranks, WorkerFails(g, r)
          PROVE  cast' = cast \/ cast' = [cast EXCEPT !.faults = @ - 1]
        BY <2>5 DEF WorkerFails
    <2>6. ASSUME NEW g \in Crews, NEW r \in Ranks, WorkerKilled(g, r)
          PROVE  cast' = [cast EXCEPT !.faults = @ - 1]
        BY <2>6 DEF WorkerKilled
    <2> QED BY <2>1, <2>2, <2>3, <2>4, <2>5, <2>6 DEF Next
<1>2. CastOK' /\ cast'.orphans = cast.orphans
    BY <1>1, CastStep DEF WorkInv
<1> QED BY <1>2 DEF WorkInv

\* A step keeps the invariant, and computes only what is not durable.
LEMMA WorkStep ==
    ASSUME WorkInv, [Next]_vars
    PROVE  WorkInv' /\ (cast.orphans \/ AddsMissing)
<1>1. CASE cast.orphans
    BY <1>1, WithOrphans
<1>2. CASE ~cast.orphans
    <2>1. ASSUME resume'.fragments \subseteq resume.fragments PROVE AddsMissing
        BY <2>1 DEF AddsMissing
    <2>2. CASE Start
        BY <1>2, <2>1, <2>2, CallStarted
    <2>3. ASSUME NEW g \in Crews, NEW r \in Ranks, Run(g, r) \/ WorkerFails(g, r) \/ WorkerKilled(g, r)
          PROVE  WorkInv' /\ AddsMissing
        <3>1. CASE WriteFragment(g, r)
            BY <1>2, <3>1, FragmentWritten
        <3>2. CASE ~WriteFragment(g, r)
            <4>1. resume' = resume
                BY <2>3, <3>2 DEF Run, Finished, ReadSlice, WritePart, WorkerFails, WorkerKilled
            <4>2. WorkInv'
                BY <1>2, <2>3, <3>2, WorkerStopped DEF Run
            <4> QED BY <2>1, <4>1, <4>2
        <3> QED BY <3>1, <3>2
    <2>4. CASE \/ GiveUp \/ AllDone \/ Finish \/ Cleanup \/ Crash \/ OrphansEnd \/ Snapshot
               \/ \E w \in Writers : OpenWriter(w) \/ CloseWriter(w)
               \/ UNCHANGED vars
        BY <1>2, <2>1, <2>4, CallerStep
    <2> QED BY <2>2, <2>3, <2>4 DEF Next
<1> QED BY <1>1, <1>2

\* Without orphans, the jobs of all workers are apart from each other and from what
\* is durable, and no sample is in two fragments, whatever fails, dies or is repeated.
THEOREM WorkSafe == Spec => []WorkInv
<1>1. WorkInv /\ [Next]_vars => WorkInv'
    BY WorkStep
<1> QED BY <1>1, WorkInit, PTL DEF Spec

\* A worker computes nothing that is durable already, for any number of devices,
\* samples and calls, unless an orphan did it.
THEOREM WorkReused == Spec => WorkIsReused
<1>1. WorkInv /\ [Next]_vars => [cast.orphans \/ AddsMissing]_vars
    BY WorkStep
<1>2. [cast.orphans \/ AddsMissing]_vars
      => [cast.orphans \/ \A f \in resume'.fragments \ resume.fragments, g \in resume.fragments :
                            ToSet(f.indexes) \cap ToSet(g.indexes) = {}]_vars
    BY DEF AddsMissing
<1>3. Spec => [][cast.orphans \/
       \A f \in resume'.fragments \ resume.fragments, g \in resume.fragments :
            ToSet(f.indexes) \cap ToSet(g.indexes) = {}]_vars
    BY <1>1, <1>2, WorkSafe, PTL DEF Spec
<1> QED BY <1>3 DEF WorkIsReused
=============================================================================
