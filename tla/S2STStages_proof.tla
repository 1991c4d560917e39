------------------------- MODULE S2STStages_proof -------------------------
(***************************************************************************)
(* Proofs about the synthesis stages, for any publishers, configurations,  *)
(* sources and store directories: every stage is a prefix of the one above *)
(* it, record by record, and grows as the published prefix promises.       *)
(***************************************************************************)
EXTENDS S2STStages, SequenceTheorems, WellFoundedInduction, TLAPS

IsList(s) == s \in Seq(ToSet(s))

\* Where the entry before k ends.
EndsBefore(entries, k) ==
    IF k = 1 THEN 0 ELSE entries[k - 1].start + entries[k - 1].count

IsCatalog(c) ==
    /\ DOMAIN c = {"entries", "sealed"} /\ c.sealed \in BOOLEAN
    /\ IsList(c.entries)
    /\ \A k \in 1 .. Len(c.entries) :
        /\ c.entries[k].start \in Nat /\ c.entries[k].count \in Nat \ {0}
        /\ c.entries[k].start = EndsBefore(c.entries, k)

\* The first entries of d are those of c.
Begins(c, d) ==
    /\ Len(c.entries) <= Len(d.entries)
    /\ \A k \in 1 .. Len(c.entries) : d.entries[k] = c.entries[k]

HasIndex(files, c) ==
    \A k \in 1 .. Len(c.entries) : \E f \in files : f.id = c.entries[k].id

IndexesAgree(files) == \A f, g \in files : f.id = g.id => f.records = g.records

\* The stages on disk.
DiskHolds ==
    /\ DOMAIN catalog = Stages
    /\ IndexesAgree(indexes)
    /\ \A s \in Stages : IsCatalog(catalog[s]) /\ HasIndex(indexes, catalog[s])

\* Each stage is the beginning of the one above it, all of it when it is sealed.
StageFollows(files, own, up) ==
    /\ SampleCount(own) <= SampleCount(up)
    /\ \A n \in 1 .. SampleCount(own) : RecordAt(files, own, n) = RecordAt(files, up, n)
    /\ own.sealed => up.sealed /\ SampleCount(own) = SampleCount(up)

Follows ==
    \A s \in {"translation", "tts"} : StageFollows(indexes, catalog[s], catalog[Upstream(s)])

CallFields == {"plan", "own", "input", "manifest"}
InputFields == {"start", "stop", "records", "catalog", "watermark"}

\* An input is a part of what its catalog held, which is how the stage above begins.
InputHolds(input, up) ==
    /\ DOMAIN input = InputFields
    /\ IsCatalog(input.catalog) /\ HasIndex(indexes, input.catalog)
    /\ Begins(input.catalog, up)
    /\ input.start \in Nat /\ input.stop \in Nat
    /\ input.start < input.stop /\ input.stop <= SampleCount(input.catalog)
    /\ input.records = CatalogRecords(indexes, input.catalog, input.start, input.stop)

\* What a follower's call knows of its stage and of the one above.
FollowerHolds(p) ==
    LET own == catalog[StageOf(p)]
        up  == catalog[Upstream(StageOf(p))]
    IN
    /\ pc[p] \in {"idle", "opening", "pinned", "ready", "indexed", "sealing"}
    /\ pc[p] = "opening" => IsCatalog(call[p].own) /\ SampleCount(call[p].own) <= SampleCount(own)
    /\ pc[p] \in {"pinned", "ready", "indexed"} => InputHolds(call[p].input, up)
    /\ pc[p] \in {"ready", "indexed"} =>
        /\ call[p].manifest.records = call[p].input.records
        /\ call[p].manifest.stop = call[p].input.stop
    /\ pc[p] = "sealing" => up.sealed /\ SampleCount(own) = SampleCount(up)

\* An accepted commit still extends its catalog: whoever writes it has the lock.
CommitHolds(p) ==
    pc[p] = "indexed" =>
        LET c == catalog[StageOf(p)]
            m == call[p].manifest
        IN /\ lock[StageOf(p)] = p
           /\ ~c.sealed
           /\ m.records # <<>> /\ IsList(m.records)
           /\ m.stop = SampleCount(c) + Len(m.records)
           /\ [id |-> m.id, records |-> m.records] \in indexes

CallsHold ==
    /\ DOMAIN pc = Processes /\ DOMAIN call = Processes
    /\ DOMAIN lock = Stages
    /\ \A p \in Processes :
        /\ DOMAIN call[p] = CallFields
        /\ pc[p] \notin {"pinned", "ready", "indexed"} => call[p].input = Failed
        /\ p \in Growers => call[p].input = Failed
        /\ p \notin Growers => FollowerHolds(p)
        /\ CommitHolds(p)

StageInv == DiskHolds /\ Follows /\ CallsHold

-----------------------------------------------------------------------------
(* Lists, and the least element of a set of naturals.                      *)

LEMMA LeastNatural ==
    ASSUME NEW T \in SUBSET Nat, T # {}
    PROVE  \E n \in T : \A m \in T : n <= m
<1> DEFINE R == OpToRel(<, Nat)
<1>1. IsWellFoundedOn(R, Nat)
    BY NatLessThanWellFounded
<1>2. \E x \in T : \A y \in T : <<y, x>> \notin R
    BY <1>1, WFMin
<1>3. \A x, y \in Nat : x < y => <<x, y>> \in R
    BY DEF OpToRel
<1> HIDE DEF R
<1>4. PICK x \in T : \A y \in T : <<y, x>> \notin R
    BY <1>2
<1>5. \A y \in T : ~(y < x)
    BY <1>3, <1>4
<1> QED BY <1>5

LEMMA ListFacts ==
    ASSUME NEW s, IsList(s)
    PROVE  /\ Len(s) \in Nat /\ DOMAIN s = 1 .. Len(s)
           /\ s # <<>> => Len(s) >= 1
           /\ s = <<>> => Len(s) = 0
           /\ \A x : x \in ToSet(s) <=> \E k \in 1 .. Len(s) : x = s[k]
<1>1. Len(s) \in Nat /\ DOMAIN s = 1 .. Len(s) /\ (Len(s) = 0 <=> s = <<>>)
    BY EmptySeq, LenProperties DEF IsList
<1> QED BY <1>1 DEF ToSet

LEMMA ListAppend ==
    ASSUME NEW s, IsList(s), NEW x
    PROVE  /\ IsList(Append(s, x))
           /\ Len(Append(s, x)) = Len(s) + 1
           /\ \A k \in 1 .. Len(s) : Append(s, x)[k] = s[k]
           /\ Append(s, x)[Len(s) + 1] = x
<1> DEFINE T == ToSet(s) \cup {x}
           t == Append(s, x)
<1>1. s \in Seq(T)
    <2>1. /\ Len(s) \in Nat
          /\ s = [i \in 1 .. Len(s) |-> s[i]]
          /\ \A i \in 1 .. Len(s) : s[i] \in ToSet(s)
        BY DEF IsList
    <2> QED BY <2>1, IsASeq
<1>2. /\ t \in Seq(T)
      /\ Len(t) = Len(s) + 1
      /\ \A i \in 1 .. Len(s) : t[i] = s[i]
      /\ t[Len(s) + 1] = x
      /\ Len(s) \in Nat
    BY <1>1
<1>3. T \subseteq ToSet(t)
    <2>1. DOMAIN t = 1 .. Len(s) + 1 /\ DOMAIN s = 1 .. Len(s)
        BY <1>1, <1>2
    <2> QED BY <2>1, <1>2 DEF ToSet
<1> HIDE DEF t, T
<1>4. IsList(t)
    <2>1. t \in Seq(ToSet(t))
        BY <1>2, <1>3, SeqMonotonic
    <2> QED BY <2>1 DEF IsList
<1> QED BY <1>2, <1>4 DEF t

-----------------------------------------------------------------------------
(* Catalogs.  Every position below the sample count is of one entry.       *)

Has(e, n) == e.start < n /\ n <= e.start + e.count

LEMMA CountIs ==
    ASSUME NEW c, IsCatalog(c)
    PROVE  /\ SampleCount(c) \in Nat
           /\ Len(c.entries) \in Nat
           /\ SampleCount(c) = EndsBefore(c.entries, Len(c.entries) + 1)
           /\ c.entries = <<>> <=> SampleCount(c) = 0
<1>1. IsList(c.entries)
    BY DEF IsCatalog
<1>2. /\ Len(c.entries) \in Nat
      /\ c.entries # <<>> => Len(c.entries) >= 1
      /\ c.entries = <<>> => Len(c.entries) = 0
    BY <1>1, ListFacts
<1>3. CASE c.entries = <<>>
    BY <1>2, <1>3 DEF SampleCount, EndsBefore
<1>4. CASE c.entries # <<>>
    <2>1. Len(c.entries) \in 1 .. Len(c.entries)
        BY <1>2, <1>4
    <2>2. /\ c.entries[Len(c.entries)].start \in Nat
          /\ c.entries[Len(c.entries)].count \in Nat \ {0}
        BY <2>1 DEF IsCatalog
    <2> QED BY <1>2, <1>4, <2>1, <2>2 DEF SampleCount, EndsBefore, Last
<1> QED BY <1>3, <1>4

\* Entries come one after another.
LEMMA EntriesAscend ==
    ASSUME NEW c, IsCatalog(c)
    PROVE  \A k \in 1 .. Len(c.entries) : \A j \in 1 .. k - 1 :
              c.entries[j].start + c.entries[j].count <= c.entries[k].start
<1> DEFINE Good(k) == \A j \in 1 .. k - 1 :
                         c.entries[j].start + c.entries[j].count <= c.entries[k].start
           T == {k \in Nat : k \in 1 .. Len(c.entries) /\ ~Good(k)}
<1>0. Len(c.entries) \in Nat
    BY CountIs
<1>1. SUFFICES ASSUME T # {} PROVE FALSE
    BY <1>0
<1>2. PICK k \in T : \A m \in T : k <= m
    <2>1. T \in SUBSET Nat
        OBVIOUS
    <2> HIDE DEF T
    <2> QED BY <1>1, <2>1, LeastNatural
<1>3. /\ k \in 1 .. Len(c.entries) /\ ~Good(k)
      /\ \A m \in 1 .. k - 1 : Good(m)
    BY <1>0, <1>2
<1>4. PICK j \in 1 .. k - 1 :
            ~(c.entries[j].start + c.entries[j].count <= c.entries[k].start)
    BY <1>3
<1>5. /\ k - 1 \in 1 .. Len(c.entries) /\ j \in 1 .. Len(c.entries)
      /\ c.entries[k].start = c.entries[k - 1].start + c.entries[k - 1].count
    BY <1>0, <1>3, <1>4 DEF IsCatalog, EndsBefore
<1>6. /\ c.entries[j].start \in Nat /\ c.entries[j].count \in Nat
      /\ c.entries[k - 1].start \in Nat /\ c.entries[k - 1].count \in Nat
    BY <1>5 DEF IsCatalog
<1>7. j # k - 1
    BY <1>4, <1>5, <1>6
<1>8. c.entries[j].start + c.entries[j].count <= c.entries[k - 1].start
    <2>1. k - 1 \in 1 .. k - 1 /\ j \in 1 .. (k - 1) - 1
        BY <1>0, <1>3, <1>7
    <2> QED BY <1>3, <2>1
<1> QED BY <1>4, <1>5, <1>6, <1>8

LEMMA EntryEnds ==
    ASSUME NEW c, IsCatalog(c), NEW j \in 1 .. Len(c.entries)
    PROVE  c.entries[j].start + c.entries[j].count <= SampleCount(c)
<1> DEFINE m == Len(c.entries)
<1>0. m \in Nat /\ SampleCount(c) = EndsBefore(c.entries, m + 1)
    BY CountIs
<1>1. m \in 1 .. m /\ SampleCount(c) = c.entries[m].start + c.entries[m].count
    BY <1>0 DEF EndsBefore
<1>2. /\ c.entries[m].start \in Nat /\ c.entries[m].count \in Nat
      /\ c.entries[j].start \in Nat /\ c.entries[j].count \in Nat
    BY <1>1 DEF IsCatalog
<1>3. j # m => c.entries[j].start + c.entries[j].count <= c.entries[m].start
    BY <1>0, <1>1, EntriesAscend
<1> QED BY <1>0, <1>1, <1>2, <1>3

LEMMA OneEntryHas ==
    ASSUME NEW c, IsCatalog(c), NEW n \in Nat,
           NEW j \in 1 .. Len(c.entries), NEW k \in 1 .. Len(c.entries),
           Has(c.entries[j], n), Has(c.entries[k], n)
    PROVE  j = k
<1>1. /\ c.entries[j].start \in Nat /\ c.entries[j].count \in Nat
      /\ c.entries[k].start \in Nat /\ c.entries[k].count \in Nat
      /\ Len(c.entries) \in Nat
    BY CountIs DEF IsCatalog
<1>2. CASE j < k
    <2>1. c.entries[j].start + c.entries[j].count <= c.entries[k].start
        BY <1>1, <1>2, EntriesAscend
    <2> QED BY <1>1, <2>1 DEF Has
<1>3. CASE k < j
    <2>1. c.entries[k].start + c.entries[k].count <= c.entries[j].start
        BY <1>1, <1>3, EntriesAscend
    <2> QED BY <1>1, <2>1 DEF Has
<1> QED BY <1>1, <1>2, <1>3

LEMMA SomeEntryHas ==
    ASSUME NEW c, IsCatalog(c), NEW n \in 1 .. SampleCount(c)
    PROVE  \E k \in 1 .. Len(c.entries) : Has(c.entries[k], n)
<1> DEFINE T == {k \in Nat : k \in 1 .. Len(c.entries)
                             /\ n <= c.entries[k].start + c.entries[k].count}
<1>0. /\ Len(c.entries) \in Nat /\ SampleCount(c) \in Nat
      /\ SampleCount(c) = EndsBefore(c.entries, Len(c.entries) + 1)
    BY CountIs
<1>1. Len(c.entries) \in T
    BY <1>0 DEF EndsBefore
<1>2. PICK k \in T : \A m \in T : k <= m
    <2>1. T \in SUBSET Nat
        OBVIOUS
    <2> HIDE DEF T
    <2> QED BY <1>1, <2>1, LeastNatural
<1>3. /\ k \in 1 .. Len(c.entries)
      /\ n <= c.entries[k].start + c.entries[k].count
      /\ k - 1 \notin T
      /\ c.entries[k].start \in Nat
      /\ c.entries[k].start = EndsBefore(c.entries, k)
    BY <1>0, <1>2 DEF IsCatalog
<1>4. CASE k = 1
    BY <1>3, <1>4 DEF EndsBefore, Has
<1>5. CASE k # 1
    <2>1. k - 1 \in 1 .. Len(c.entries) /\ k - 1 \in Nat
        BY <1>0, <1>3, <1>5
    <2>2. ~(n <= c.entries[k - 1].start + c.entries[k - 1].count)
        BY <1>3, <2>1
    <2>3. c.entries[k].start = c.entries[k - 1].start + c.entries[k - 1].count
        BY <1>3, <1>5 DEF EndsBefore
    <2> QED BY <1>3, <2>2, <2>3 DEF Has
<1> QED BY <1>4, <1>5

\* RecordAt reads the entry that has the position.
LEMMA RecordIs ==
    ASSUME NEW files, NEW c, IsCatalog(c), NEW n \in Nat,
           NEW k \in 1 .. Len(c.entries), Has(c.entries[k], n)
    PROVE  RecordAt(files, c, n) = IndexOf(files, c.entries[k])[n - c.entries[k].start]
<1> DEFINE e == CHOOSE x \in ToSet(c.entries) : x.start < n /\ n <= x.start + x.count
<1>1. \A x : x \in ToSet(c.entries) <=> \E j \in 1 .. Len(c.entries) : x = c.entries[j]
    BY ListFacts DEF IsCatalog
<1>2. \E x \in ToSet(c.entries) : x.start < n /\ n <= x.start + x.count
    BY <1>1 DEF Has
<1>3. e \in ToSet(c.entries) /\ e.start < n /\ n <= e.start + e.count
    BY <1>2
<1>4. RecordAt(files, c, n) = IndexOf(files, e)[n - e.start]
    BY DEF RecordAt
<1> HIDE DEF e
<1>5. PICK j \in 1 .. Len(c.entries) : e = c.entries[j]
    BY <1>1, <1>3
<1>6. Has(c.entries[j], n)
    BY <1>3, <1>5 DEF Has
<1>7. j = k
    BY <1>6, OneEntryHas
<1> QED BY <1>4, <1>5, <1>7

LEMMA IndexIs ==
    ASSUME NEW files, IndexesAgree(files), NEW f \in files, NEW e, f.id = e.id
    PROVE  IndexOf(files, e) = f.records
<1>1. \E g \in files : g.id = e.id
    OBVIOUS
<1>2. (CHOOSE g \in files : g.id = e.id).records = f.records
    BY <1>1 DEF IndexesAgree
<1> QED BY <1>2 DEF IndexOf

\* Growing keeps the sample count and the records there were.
LEMMA CountGrows ==
    ASSUME NEW c, NEW d, IsCatalog(c), IsCatalog(d), Begins(c, d)
    PROVE  SampleCount(c) <= SampleCount(d)
<1>0. /\ Len(c.entries) \in Nat /\ SampleCount(c) \in Nat
      /\ SampleCount(c) = EndsBefore(c.entries, Len(c.entries) + 1)
      /\ Len(d.entries) \in Nat /\ SampleCount(d) \in Nat
      /\ SampleCount(d) = EndsBefore(d.entries, Len(d.entries) + 1)
    BY CountIs
<1>1. CASE Len(c.entries) = 0
    BY <1>0, <1>1 DEF EndsBefore
<1>2. CASE Len(c.entries) # 0
    <2> DEFINE k == Len(c.entries)
    <2>1. k \in 1 .. Len(d.entries) /\ d.entries[k] = c.entries[k]
        BY <1>0, <1>2 DEF Begins
    <2>2. SampleCount(c) = d.entries[k].start + d.entries[k].count
        BY <1>0, <1>2, <2>1 DEF EndsBefore
    <2> QED BY <2>1, <2>2, EntryEnds
<1> QED BY <1>1, <1>2

LEMMA RecordsStay ==
    ASSUME NEW files, NEW more, files \subseteq more, IndexesAgree(more),
           NEW c, NEW d, IsCatalog(c), IsCatalog(d), Begins(c, d), HasIndex(files, c),
           NEW n \in 1 .. SampleCount(c)
    PROVE  RecordAt(more, d, n) = RecordAt(files, c, n)
<1>0. SampleCount(c) \in Nat /\ n \in Nat /\ Len(c.entries) \in Nat /\ Len(d.entries) \in Nat
    BY CountIs
<1>1. PICK k \in 1 .. Len(c.entries) : Has(c.entries[k], n)
    BY SomeEntryHas
<1>2. k \in 1 .. Len(d.entries) /\ d.entries[k] = c.entries[k]
    BY <1>0, <1>1 DEF Begins
<1>3. PICK f \in files : f.id = c.entries[k].id
    BY DEF HasIndex
<1>4. IndexesAgree(files)
    BY DEF IndexesAgree
<1>5. /\ IndexOf(files, c.entries[k]) = f.records
      /\ IndexOf(more, c.entries[k]) = f.records
    BY <1>3, <1>4, IndexIs
<1>6. RecordAt(files, c, n) = IndexOf(files, c.entries[k])[n - c.entries[k].start]
    BY <1>0, <1>1, RecordIs
<1>7. RecordAt(more, d, n) = IndexOf(more, d.entries[k])[n - d.entries[k].start]
    BY <1>0, <1>1, <1>2, RecordIs
<1> QED BY <1>2, <1>5, <1>6, <1>7

\* Commit m, whose index file is there, is accepted in c and makes d of it.
Accepts(files, c, m, d) ==
    /\ IsCatalog(c) /\ HasIndex(files, c) /\ IndexesAgree(files)
    /\ IsList(m.records) /\ m.records # <<>>
    /\ [id |-> m.id, records |-> m.records] \in files
    /\ d = [entries |-> Append(c.entries, NewEntry(c, m)), sealed |-> FALSE]

LEMMA CatalogExtended ==
    ASSUME NEW files, NEW c, NEW m, NEW d, Accepts(files, c, m, d)
    PROVE  /\ IsCatalog(d) /\ HasIndex(files, d) /\ Begins(c, d)
           /\ SampleCount(d) = SampleCount(c) + Len(m.records)
           /\ \A n \in SampleCount(c) + 1 .. SampleCount(d) :
                RecordAt(files, d, n) = m.records[n - SampleCount(c)]
<1> DEFINE e == NewEntry(c, m)
           last == Len(c.entries) + 1
<1> USE DEF Accepts
<1>0. /\ SampleCount(c) \in Nat /\ Len(c.entries) \in Nat
      /\ SampleCount(c) = EndsBefore(c.entries, last)
      /\ IsList(c.entries)
    BY CountIs DEF IsCatalog
<1>1. Len(m.records) \in Nat /\ Len(m.records) >= 1
    BY ListFacts
<1>2. e.id = m.id /\ e.start = SampleCount(c) /\ e.count = Len(m.records)
    BY DEF NewEntry
<1> HIDE DEF e
<1>3. /\ IsList(d.entries) /\ Len(d.entries) = last
      /\ \A k \in 1 .. Len(c.entries) : d.entries[k] = c.entries[k]
      /\ d.entries[last] = e
    BY <1>0, ListAppend DEF e
<1>4. Begins(c, d)
    BY <1>0, <1>3 DEF Begins
<1>5. IsCatalog(d)
    <2>1. DOMAIN d = {"entries", "sealed"} /\ d.sealed \in BOOLEAN
        OBVIOUS
    <2>2. ASSUME NEW k \in 1 .. Len(d.entries)
          PROVE  /\ d.entries[k].start \in Nat /\ d.entries[k].count \in Nat \ {0}
                 /\ d.entries[k].start = EndsBefore(d.entries, k)
        <3>1. k # 1 => d.entries[k - 1] = c.entries[k - 1]
            BY <1>0, <1>3
        <3>2. EndsBefore(d.entries, k) = EndsBefore(c.entries, k)
            BY <3>1 DEF EndsBefore
        <3>3. CASE k = last
            BY <1>0, <1>1, <1>2, <1>3, <3>2, <3>3
        <3>4. CASE k # last
            <4>1. k \in 1 .. Len(c.entries) /\ d.entries[k] = c.entries[k]
                BY <1>0, <1>3, <3>4
            <4> QED BY <3>2, <4>1 DEF IsCatalog
        <3> QED BY <3>3, <3>4
    <2> QED BY <1>3, <2>1, <2>2 DEF IsCatalog
<1>6. SampleCount(d) = SampleCount(c) + Len(m.records)
    <2>1. SampleCount(d) = EndsBefore(d.entries, Len(d.entries) + 1)
        BY <1>5, CountIs
    <2>2. EndsBefore(d.entries, last + 1) = e.start + e.count
        BY <1>0, <1>3 DEF EndsBefore
    <2> QED BY <1>2, <1>3, <2>1, <2>2
<1>7. HasIndex(files, d)
    <2> SUFFICES ASSUME NEW k \in 1 .. Len(d.entries)
                 PROVE  \E f \in files : f.id = d.entries[k].id
        BY DEF HasIndex
    <2>1. CASE k = last
        <3>1. [id |-> m.id, records |-> m.records].id = d.entries[k].id
            BY <1>2, <1>3, <2>1
        <3> QED BY <3>1
    <2>2. CASE k # last
        <3>1. k \in 1 .. Len(c.entries) /\ d.entries[k] = c.entries[k]
            BY <1>0, <1>3, <2>2
        <3> QED BY <3>1 DEF HasIndex
    <2> QED BY <2>1, <2>2
<1>8. ASSUME NEW n \in SampleCount(c) + 1 .. SampleCount(d)
      PROVE  RecordAt(files, d, n) = m.records[n - SampleCount(c)]
    <2>1. n \in Nat /\ last \in 1 .. Len(d.entries) /\ Has(d.entries[last], n)
        BY <1>0, <1>1, <1>2, <1>3, <1>6 DEF Has
    <2>2. RecordAt(files, d, n) = IndexOf(files, d.entries[last])[n - d.entries[last].start]
        BY <1>5, <2>1, RecordIs
    <2>3. PICK f \in files : f = [id |-> m.id, records |-> m.records]
        OBVIOUS
    <2>4. f.id = d.entries[last].id /\ f.records = m.records
        BY <1>2, <1>3, <2>3
    <2>5. IndexOf(files, d.entries[last]) = m.records
        BY <2>4, IndexIs
    <2> QED BY <1>2, <1>3, <2>2, <2>5
<1> QED BY <1>4, <1>5, <1>6, <1>7, <1>8

LEMMA BeginsItself ==
    ASSUME NEW c, IsCatalog(c)
    PROVE  Begins(c, c)
BY CountIs DEF Begins

LEMMA BeginsTransitive ==
    ASSUME NEW b, NEW c, NEW d, IsCatalog(b), IsCatalog(c), IsCatalog(d),
           Begins(b, c), Begins(c, d)
    PROVE  Begins(b, d)
<1>1. Len(b.entries) \in Nat /\ Len(c.entries) \in Nat /\ Len(d.entries) \in Nat
    BY CountIs
<1> QED BY <1>1 DEF Begins

\* What a step may do to the catalog of a stage: a sealed one stays as it is.
Grows(c, d) ==
    /\ IsCatalog(c) /\ IsCatalog(d) /\ Begins(c, d)
    /\ c.sealed => d.sealed /\ SampleCount(d) = SampleCount(c)

LEMMA FollowsGrows ==
    ASSUME NEW files, NEW more, files \subseteq more, IndexesAgree(more),
           NEW own, NEW up, NEW new, IsCatalog(own), HasIndex(files, own), HasIndex(files, up),
           StageFollows(files, own, up), Grows(up, new)
    PROVE  StageFollows(more, own, new)
<1>1. /\ SampleCount(own) \in Nat /\ SampleCount(up) \in Nat /\ SampleCount(new) \in Nat
      /\ SampleCount(up) <= SampleCount(new)
    BY CountIs, CountGrows DEF Grows
<1>2. SampleCount(own) <= SampleCount(new)
    BY <1>1 DEF StageFollows
<1>3. ASSUME NEW n \in 1 .. SampleCount(own)
      PROVE  RecordAt(more, own, n) = RecordAt(more, new, n)
    <2>1. n \in 1 .. SampleCount(up)
        BY <1>1 DEF StageFollows
    <2>2. RecordAt(more, own, n) = RecordAt(files, own, n)
        BY BeginsItself, RecordsStay
    <2>3. RecordAt(more, new, n) = RecordAt(files, up, n)
        BY <2>1, RecordsStay DEF Grows
    <2> QED BY <2>2, <2>3 DEF StageFollows
<1>4. own.sealed => new.sealed /\ SampleCount(own) = SampleCount(new)
    BY DEF StageFollows, Grows
<1> QED BY <1>2, <1>3, <1>4 DEF StageFollows

LEMMA InputStays ==
    ASSUME NEW files, NEW more, files \subseteq more, IndexesAgree(more),
           NEW c, IsCatalog(c), HasIndex(files, c),
           NEW start \in Nat, NEW stop \in Nat, stop <= SampleCount(c)
    PROVE  CatalogRecords(more, c, start, stop) = CatalogRecords(files, c, start, stop)
<1>0. SampleCount(c) \in Nat
    BY CountIs
<1>1. ASSUME NEW k \in 1 .. stop - start
      PROVE  RecordAt(more, c, start + k) = RecordAt(files, c, start + k)
    <2>1. start + k \in 1 .. SampleCount(c)
        BY <1>0
    <2> QED BY <2>1, BeginsItself, RecordsStay
<1> QED BY <1>1 DEF CatalogRecords

-----------------------------------------------------------------------------
(* The steps, by what they change on disk.                                 *)

LEMMA StageFacts ==
    /\ \A p \in Processes : StageOf(p) \in Stages
    /\ Followers \cap Growers = {}
    /\ \A p \in Translators : p \notin Growers /\ StageOf(p) = "translation"
    /\ \A p \in Synthesizers : p \notin Growers /\ StageOf(p) = "tts"
    /\ \A p \in Processes \ Growers : StageOf(p) \in {"translation", "tts"}
    /\ \A s \in {"translation", "tts"} : Upstream(s) \in Stages /\ Upstream(s) # s
    /\ \A p \in Processes : p # Unknown
BY PublishersAssumption DEF Stages, StageOf, Upstream, Processes, Followers

\* A step of p leaves what it has to do with the other processes alone.
OnlyOf(p) ==
    /\ DOMAIN pc' = Processes /\ DOMAIN call' = Processes
    /\ \A q \in Processes \ {p} : pc'[q] = pc[q] /\ call'[q] = call[q]

LEMMA NextCases ==
    ASSUME [Next]_vars
    PROVE  \/ UNCHANGED <<catalog, indexes, lock, pc, call>>
           \/ \E p \in Growers : Plan(p) \/ PublishSource(p) \/ Save(p)
           \/ \E p \in Followers : LoadOwn(p) \/ OpenInput(p) \/ Publish(p)
           \/ \E p \in Processes : Commitment(p)
BY DEF Next, World, Extend, GrowSlot, SealSlot, disk, vars, Grow, Follow, Processes

\* The catalog of one stage changes, by a process that finds its lock free or has it.
CatalogMoves(p, d) ==
    /\ catalog' = [catalog EXCEPT ![StageOf(p)] = d]
    /\ lock[StageOf(p)] \in {Unknown, p}
    /\ indexes' = indexes

LEMMA FilesStep ==
    ASSUME StageInv, [Next]_vars
    PROVE  \/ UNCHANGED <<catalog, indexes>>
           \/ \E p \in Processes : WriteIndex(p) \/ WriteCatalog(p) \/ Seal(p)
BY NextCases DEF Commitment, Plan, PublishSource, Save, LoadOwn, OpenInput, Publish, LockTimeout,
   RepeatCommit, RefuseCommit, CheckSeal, Crash, disk

LEMMA WriteCatalogIs ==
    ASSUME StageInv, NEW p \in Processes, WriteCatalog(p),
           NEW c, c = catalog[StageOf(p)], NEW d, d = catalog'[StageOf(p)]
    PROVE  /\ indexes' = indexes
           /\ CatalogMoves(p, d) /\ lock[StageOf(p)] = p
           /\ Grows(c, d) /\ HasIndex(indexes, d)
           /\ ~c.sealed /\ ~d.sealed
           /\ call[p].manifest.stop = SampleCount(d)
           /\ SampleCount(d) = SampleCount(c) + Len(call[p].manifest.records)
           /\ Len(call[p].manifest.records) \in Nat \ {0}
           /\ \A n \in SampleCount(c) + 1 .. SampleCount(d) :
                RecordAt(indexes, d, n) = call[p].manifest.records[n - SampleCount(c)]
<1> DEFINE s == StageOf(p)
           m == call[p].manifest
<1>0. s \in Stages /\ DOMAIN catalog = Stages
    BY StageFacts DEF StageInv, DiskHolds
<1>1. /\ lock[s] = p /\ ~c.sealed
      /\ m.records # <<>> /\ IsList(m.records)
      /\ m.stop = SampleCount(c) + Len(m.records)
      /\ [id |-> m.id, records |-> m.records] \in indexes
    BY DEF StageInv, CallsHold, CommitHolds, WriteCatalog
<1>2. IsCatalog(c) /\ HasIndex(indexes, c) /\ IndexesAgree(indexes)
    BY <1>0 DEF StageInv, DiskHolds
<1>3. /\ d = [entries |-> Append(c.entries, NewEntry(c, m)), sealed |-> FALSE]
      /\ catalog' = [catalog EXCEPT ![s] = d] /\ indexes' = indexes
    BY <1>0 DEF WriteCatalog
<1> HIDE DEF m, s
<1>4. /\ IsCatalog(d) /\ HasIndex(indexes, d) /\ Begins(c, d)
      /\ SampleCount(d) = SampleCount(c) + Len(m.records)
      /\ \A n \in SampleCount(c) + 1 .. SampleCount(d) :
            RecordAt(indexes, d, n) = m.records[n - SampleCount(c)]
    <2>1. Accepts(indexes, c, m, d)
        BY <1>1, <1>2, <1>3 DEF Accepts
    <2> QED BY <2>1, CatalogExtended
<1>5. Len(m.records) \in Nat \ {0}
    BY <1>1, ListFacts
<1>6. Grows(c, d) /\ ~d.sealed
    BY <1>1, <1>2, <1>3, <1>4 DEF Grows
<1>7. CatalogMoves(p, d)
    BY <1>1, <1>3 DEF CatalogMoves, s
<1> QED BY <1>1, <1>3, <1>4, <1>5, <1>6, <1>7 DEF m, s

LEMMA SealIs ==
    ASSUME StageInv, NEW p \in Processes, Seal(p),
           NEW c, c = catalog[StageOf(p)], NEW d, d = catalog'[StageOf(p)]
    PROVE  /\ indexes' = indexes
           /\ CatalogMoves(p, d) /\ lock[StageOf(p)] = Unknown
           /\ Grows(c, d) /\ HasIndex(indexes, d)
           /\ d.entries = c.entries /\ SampleCount(d) = SampleCount(c)
<1> DEFINE s == StageOf(p)
<1>0. s \in Stages /\ DOMAIN catalog = Stages
    BY StageFacts DEF StageInv, DiskHolds
<1>1. IsCatalog(c) /\ HasIndex(indexes, c)
    BY <1>0 DEF StageInv, DiskHolds
<1>2. /\ d = [c EXCEPT !.sealed = c.sealed \/ c.entries # <<>>]
      /\ catalog' = [catalog EXCEPT ![s] = d] /\ indexes' = indexes
      /\ lock[s] = Unknown
    BY <1>0 DEF Seal
<1>3. DOMAIN c = {"entries", "sealed"} /\ c.sealed \in BOOLEAN
    BY <1>1 DEF IsCatalog
<1>4. /\ DOMAIN d = {"entries", "sealed"} /\ d.entries = c.entries
      /\ d.sealed = (c.sealed \/ c.entries # <<>>)
    BY <1>2, <1>3
<1>5. IsCatalog(d) /\ HasIndex(indexes, d) /\ SampleCount(d) = SampleCount(c)
    BY <1>1, <1>4 DEF IsCatalog, HasIndex, SampleCount
<1>6. Begins(c, d)
    BY <1>1, <1>4, CountIs DEF Begins
<1>7. Grows(c, d)
    BY <1>1, <1>4, <1>5, <1>6 DEF Grows
<1>8. CatalogMoves(p, d)
    BY <1>2 DEF CatalogMoves
<1> QED BY <1>2, <1>4, <1>5, <1>7, <1>8

LEMMA DiskStep ==
    ASSUME StageInv, [Next]_vars
    PROVE  /\ DiskHolds' /\ indexes \subseteq indexes'
           /\ \A s \in Stages : Grows(catalog[s], catalog'[s])
<1>0. DiskHolds
    BY DEF StageInv
<1>1. ASSUME UNCHANGED catalog
      PROVE  /\ DOMAIN catalog' = Stages
             /\ \A s \in Stages : IsCatalog(catalog'[s]) /\ Grows(catalog[s], catalog'[s])
    BY <1>0, <1>1, BeginsItself DEF DiskHolds, Grows
<1>2. CASE UNCHANGED <<catalog, indexes>>
    BY <1>0, <1>1, <1>2 DEF DiskHolds
<1>3. ASSUME NEW p \in Processes, WriteIndex(p)
      PROVE  /\ UNCHANGED catalog /\ indexes \subseteq indexes' /\ IndexesAgree(indexes')
             /\ \A s \in Stages : HasIndex(indexes', catalog[s])
    <2> DEFINE m == call[p].manifest
               new == [id |-> m.id, records |-> m.records]
    <2>1. /\ UNCHANGED catalog /\ indexes' = indexes \cup {new}
          /\ \A f \in indexes : f.id = m.id => f.records = m.records
        BY <1>3 DEF WriteIndex, IndexIsFree
    <2>2. new.id = m.id /\ new.records = m.records
        OBVIOUS
    <2> HIDE DEF new, m
    <2>3. \A f, g \in indexes : f.id = g.id => f.records = g.records
        BY <1>0 DEF DiskHolds, IndexesAgree
    <2>4. IndexesAgree(indexes')
        BY <2>1, <2>2, <2>3 DEF IndexesAgree
    <2>5. \A s \in Stages : HasIndex(indexes', catalog[s])
        BY <1>0, <2>1 DEF DiskHolds, HasIndex
    <2> QED BY <2>1, <2>4, <2>5
<1>4. ASSUME NEW p \in Processes, WriteCatalog(p) \/ Seal(p)
      PROVE  /\ indexes' = indexes /\ CatalogMoves(p, catalog'[StageOf(p)])
             /\ Grows(catalog[StageOf(p)], catalog'[StageOf(p)])
             /\ HasIndex(indexes, catalog'[StageOf(p)])
    BY <1>4, WriteCatalogIs, SealIs
<1>5. ASSUME NEW p \in Processes, WriteCatalog(p) \/ Seal(p), NEW s \in Stages
      PROVE  /\ DOMAIN catalog' = Stages
             /\ IsCatalog(catalog'[s]) /\ HasIndex(indexes, catalog'[s])
             /\ Grows(catalog[s], catalog'[s])
    <2>1. DOMAIN catalog' = Stages /\ (s # StageOf(p) => catalog'[s] = catalog[s])
        BY <1>0, <1>4, <1>5 DEF CatalogMoves, DiskHolds
    <2>2. CASE s = StageOf(p)
        BY <1>4, <1>5, <2>1, <2>2 DEF Grows
    <2>3. CASE s # StageOf(p)
        BY <1>0, <2>1, <2>3, BeginsItself DEF Grows, DiskHolds
    <2> QED BY <2>1, <2>2, <2>3
<1>6. ASSUME NEW p \in Processes, WriteCatalog(p) \/ Seal(p)
      PROVE  DiskHolds' /\ \A s \in Stages : Grows(catalog[s], catalog'[s])
    BY <1>0, <1>4, <1>5, <1>6 DEF DiskHolds, Stages
<1> QED
    BY <1>0, <1>1, <1>2, <1>3, <1>4, <1>6, FilesStep DEF DiskHolds

-----------------------------------------------------------------------------
(* Every stage follows the one above it.                                   *)

\* What was pinned is what the stage above has at these positions.
LEMMA PinnedRecords ==
    ASSUME NEW input, NEW up, IsCatalog(up), IndexesAgree(indexes), InputHolds(input, up)
    PROVE  /\ input.stop <= SampleCount(up)
           /\ Len(input.records) = input.stop - input.start
           /\ \A n \in input.start + 1 .. input.stop :
                input.records[n - input.start] = RecordAt(indexes, up, n)
<1> DEFINE c == input.catalog
           len == input.stop - input.start
<1>0. /\ IsCatalog(c) /\ HasIndex(indexes, c) /\ Begins(c, up)
      /\ input.start \in Nat /\ input.stop \in Nat /\ len \in Nat
      /\ input.stop <= SampleCount(c) /\ SampleCount(c) <= SampleCount(up)
      /\ SampleCount(c) \in Nat /\ SampleCount(up) \in Nat
    BY CountIs, CountGrows DEF InputHolds
<1>1. input.records = [k \in 1 .. len |-> RecordAt(indexes, c, input.start + k)]
    BY DEF InputHolds, CatalogRecords
<1> HIDE DEF c, len
<1>2. Len(input.records) = len
    <2>1. input.records \in Seq({RecordAt(indexes, c, input.start + k) : k \in 1 .. len})
        BY <1>0, <1>1, IsASeq
    <2> QED BY <1>0, <1>1, <2>1, LenProperties
<1>3. ASSUME NEW n \in input.start + 1 .. input.stop
      PROVE  input.records[n - input.start] = RecordAt(indexes, up, n)
    <2>1. n - input.start \in 1 .. len /\ input.start + (n - input.start) = n
        BY <1>0 DEF len
    <2>2. n \in 1 .. SampleCount(c)
        BY <1>0
    <2>3. RecordAt(indexes, up, n) = RecordAt(indexes, c, n)
        BY <1>0, <2>2, RecordsStay
    <2> QED BY <1>1, <2>1, <2>3
<1> QED BY <1>0, <1>2, <1>3 DEF len

LEMMA FollowsStep ==
    ASSUME StageInv, [Next]_vars
    PROVE  Follows'
<1> SUFFICES ASSUME NEW s \in {"translation", "tts"}
             PROVE  StageFollows(indexes, catalog[s], catalog[Upstream(s)])'
    BY DEF Follows
<1> DEFINE t == Upstream(s)
<1>0. s \in Stages /\ t \in Stages /\ t # s
    BY StageFacts DEF Stages
<1>1. /\ IsCatalog(catalog[s]) /\ HasIndex(indexes, catalog[s])
      /\ IsCatalog(catalog[t]) /\ HasIndex(indexes, catalog[t])
      /\ IndexesAgree(indexes) /\ IndexesAgree(indexes') /\ indexes \subseteq indexes'
      /\ Grows(catalog[t], catalog'[t])
      /\ StageFollows(indexes, catalog[s], catalog[t])
    BY <1>0, DiskStep DEF StageInv, DiskHolds, Follows
<1>2. CASE catalog'[s] = catalog[s]
    <2>1. StageFollows(indexes', catalog[s], catalog'[t])
        BY <1>1, FollowsGrows
    <2> QED BY <1>2, <2>1
<1>3. CASE catalog'[s] # catalog[s]
    <2>1. PICK p \in Processes : WriteCatalog(p) \/ Seal(p)
        BY <1>3, FilesStep DEF WriteIndex, disk
    <2>2. /\ indexes' = indexes /\ CatalogMoves(p, catalog'[StageOf(p)])
          /\ Grows(catalog[StageOf(p)], catalog'[StageOf(p)])
        BY <2>1, WriteCatalogIs, SealIs
    <2>3. StageOf(p) = s /\ p \notin Growers /\ catalog'[t] = catalog[t]
        BY <1>0, <1>3, <2>2 DEF CatalogMoves, StageInv, DiskHolds, StageOf
    <2>4. FollowerHolds(p)
        BY <2>3 DEF StageInv, CallsHold
    <2> DEFINE c == catalog[s]
               d == catalog'[s]
               up == catalog[t]
    <2>5. /\ SampleCount(c) \in Nat /\ SampleCount(d) \in Nat /\ SampleCount(up) \in Nat
          /\ SampleCount(c) <= SampleCount(d)
        BY <1>1, <2>2, <2>3, CountIs, CountGrows DEF Grows
    <2>6. ASSUME NEW n \in 1 .. SampleCount(c)
          PROVE  RecordAt(indexes, d, n) = RecordAt(indexes, up, n)
        <3>1. RecordAt(indexes, d, n) = RecordAt(indexes, c, n)
            BY <1>1, <2>2, <2>3, RecordsStay DEF Grows
        <3> QED BY <1>1, <3>1 DEF StageFollows
    <2>7. CASE WriteCatalog(p)
        <3> DEFINE m == call[p].manifest
                   i == call[p].input
        <3>1. /\ m.stop = SampleCount(d) /\ SampleCount(d) = SampleCount(c) + Len(m.records)
              /\ ~d.sealed
              /\ \A n \in SampleCount(c) + 1 .. SampleCount(d) :
                    RecordAt(indexes, d, n) = m.records[n - SampleCount(c)]
            BY <2>3, <2>7, WriteCatalogIs
        <3>2. /\ InputHolds(i, up) /\ m.records = i.records /\ m.stop = i.stop
            BY <2>3, <2>4, <2>7 DEF FollowerHolds, WriteCatalog
        <3>3. /\ i.stop <= SampleCount(up)
              /\ Len(i.records) = i.stop - i.start
              /\ \A n \in i.start + 1 .. i.stop : i.records[n - i.start] = RecordAt(indexes, up, n)
            BY <1>1, <3>2, PinnedRecords
        <3>4. i.start \in Nat /\ i.stop \in Nat
            BY <3>2 DEF InputHolds
        <3> HIDE DEF c, d, up, m, i
        <3>5. i.start = SampleCount(c) /\ i.stop = SampleCount(d)
            BY <2>5, <3>1, <3>2, <3>3, <3>4
        <3>6. ASSUME NEW n \in 1 .. SampleCount(d)
              PROVE  RecordAt(indexes, d, n) = RecordAt(indexes, up, n)
            <4>1. CASE n \in 1 .. SampleCount(c)
                BY <2>6, <4>1
            <4>2. CASE n \notin 1 .. SampleCount(c)
                <5>1. n \in SampleCount(c) + 1 .. SampleCount(d)
                    BY <2>5, <4>2
                <5> QED BY <3>1, <3>2, <3>3, <3>5, <5>1
            <4> QED BY <4>1, <4>2
        <3>7. StageFollows(indexes, d, up)
            BY <3>1, <3>3, <3>5, <3>6 DEF StageFollows
        <3> QED BY <2>2, <2>3, <3>7 DEF d, up
    <2>8. CASE Seal(p)
        <3>1. d.entries = c.entries /\ SampleCount(d) = SampleCount(c)
            BY <2>3, <2>8, SealIs
        <3>2. up.sealed /\ SampleCount(c) = SampleCount(up)
            BY <2>3, <2>4, <2>8 DEF FollowerHolds, Seal
        <3>3. StageFollows(indexes, d, up)
            BY <2>5, <2>6, <3>1, <3>2 DEF StageFollows
        <3> QED BY <2>2, <2>3, <3>3
    <2> QED BY <2>1, <2>7, <2>8
<1> QED BY <1>2, <1>3

-----------------------------------------------------------------------------
(* What calls know.                                                        *)

\* What one process knows.
CallHolds(p) ==
    /\ DOMAIN call[p] = CallFields
    /\ pc[p] \notin {"pinned", "ready", "indexed"} => call[p].input = Failed
    /\ p \in Growers => call[p].input = Failed
    /\ p \notin Growers => FollowerHolds(p)
    /\ CommitHolds(p)

\* A follower whose call does not change still knows what it knew.
LEMMA InputKept ==
    ASSUME StageInv, [Next]_vars, NEW s \in Stages, NEW input,
           InputHolds(input, catalog[s])
    PROVE  InputHolds(input, catalog[s])'
<1> DEFINE c == input.catalog
<1>1. /\ IsCatalog(c) /\ HasIndex(indexes, c) /\ Begins(c, catalog[s])
      /\ input.start \in Nat /\ input.stop \in Nat /\ input.stop <= SampleCount(c)
      /\ input.records = CatalogRecords(indexes, c, input.start, input.stop)
    BY DEF InputHolds
<1>2. /\ indexes \subseteq indexes' /\ IndexesAgree(indexes')
      /\ Grows(catalog[s], catalog'[s])
    BY DiskStep DEF DiskHolds
<1>3. HasIndex(indexes', c)
    BY <1>1, <1>2 DEF HasIndex
<1>4. Begins(c, catalog'[s])
    BY <1>1, <1>2, BeginsTransitive DEF Grows
<1>5. CatalogRecords(indexes', c, input.start, input.stop) = input.records
    BY <1>1, <1>2, InputStays
<1> QED BY <1>1, <1>3, <1>4, <1>5 DEF InputHolds

LEMMA FollowerKept ==
    ASSUME StageInv, [Next]_vars, NEW p \in Processes, p \notin Growers,
           pc'[p] = pc[p], call'[p] = call[p]
    PROVE  FollowerHolds(p)'
<1> DEFINE s == StageOf(p)
           t == Upstream(s)
<1>0. s \in {"translation", "tts"} /\ s \in Stages /\ t \in Stages
    BY StageFacts
<1>1. FollowerHolds(p)
    BY DEF StageInv, CallsHold
<1>2. Grows(catalog[s], catalog'[s]) /\ Grows(catalog[t], catalog'[t])
    BY <1>0, DiskStep
<1>3. /\ SampleCount(catalog[s]) \in Nat /\ SampleCount(catalog'[s]) \in Nat
      /\ SampleCount(catalog[s]) <= SampleCount(catalog'[s])
    BY <1>2, CountIs, CountGrows DEF Grows
<1>4. /\ pc'[p] \in {"idle", "opening", "pinned", "ready", "indexed", "sealing"}
      /\ pc'[p] \in {"ready", "indexed"} =>
            /\ call'[p].manifest.records = call'[p].input.records
            /\ call'[p].manifest.stop = call'[p].input.stop
    BY <1>1 DEF FollowerHolds
<1>5. pc'[p] = "opening" => IsCatalog(call'[p].own)
                            /\ SampleCount(call'[p].own) <= SampleCount(catalog'[s])
    <2> SUFFICES ASSUME pc[p] = "opening"
                 PROVE  IsCatalog(call[p].own)
                        /\ SampleCount(call[p].own) <= SampleCount(catalog'[s])
        OBVIOUS
    <2>1. IsCatalog(call[p].own) /\ SampleCount(call[p].own) <= SampleCount(catalog[s])
        BY <1>1 DEF FollowerHolds
    <2>2. SampleCount(call[p].own) \in Nat
        BY <2>1, CountIs
    <2> QED BY <1>3, <2>1, <2>2
<1>6. pc'[p] \in {"pinned", "ready", "indexed"} => InputHolds(call[p].input, catalog[t])'
    <2> SUFFICES ASSUME pc[p] \in {"pinned", "ready", "indexed"}
                 PROVE  InputHolds(call[p].input, catalog[t])'
        OBVIOUS
    <2>0. \E i : i = call[p].input
        OBVIOUS
    <2>1. PICK i : i = call[p].input
        BY <2>0
    <2>2. InputHolds(i, catalog[t])
        BY <1>1, <2>1 DEF FollowerHolds
    <2>3. InputHolds(i, catalog[t])'
        BY <1>0, <2>2, InputKept
    <2>4. i = call'[p].input
        BY <2>1
    <2> QED BY <2>3, <2>4
<1>7. pc'[p] = "sealing" =>
        catalog'[t].sealed /\ SampleCount(catalog'[s]) = SampleCount(catalog'[t])
    <2> SUFFICES ASSUME pc[p] = "sealing"
                 PROVE  catalog'[t].sealed /\ SampleCount(catalog'[s]) = SampleCount(catalog'[t])
        OBVIOUS
    <2>1. /\ catalog[t].sealed /\ SampleCount(catalog[s]) = SampleCount(catalog[t])
        BY <1>1 DEF FollowerHolds
    <2>2. catalog'[t].sealed /\ SampleCount(catalog'[t]) = SampleCount(catalog[t])
        BY <1>2, <2>1 DEF Grows
    <2>3. SampleCount(catalog'[s]) <= SampleCount(catalog'[t])
        BY <1>0, FollowsStep DEF Follows, StageFollows
    <2> QED BY <1>3, <2>1, <2>2, <2>3
<1> QED BY <1>4, <1>5, <1>6, <1>7 DEF FollowerHolds

\* Whoever has the lock keeps it, and its stage, unless the step is its own.
LEMMA CommitKept ==
    ASSUME StageInv, [Next]_vars, NEW p \in Processes, NEW q \in Processes, p # q,
           \/ UNCHANGED <<catalog, lock>>
           \/ Crash(p) \/ WriteIndex(p) \/ WriteCatalog(p) \/ Seal(p),
           pc'[q] = pc[q], call'[q] = call[q]
    PROVE  CommitHolds(q)'
<1> SUFFICES ASSUME pc[q] = "indexed" PROVE CommitHolds(q)'
    BY DEF CommitHolds
<1> DEFINE s == StageOf(q)
<1>0. /\ s \in Stages /\ DOMAIN catalog = Stages /\ DOMAIN lock = Stages /\ q # Unknown
      /\ StageOf(p) \in Stages
    BY StageFacts DEF StageInv, DiskHolds, CallsHold
<1>1. CommitHolds(q) /\ lock[s] = q
    BY DEF StageInv, CallsHold, CommitHolds
<1>2. indexes \subseteq indexes'
    BY DiskStep
<1>3. lock'[s] = q /\ catalog'[s] = catalog[s]
    <2>1. CASE UNCHANGED <<catalog, lock>>
        BY <1>1, <2>1
    <2>2. CASE Crash(p)
        BY <1>0, <1>1, <2>2 DEF Crash
    <2>3. CASE WriteIndex(p)
        BY <1>0, <1>1, <2>3 DEF WriteIndex
    <2>4. CASE WriteCatalog(p) \/ Seal(p)
        <3>1. /\ CatalogMoves(p, catalog'[StageOf(p)])
            BY <2>4, WriteCatalogIs, SealIs
        <3>2. StageOf(p) # s
            BY <1>0, <1>1, <3>1 DEF CatalogMoves
        <3> QED BY <1>0, <1>1, <2>4, <3>1, <3>2 DEF CatalogMoves, WriteCatalog, Seal
    <2> QED BY <2>1, <2>2, <2>3, <2>4
<1> QED BY <1>1, <1>2, <1>3 DEF CommitHolds

LEMMA OthersKept ==
    ASSUME StageInv, [Next]_vars, NEW p \in Processes, NEW q \in Processes, p # q,
           \/ UNCHANGED <<catalog, lock>>
           \/ Crash(p) \/ WriteIndex(p) \/ WriteCatalog(p) \/ Seal(p),
           pc'[q] = pc[q], call'[q] = call[q]
    PROVE  CallHolds(q)'
<1>1. CommitHolds(q)'
    BY CommitKept
<1>2. q \notin Growers => FollowerHolds(q)'
    BY FollowerKept
<1>3. /\ DOMAIN call'[q] = CallFields
      /\ pc'[q] \notin {"pinned", "ready", "indexed"} => call'[q].input = Failed
      /\ q \in Growers => call'[q].input = Failed
    BY DEF StageInv, CallsHold
<1> QED BY <1>1, <1>2, <1>3 DEF CallHolds

\* A step that ends the call of p.
LEMMA Returned ==
    ASSUME StageInv, NEW p \in Processes, Return(p)
    PROVE  /\ CallHolds(p)'
           /\ DOMAIN pc' = Processes /\ DOMAIN call' = Processes
           /\ \A q \in Processes \ {p} : pc'[q] = pc[q] /\ call'[q] = call[q]
<1>1. /\ DOMAIN pc' = Processes /\ DOMAIN call' = Processes
      /\ pc'[p] = "idle" /\ call'[p] = NoCall
      /\ \A q \in Processes \ {p} : pc'[q] = pc[q] /\ call'[q] = call[q]
    BY DEF Return, Goto, StageInv, CallsHold
<1>2. DOMAIN call'[p] = CallFields /\ call'[p].input = Failed
    BY <1>1 DEF NoCall, CallFields
<1> QED BY <1>1, <1>2 DEF CallHolds, FollowerHolds, CommitHolds

\* A step that goes on with the call of p.
GoesOn(p, label) ==
    /\ DOMAIN pc' = Processes /\ DOMAIN call' = Processes
    /\ pc'[p] = label /\ DOMAIN call'[p] = CallFields
    /\ \A q \in Processes \ {p} : pc'[q] = pc[q] /\ call'[q] = call[q]

LEMMA GrowStep ==
    ASSUME StageInv, [Next]_vars, NEW p \in Growers, Plan(p) \/ PublishSource(p) \/ Save(p)
    PROVE  CallHolds(p)' /\ OnlyOf(p)
<1>0. p \in Processes /\ DOMAIN pc = Processes /\ DOMAIN call = Processes
      /\ DOMAIN call[p] = CallFields /\ call[p].input = Failed
    BY DEF StageInv, CallsHold, Processes
<1>1. CASE Plan(p)
    <2>1. GoesOn(p, "planned") /\ call'[p].input = Failed
        BY <1>0, <1>1 DEF Plan, Goto, GoesOn, CallFields
    <2> QED BY <2>1 DEF GoesOn, OnlyOf, CallHolds, CommitHolds
<1>2. CASE PublishSource(p)
    <2>1. GoesOn(p, "ready") /\ call'[p].input = Failed
        BY <1>0, <1>2 DEF PublishSource, Goto, GoesOn, CallFields
    <2> QED BY <2>1 DEF GoesOn, OnlyOf, CallHolds, CommitHolds
<1>3. CASE Save(p)
    BY <1>0, <1>3, Returned DEF Save, OnlyOf
<1> QED BY <1>1, <1>2, <1>3

\* The next entry that a follower lacks is there, and it takes some of it.
LEMMA OpenInputPins ==
    ASSUME StageInv, NEW p \in Followers, OpenInput(p),
           SampleCount(call[p].own) # SampleCount(catalog[Upstream(StageOf(p))])
    PROVE  GoesOn(p, "pinned")
           /\ InputHolds(call'[p].input, catalog[Upstream(StageOf(p))])
<1> DEFINE up    == catalog[Upstream(StageOf(p))]
           own   == catalog[StageOf(p)]
           start == SampleCount(call[p].own)
<1>0. /\ p \in Processes /\ p \notin Growers
      /\ StageOf(p) \in {"translation", "tts"} /\ StageOf(p) \in Stages
      /\ Upstream(StageOf(p)) \in Stages
      /\ DOMAIN pc = Processes /\ DOMAIN call = Processes /\ DOMAIN call[p] = CallFields
    BY StageFacts DEF StageInv, CallsHold, Processes, Stages
<1>1. /\ IsCatalog(up) /\ HasIndex(indexes, up) /\ IsCatalog(own)
      /\ SampleCount(own) <= SampleCount(up)
    BY <1>0 DEF StageInv, DiskHolds, Follows, StageFollows
<1>2. IsCatalog(call[p].own) /\ start <= SampleCount(own)
    BY <1>0 DEF StageInv, CallsHold, FollowerHolds, OpenInput
<1>3. /\ start \in Nat /\ SampleCount(up) \in Nat /\ SampleCount(own) \in Nat
      /\ start < SampleCount(up)
    BY <1>1, <1>2, CountIs
<1> DEFINE Covers(e) == e.start <= start /\ start < e.start + e.count
           entry == CHOOSE e \in ToSet(up.entries) :
                        e.start <= start /\ start < e.start + e.count
<1>4. PICK max \in Batches :
        LET stop == Min({entry.start + entry.count, start + max}) IN
        /\ call' = [call EXCEPT ![p].input =
                      [start     |-> start,
                       stop      |-> stop,
                       records   |-> CatalogRecords(indexes, up, start, stop),
                       catalog   |-> up,
                       watermark |-> Watermark(up, stop)]]
        /\ Goto(p, "pinned")
    BY DEF OpenInput
<1> DEFINE stop == Min({entry.start + entry.count, start + max})
<1>5. max \in Nat \ {0}
    BY BoundsAssumption
<1>6. /\ entry.start \in Nat /\ entry.count \in Nat
      /\ start < entry.start + entry.count
      /\ entry.start + entry.count <= SampleCount(up)
    <2>1. start + 1 \in 1 .. SampleCount(up)
        BY <1>3
    <2>2. PICK k \in 1 .. Len(up.entries) : Has(up.entries[k], start + 1)
        BY <1>1, <2>1, SomeEntryHas
    <2>3. up.entries[k].start \in Nat /\ up.entries[k].count \in Nat
        BY <1>1 DEF IsCatalog
    <2>4. \A x : x \in ToSet(up.entries) <=> \E j \in 1 .. Len(up.entries) : x = up.entries[j]
        BY <1>1, ListFacts DEF IsCatalog
    <2>5. up.entries[k] \in ToSet(up.entries) /\ Covers(up.entries[k])
        BY <1>3, <2>2, <2>3, <2>4 DEF Has
    <2>6. entry \in ToSet(up.entries) /\ Covers(entry)
        BY <2>5
    <2>7. PICK j \in 1 .. Len(up.entries) : entry = up.entries[j]
        BY <2>4, <2>6
    <2>8. /\ up.entries[j].start \in Nat /\ up.entries[j].count \in Nat
          /\ Len(up.entries) \in Nat
          /\ SampleCount(up) = EndsBefore(up.entries, Len(up.entries) + 1)
        BY <1>1, CountIs DEF IsCatalog
    <2>9. up.entries[j].start + up.entries[j].count <= SampleCount(up)
        BY <1>1, EntryEnds
    <2> HIDE DEF entry
    <2> QED BY <2>6, <2>7, <2>8, <2>9
<1> HIDE DEF entry
<1>7. stop \in Nat /\ start < stop /\ stop <= SampleCount(up)
    <2> DEFINE a == entry.start + entry.count
               b == start + max
    <2>1. a \in Nat /\ b \in Nat /\ start < a /\ start < b /\ a <= SampleCount(up)
        BY <1>3, <1>5, <1>6
    <2> HIDE DEF a, b
    <2>2. \E x \in {a, b} : \A y \in {a, b} : x <= y
        BY <2>1
    <2>3. Min({a, b}) \in {a, b} /\ \A y \in {a, b} : Min({a, b}) <= y
        BY <2>2 DEF Min
    <2>4. stop = Min({a, b})
        BY DEF a, b
    <2> QED BY <1>3, <2>1, <2>3, <2>4
<1> DEFINE input == [start     |-> start,
                     stop      |-> stop,
                     records   |-> CatalogRecords(indexes, up, start, stop),
                     catalog   |-> up,
                     watermark |-> Watermark(up, stop)]
<1>8. call' = [call EXCEPT ![p].input = input] /\ Goto(p, "pinned")
    BY <1>4
<1> HIDE DEF stop, start
<1>9. InputHolds(input, up)
    <2>1. Begins(up, up)
        BY <1>1, BeginsItself
    <2>2. DOMAIN input = InputFields
        BY DEF InputFields
    <2> HIDE DEF up
    <2> QED BY <1>1, <1>3, <1>7, <2>1, <2>2 DEF InputHolds
<1> HIDE DEF input
<1>10. call'[p].input = input /\ GoesOn(p, "pinned")
    BY <1>0, <1>8 DEF GoesOn, Goto, CallFields
<1> QED BY <1>9, <1>10

LEMMA FollowStep ==
    ASSUME StageInv, [Next]_vars, NEW p \in Followers,
           LoadOwn(p) \/ OpenInput(p) \/ Publish(p)
    PROVE  CallHolds(p)' /\ OnlyOf(p)
<1> DEFINE up  == catalog[Upstream(StageOf(p))]
           own == catalog[StageOf(p)]
<1>0. /\ p \in Processes /\ p \notin Growers
      /\ StageOf(p) \in Stages /\ Upstream(StageOf(p)) \in Stages
      /\ DOMAIN pc = Processes /\ DOMAIN call = Processes /\ DOMAIN call[p] = CallFields
      /\ FollowerHolds(p)
    BY StageFacts DEF StageInv, CallsHold, Processes
<1>1. IsCatalog(own) /\ SampleCount(own) \in Nat
    BY <1>0, CountIs DEF StageInv, DiskHolds
<1>2. CASE LoadOwn(p)
    <2>1. /\ GoesOn(p, "opening") /\ call'[p].input = call[p].input /\ call'[p].own = own
          /\ call[p].input = Failed /\ UNCHANGED catalog
        BY <1>0, <1>2 DEF LoadOwn, Goto, GoesOn, CallFields, StageInv, CallsHold, disk
    <2> QED BY <1>0, <1>1, <2>1 DEF GoesOn, OnlyOf, CallHolds, CommitHolds, FollowerHolds
<1>3. CASE OpenInput(p)
    <2>1. UNCHANGED <<catalog, indexes>>
        BY <1>3 DEF OpenInput, disk
    <2>2. CASE SampleCount(call[p].own) = SampleCount(up)
        BY <1>0, <1>3, <2>2, Returned DEF OpenInput, OnlyOf
    <2>3. CASE SampleCount(call[p].own) # SampleCount(up)
        <3>1. GoesOn(p, "pinned") /\ InputHolds(call'[p].input, up)
            BY <1>3, <2>3, OpenInputPins
        <3>2. InputHolds(call[p].input, up)'
            BY <2>1, <3>1 DEF InputHolds
        <3> QED BY <1>0, <3>1, <3>2 DEF GoesOn, OnlyOf, CallHolds, CommitHolds, FollowerHolds
    <2> QED BY <2>2, <2>3
<1>4. CASE Publish(p)
    <2> DEFINE input == call[p].input
    <2>1. UNCHANGED <<catalog, indexes>> /\ InputHolds(input, up)
        BY <1>0, <1>4 DEF Publish, FollowerHolds, disk
    <2>2. CASE Return(p)
        BY <1>0, <2>2, Returned DEF OnlyOf
    <2>3. CASE ~Return(p)
        <3>1. /\ SampleCount(own) = input.start /\ Goto(p, "ready")
              /\ \E store \in cast.stores :
                    call' = [call EXCEPT ![p].manifest =
                                Manifest(StageOf(p), own, store, input.records)]
            BY <1>4, <2>3 DEF Publish
        <3>2. PICK store \in cast.stores :
                call' = [call EXCEPT ![p].manifest =
                            Manifest(StageOf(p), own, store, input.records)]
            BY <3>1
        <3>3. /\ GoesOn(p, "ready") /\ call'[p].input = input
              /\ call'[p].manifest = Manifest(StageOf(p), own, store, input.records)
            BY <1>0, <3>1, <3>2 DEF Goto, GoesOn, CallFields
        <3>4. /\ call'[p].manifest.records = input.records
              /\ call'[p].manifest.stop = SampleCount(own) + Len(input.records)
            BY <3>3 DEF Manifest
        <3>5. Len(input.records) = input.stop - input.start
            <4>1. IsCatalog(up) /\ IndexesAgree(indexes)
                BY <1>0 DEF StageInv, DiskHolds
            <4> QED BY <2>1, <4>1, PinnedRecords
        <3>6. call'[p].manifest.stop = input.stop
            BY <2>1, <3>1, <3>4, <3>5 DEF InputHolds
        <3>7. InputHolds(call[p].input, up)'
            BY <2>1, <3>3 DEF InputHolds
        <3> QED
            BY <1>0, <3>3, <3>4, <3>6, <3>7 DEF GoesOn, OnlyOf, CallHolds, CommitHolds, FollowerHolds
    <2> QED BY <2>2, <2>3
<1> QED BY <1>2, <1>3, <1>4

\* A grower has no input; a follower only goes to the lock with one.
LEMMA WriteIndexStep ==
    ASSUME StageInv, [Next]_vars, NEW p \in Processes, WriteIndex(p)
    PROVE  CallHolds(p)' /\ OnlyOf(p)
<1> DEFINE s == StageOf(p)
           m == call[p].manifest
<1>0. /\ s \in Stages /\ DOMAIN lock = Stages
      /\ DOMAIN pc = Processes /\ DOMAIN call = Processes /\ DOMAIN call[p] = CallFields
      /\ IsCatalog(catalog[s])
    BY StageFacts DEF StageInv, CallsHold, DiskHolds
<1>1. GoesOn(p, "indexed") /\ UNCHANGED <<call, catalog>> /\ lock'[s] = p
    BY <1>0 DEF WriteIndex, Goto, GoesOn
<1>2. /\ ~catalog[s].sealed /\ m.records # <<>> /\ m.stop = SampleCount(catalog[s]) + Len(m.records)
      /\ m.records \in Seq({r \in ToSet(m.records) : ValidRecord(r)})
      /\ [id |-> m.id, records |-> m.records] \in indexes'
    BY DEF WriteIndex, ExtendsCatalog, AreRecords
<1>3. IsList(m.records)
    BY <1>2, SeqMonotonic DEF IsList
<1>4. CommitHolds(p)'
    BY <1>1, <1>2, <1>3 DEF CommitHolds
<1>5. p \notin Growers => FollowerHolds(p)'
    <2> SUFFICES ASSUME p \notin Growers PROVE FollowerHolds(p)'
        OBVIOUS
    <2>1. FollowerHolds(p) /\ pc[p] = "ready"
        BY DEF StageInv, CallsHold, WriteIndex
    <2>2. Upstream(s) \in Stages
        BY StageFacts
    <2>3. \E i : i = call[p].input
        OBVIOUS
    <2>4. PICK i : i = call[p].input
        BY <2>3
    <2>5. InputHolds(i, catalog[Upstream(s)])
        BY <2>1, <2>4 DEF FollowerHolds
    <2>6. InputHolds(i, catalog[Upstream(s)])'
        BY <2>2, <2>5, InputKept
    <2> QED BY <1>1, <2>1, <2>4, <2>6 DEF FollowerHolds, GoesOn
<1>6. p \in Growers => call[p].input = Failed
    BY DEF StageInv, CallsHold
<1> QED BY <1>1, <1>4, <1>5, <1>6 DEF CallHolds, GoesOn, OnlyOf

LEMMA CommitmentStep ==
    ASSUME StageInv, [Next]_vars, NEW p \in Processes, Commitment(p)
    PROVE  CallHolds(p)' /\ OnlyOf(p)
<1> DEFINE s == StageOf(p)
<1>0. /\ DOMAIN pc = Processes /\ DOMAIN call = Processes /\ DOMAIN call[p] = CallFields
      /\ s \in Stages /\ Upstream(s) \in Stages
    BY StageFacts DEF StageInv, CallsHold, Upstream, Stages
<1>1. CASE Return(p)
    BY <1>1, Returned DEF OnlyOf
<1>2. CASE WriteIndex(p)
    BY <1>2, WriteIndexStep
<1>3. CASE p \in Growers /\ Goto(p, "published") /\ UNCHANGED call
    <2>1. GoesOn(p, "published") /\ call[p].input = Failed
        BY <1>0, <1>3 DEF Goto, GoesOn, StageInv, CallsHold
    <2> QED BY <1>3, <2>1 DEF GoesOn, OnlyOf, CallHolds, CommitHolds
<1>4. CASE CheckSeal(p)
    <2>1. GoesOn(p, "sealing") /\ UNCHANGED <<call, catalog>> /\ pc[p] = "idle"
        BY <1>0, <1>4 DEF CheckSeal, Goto, GoesOn, disk
    <2>2. call[p].input = Failed
        BY <2>1 DEF StageInv, CallsHold
    <2>3. p \notin Growers =>
            catalog[Upstream(s)].sealed /\ SampleCount(catalog[s]) = SampleCount(catalog[Upstream(s)])
        BY <1>4 DEF CheckSeal
    <2> QED BY <2>1, <2>2, <2>3 DEF GoesOn, OnlyOf, CallHolds, CommitHolds, FollowerHolds
<1> QED
    BY <1>1, <1>2, <1>3, <1>4
    DEF Commitment, LockTimeout, RepeatCommit, RefuseCommit, WriteCatalog, Seal, Crash

LEMMA CallsStep ==
    ASSUME StageInv, [Next]_vars
    PROVE  CallsHold'
<1>0. DOMAIN lock' = Stages
    BY NextCases DEF StageInv, CallsHold, Commitment, Plan, PublishSource, Save, LoadOwn, OpenInput,
       Publish, LockTimeout, RepeatCommit, RefuseCommit, WriteIndex, WriteCatalog, CheckSeal, Seal,
       Crash, disk
<1>1. CASE UNCHANGED <<catalog, indexes, lock, pc, call>>
    BY <1>1 DEF StageInv, CallsHold, FollowerHolds, CommitHolds, InputHolds
<1>2. ASSUME NEW p \in Processes, CallHolds(p)', OnlyOf(p),
             \/ UNCHANGED <<catalog, lock>>
             \/ Crash(p) \/ WriteIndex(p) \/ WriteCatalog(p) \/ Seal(p)
      PROVE  CallsHold'
    <2>1. ASSUME NEW q \in Processes, q # p PROVE CallHolds(q)'
        BY <1>2, <2>1, OthersKept DEF OnlyOf
    <2>2. \A q \in Processes : CallHolds(q)'
        BY <1>2, <2>1
    <2> QED BY <1>0, <1>2, <2>2 DEF CallsHold, CallHolds, OnlyOf
<1>3. ASSUME NEW p \in Growers, Plan(p) \/ PublishSource(p) \/ Save(p) PROVE CallsHold'
    <2>1. p \in Processes /\ UNCHANGED <<catalog, lock>>
        BY <1>3 DEF Processes, Plan, PublishSource, Save, disk
    <2> QED BY <1>2, <1>3, <2>1, GrowStep
<1>4. ASSUME NEW p \in Followers, LoadOwn(p) \/ OpenInput(p) \/ Publish(p) PROVE CallsHold'
    <2>1. p \in Processes /\ UNCHANGED <<catalog, lock>>
        BY <1>4 DEF Processes, LoadOwn, OpenInput, Publish, disk
    <2> QED BY <1>2, <1>4, <2>1, FollowStep
<1>5. ASSUME NEW p \in Processes, Commitment(p) PROVE CallsHold'
    <2>1. \/ UNCHANGED <<catalog, lock>>
          \/ Crash(p) \/ WriteIndex(p) \/ WriteCatalog(p) \/ Seal(p)
        BY <1>5 DEF Commitment, LockTimeout, RepeatCommit, RefuseCommit, CheckSeal, disk
    <2> QED BY <1>2, <1>5, <2>1, CommitmentStep
<1> QED BY <1>1, <1>3, <1>4, <1>5, NextCases

-----------------------------------------------------------------------------
(* The invariant, and that the stages are aligned.                         *)

LEMMA EmptyIsCatalog ==
    /\ IsCatalog(EmptyCatalog) /\ SampleCount(EmptyCatalog) = 0
    /\ Len(EmptyCatalog.entries) = 0 /\ ~EmptyCatalog.sealed
<1>1. IsList(<<>>) /\ Len(<<>>) = 0
    BY DEF IsList
<1> QED BY <1>1 DEF EmptyCatalog, IsCatalog, SampleCount

LEMMA InitHolds ==
    ASSUME Init
    PROVE  StageInv
<1>1. DiskHolds
    BY EmptyIsCatalog DEF Init, DiskHolds, IndexesAgree, HasIndex
<1>2. Follows
    <2>1. \A s \in {"translation", "tts"} : catalog[s] = EmptyCatalog
                                            /\ catalog[Upstream(s)] = EmptyCatalog
        BY StageFacts DEF Init, Stages
    <2> QED BY <2>1, EmptyIsCatalog DEF Follows, StageFollows
<1>3. CallsHold
    <2>1. /\ DOMAIN pc = Processes /\ DOMAIN call = Processes /\ DOMAIN lock = Stages
          /\ \A p \in Processes : pc[p] = "idle" /\ call[p] = NoCall
        BY DEF Init
    <2>2. DOMAIN NoCall = CallFields /\ NoCall.input = Failed
        BY DEF NoCall, CallFields
    <2> QED BY <2>1, <2>2 DEF CallsHold, FollowerHolds, CommitHolds
<1> QED BY <1>1, <1>2, <1>3 DEF StageInv

\* The invariant the other theorems rest on.  On disk: catalogs whose entries adjoin,
\* each with its index file; each stage the beginning of the one above it, all of it
\* when it is sealed.  In a call: an input is a part of a catalog the stage above still
\* begins with, a follower in seal has found its stage complete below a sealed one, and
\* a commit that is accepted still extends its catalog (CatalogPublisher.publish).
THEOREM StagesSafe == Spec => []StageInv
<1>1. Init => StageInv
    BY InitHolds
<1>2. StageInv /\ [Next]_vars => StageInv'
    BY DiskStep, FollowsStep, CallsStep DEF StageInv
<1> QED BY <1>1, <1>2, PTL DEF Spec

\* A list of n records.
HasLength(s, n) == n \in Nat /\ DOMAIN s = 1 .. n /\ s = [k \in 1 .. n |-> s[k]]

LEMMA LengthIs ==
    ASSUME NEW s, NEW n, HasLength(s, n)
    PROVE  Len(s) = n
<1>1. \A k \in 1 .. n : s[k] \in {s[j] : j \in 1 .. n}
    OBVIOUS
<1>2. [k \in 1 .. n |-> s[k]] \in Seq({s[j] : j \in 1 .. n})
    BY <1>1, IsASeq DEF HasLength
<1>3. s \in Seq({s[j] : j \in 1 .. n})
    BY <1>2 DEF HasLength
<1> QED BY <1>3, LenProperties DEF HasLength

\* A list that has the records of another at every position of it begins with it.
LEMMA PrefixIs ==
    ASSUME NEW s, NEW t, NEW m, NEW n, HasLength(s, m), HasLength(t, n), m <= n,
           \A k \in 1 .. m : s[k] = t[k]
    PROVE  IsPrefix(s, t)
<1>1. Len(s) = m /\ Len(t) = n
    BY LengthIs
<1>2. SubSeq(s, 1, m) = SubSeq(t, 1, m)
    <2>1. SubSeq(s, 1, m) = [k \in 1 .. m |-> s[k]] /\ SubSeq(t, 1, m) = [k \in 1 .. m |-> t[k]]
        BY <1>1 DEF HasLength
    <2> QED BY <2>1
<1> QED BY <1>1, <1>2 DEF IsPrefix

LEMMA FollowsAligns ==
    ASSUME StageInv
    PROVE  StagesAligned
<1> SUFFICES ASSUME NEW s \in {"translation", "tts"}
             PROVE  /\ IsPrefix(Records(s), Records(Upstream(s)))
                    /\ PendingSamples(catalog[Upstream(s)], catalog[s]) >= 0
                    /\ catalog[s].sealed =>
                        /\ catalog[Upstream(s)].sealed
                        /\ PendingSamples(catalog[Upstream(s)], catalog[s]) = 0
    BY DEF StagesAligned
<1> DEFINE c == catalog[s]
           up == catalog[Upstream(s)]
           m == SampleCount(c)
           n == SampleCount(up)
<1>1. m \in Nat /\ n \in Nat
    BY StageFacts, CountIs DEF StageInv, DiskHolds, Stages
<1>2. /\ m <= n
      /\ \A k \in 1 .. m : RecordAt(indexes, c, k) = RecordAt(indexes, up, k)
      /\ c.sealed => up.sealed /\ m = n
    BY DEF StageInv, Follows, StageFollows
<1>3. PendingSamples(up, c) = n - m
    BY DEF PendingSamples
<1>4. /\ Records(s) = [k \in 1 .. m - 0 |-> RecordAt(indexes, c, 0 + k)]
      /\ Records(Upstream(s)) = [k \in 1 .. n - 0 |-> RecordAt(indexes, up, 0 + k)]
    BY DEF Records, AllRecords, CatalogRecords
<1> HIDE DEF m, n, c, up
<1>5. /\ Records(s) = [k \in 1 .. m |-> RecordAt(indexes, c, k)]
      /\ Records(Upstream(s)) = [k \in 1 .. n |-> RecordAt(indexes, up, k)]
    BY <1>1, <1>4
<1>6. IsPrefix(Records(s), Records(Upstream(s)))
    <2>1. HasLength(Records(s), m) /\ HasLength(Records(Upstream(s)), n)
        BY <1>1, <1>5 DEF HasLength
    <2>2. \A k \in 1 .. m : Records(s)[k] = Records(Upstream(s))[k]
        BY <1>1, <1>2, <1>5
    <2> QED BY <1>2, <2>1, <2>2, PrefixIs
<1> QED BY <1>1, <1>2, <1>3, <1>6 DEF c, up

\* StagesAligned for any publishers of any configurations: each stage is a prefix of
\* the one above it, record by record, with a backlog that is never negative, and a
\* sealed stage is a whole copy of a sealed one (StagePublisher.open_input, publish
\* and seal, against racing publishers and crashes).
THEOREM AlignedSafe == Spec => []StagesAligned
BY StagesSafe, FollowsAligns, PTL

-----------------------------------------------------------------------------
(* Every stage with its followers is a published prefix.                   *)

\* A stage as its followers see it, and what they have pinned of it.
ReadersOf(s) == IF s = "source" THEN Translators ELSE Synthesizers
Log(s) == Ranges(catalog[s])
HeldOf(s) == [p \in ReadersOf(s) |-> Held(p)]

LogEnd(log) == IF log = <<>> THEN 0 ELSE log[Len(log)].stop

\* The steps of PublishedPrefix, for stage s.
Publishes(s) ==
    /\ ~catalog[s].sealed
    /\ Len(Log(s)') = Len(Log(s)) + 1
    /\ \A k \in DOMAIN Log(s) : Log(s)'[k] = Log(s)[k]
    /\ Log(s)'[Len(Log(s)')].start = LogEnd(Log(s))
    /\ Log(s)'[Len(Log(s)')].stop > LogEnd(Log(s))
    /\ catalog'[s].sealed = catalog[s].sealed
    /\ HeldOf(s)' = HeldOf(s)

Finalizes(s) ==
    /\ catalog'[s].sealed = TRUE
    /\ Log(s)' = Log(s)
    /\ HeldOf(s)' = HeldOf(s)

Now(s) == [entries |-> Log(s), sealed |-> catalog[s].sealed]

Moves(s, r) ==
    /\ HeldOf(s)' \in {[HeldOf(s) EXCEPT ![r] = Now(s)], [HeldOf(s) EXCEPT ![r] = Unknown]}
    /\ Log(s)' = Log(s) /\ catalog'[s].sealed = catalog[s].sealed

Rests(s) ==
    /\ Log(s)' = Log(s) /\ catalog'[s].sealed = catalog[s].sealed
    /\ HeldOf(s)' = HeldOf(s)

LEMMA RangesAre ==
    ASSUME NEW c, IsCatalog(c)
    PROVE  /\ Len(Ranges(c)) = Len(c.entries)
           /\ DOMAIN Ranges(c) = 1 .. Len(c.entries)
           /\ \A k \in 1 .. Len(c.entries) :
                Ranges(c)[k] = [start |-> c.entries[k].start,
                                stop |-> c.entries[k].start + c.entries[k].count]
           /\ LogEnd(Ranges(c)) = SampleCount(c)
           /\ Len(c.entries) = 0 => Ranges(c) = <<>>
<1> DEFINE n == Len(c.entries)
           R(k) == [start |-> c.entries[k].start, stop |-> c.entries[k].start + c.entries[k].count]
<1>0. /\ n \in Nat /\ DOMAIN c.entries = 1 .. n
      /\ SampleCount(c) = EndsBefore(c.entries, n + 1)
    BY CountIs, ListFacts DEF IsCatalog
<1>1. Ranges(c) = [k \in 1 .. n |-> R(k)]
    BY <1>0 DEF Ranges
<1>2. Ranges(c) \in Seq({R(k) : k \in 1 .. n})
    BY <1>0, <1>1, IsASeq
<1>3. DOMAIN Ranges(c) = 1 .. n /\ \A k \in 1 .. n : Ranges(c)[k] = R(k)
    BY <1>1
<1> HIDE DEF n
<1>4. Len(Ranges(c)) = n /\ (n = 0 <=> Ranges(c) = <<>>)
    BY <1>0, <1>2, <1>3, LenProperties, EmptySeq
<1>5. LogEnd(Ranges(c)) = SampleCount(c)
    <2>1. CASE n = 0
        BY <1>0, <1>4, <2>1 DEF LogEnd, EndsBefore
    <2>2. CASE n # 0
        <3>1. n \in 1 .. n /\ n + 1 # 1 /\ (n + 1) - 1 = n
            BY <1>0, <2>2
        <3>2. LogEnd(Ranges(c)) = R(n).stop
            BY <1>3, <1>4, <2>2, <3>1 DEF LogEnd
        <3> QED BY <1>0, <3>1, <3>2 DEF EndsBefore
    <2> QED BY <2>1, <2>2
<1> QED BY <1>0, <1>3, <1>4, <1>5 DEF n

\* An accepted commit is one more segment, where the stage ended.
LEMMA CommitPublishes ==
    ASSUME StageInv, NEW p \in Processes, WriteCatalog(p), NEW s, s = StageOf(p),
           HeldOf(s)' = HeldOf(s)
    PROVE  Publishes(s)
<1> DEFINE c == catalog[s]
           d == catalog'[s]
           n == Len(c.entries)
<1>1. /\ Grows(c, d) /\ ~c.sealed /\ ~d.sealed
      /\ SampleCount(d) = SampleCount(c) + Len(call[p].manifest.records)
      /\ Len(call[p].manifest.records) \in Nat \ {0}
    BY WriteCatalogIs
<1>2. IsCatalog(c) /\ IsCatalog(d) /\ Begins(c, d)
    BY <1>1 DEF Grows
<1>3. /\ n \in Nat /\ SampleCount(c) \in Nat /\ SampleCount(d) \in Nat
      /\ SampleCount(c) = EndsBefore(c.entries, n + 1)
    BY <1>2, CountIs
<1>4. Len(d.entries) = n + 1
    <2>1. s \in Stages /\ DOMAIN catalog = Stages
        BY StageFacts DEF StageInv, DiskHolds
    <2>2. d.entries = Append(c.entries, NewEntry(c, call[p].manifest))
        BY <2>1 DEF WriteCatalog
    <2> QED BY <1>2, <2>2, ListAppend DEF IsCatalog
<1>5. SampleCount(d) = EndsBefore(d.entries, n + 2)
    BY <1>2, <1>3, <1>4, CountIs
<1>6. \A k \in 1 .. n : d.entries[k] = c.entries[k]
    BY <1>2 DEF Begins
<1>7. EndsBefore(d.entries, n + 1) = EndsBefore(c.entries, n + 1)
    BY <1>3, <1>6 DEF EndsBefore
<1>8. d.entries[n + 1].start = SampleCount(c)
    BY <1>2, <1>3, <1>4, <1>7 DEF IsCatalog
<1>9. d.entries[n + 1].start + d.entries[n + 1].count = SampleCount(d)
    BY <1>3, <1>5 DEF EndsBefore
<1> HIDE DEF c, d, n
<1>10. /\ Len(Ranges(c)) = n /\ DOMAIN Ranges(c) = 1 .. n /\ LogEnd(Ranges(c)) = SampleCount(c)
       /\ \A k \in 1 .. n : Ranges(c)[k] = [start |-> c.entries[k].start,
                                            stop |-> c.entries[k].start + c.entries[k].count]
    BY <1>2, RangesAre DEF n
<1>11. /\ Len(Ranges(d)) = n + 1
       /\ \A k \in 1 .. n + 1 : Ranges(d)[k] = [start |-> d.entries[k].start,
                                                stop |-> d.entries[k].start + d.entries[k].count]
    BY <1>2, <1>4, RangesAre
<1>12. \A k \in 1 .. n : Ranges(d)[k] = Ranges(c)[k]
    BY <1>3, <1>6, <1>10, <1>11
<1>13. Ranges(d)[n + 1].start = SampleCount(c) /\ Ranges(d)[n + 1].stop = SampleCount(d)
    BY <1>3, <1>8, <1>9, <1>11
<1>14. SampleCount(d) > SampleCount(c)
    BY <1>1, <1>3
<1>15. Log(s) = Ranges(c) /\ Log(s)' = Ranges(d)
    BY DEF Log, c, d
<1>16. c.sealed = FALSE /\ d.sealed = FALSE
    BY <1>1, <1>2 DEF IsCatalog
<1> QED BY <1>10, <1>11, <1>12, <1>13, <1>14, <1>15, <1>16 DEF Publishes, c, d

LEMMA SealFinalizes ==
    ASSUME StageInv, NEW p \in Processes, Seal(p), NEW s, s = StageOf(p),
           HeldOf(s)' = HeldOf(s)
    PROVE  Finalizes(s) \/ Rests(s)
<1> DEFINE c == catalog[s]
           d == catalog'[s]
<1>1. Grows(c, d) /\ d.entries = c.entries
    BY SealIs
<1>2. c.sealed \in BOOLEAN /\ d.sealed \in BOOLEAN
    BY <1>1 DEF Grows, IsCatalog
<1>3. Log(s)' = Log(s)
    BY <1>1 DEF Log, Ranges
<1>4. c.sealed => d.sealed
    BY <1>1 DEF Grows
<1> QED BY <1>2, <1>3, <1>4 DEF Finalizes, Rests

\* What a step of p does to the input p has pinned.
LEMMA HeldMoves ==
    ASSUME StageInv, NEW p \in Followers,
           LoadOwn(p) \/ OpenInput(p) \/ Publish(p) \/ Commitment(p)
    PROVE  \/ Held(p)' = Held(p)
           \/ Held(p)' = Unknown
           \/ Held(p)' = Now(Upstream(StageOf(p)))
<1>0. /\ p \in Processes /\ p \notin Growers
      /\ DOMAIN call = Processes /\ DOMAIN call[p] = CallFields
    BY StageFacts DEF StageInv, CallsHold, Processes
<1>1. CASE Return(p)
    <2>1. call'[p].input = Failed
        BY <1>0, <1>1 DEF Return, NoCall
    <2> QED BY <2>1 DEF Held
<1>2. CASE call'[p].input = call[p].input
    BY <1>2 DEF Held
<1>3. CASE OpenInput(p) /\ ~Return(p)
    <2> DEFINE up == catalog[Upstream(StageOf(p))]
    <2>1. SampleCount(call[p].own) # SampleCount(up)
        BY <1>3 DEF OpenInput
    <2>2. DOMAIN call'[p].input = InputFields
        BY <1>3, <2>1, OpenInputPins DEF InputHolds
    <2>3. call'[p].input # Failed
        BY <2>2 DEF InputFields, Failed
    <2> DEFINE Pinned(stop) ==
                 [start     |-> SampleCount(call[p].own),
                  stop      |-> stop,
                  records   |-> CatalogRecords(indexes, up, SampleCount(call[p].own), stop),
                  catalog   |-> up,
                  watermark |-> Watermark(up, stop)]
    <2>4. \E stop : call' = [call EXCEPT ![p].input = Pinned(stop)]
        BY <1>3, <2>1 DEF OpenInput
    <2>5. call'[p].input.catalog = up
        <3>1. PICK stop : call' = [call EXCEPT ![p].input = Pinned(stop)]
            BY <2>4
        <3>2. call'[p].input = Pinned(stop)
            BY <1>0, <3>1 DEF CallFields
        <3> QED BY <3>2
    <2> QED BY <2>3, <2>5 DEF Held, Now, Log
<1>4. LoadOwn(p) \/ Publish(p) => Return(p) \/ call'[p].input = call[p].input
    BY <1>0 DEF LoadOwn, Publish, CallFields
<1>5. Commitment(p) => Return(p) \/ call' = call
    BY <1>0 DEF Commitment, LockTimeout, RepeatCommit, RefuseCommit, WriteIndex, WriteCatalog,
       CheckSeal, Seal, Crash
<1> QED BY <1>1, <1>2, <1>3, <1>4, <1>5

LEMMA HeldStays ==
    ASSUME NEW p, call'[p] = call[p]
    PROVE  Held(p)' = Held(p)
BY DEF Held

\* A step of a process that does not read s leaves the inputs pinned of s alone.
LEMMA HeldOfStays ==
    ASSUME NEW s \in {"source", "translation"}, NEW p, p \notin ReadersOf(s), OnlyOf(p)
    PROVE  HeldOf(s)' = HeldOf(s)
<1>1. ReadersOf(s) \subseteq Processes
    BY DEF ReadersOf, Processes, Followers
<1>2. \A q \in ReadersOf(s) : Held(q)' = Held(q)
    BY <1>1, HeldStays DEF OnlyOf
<1> QED BY <1>2 DEF HeldOf

LEMMA ReaderMoves ==
    ASSUME NEW s \in {"source", "translation"}, NEW p \in ReadersOf(s), OnlyOf(p),
           catalog'[s] = catalog[s],
           Held(p)' = Held(p) \/ Held(p)' = Unknown \/ Held(p)' = Now(s)
    PROVE  Rests(s) \/ Moves(s, p)
<1>1. ReadersOf(s) \subseteq Processes
    BY DEF ReadersOf, Processes, Followers
<1>2. \A q \in ReadersOf(s) \ {p} : Held(q)' = Held(q)
    BY <1>1, HeldStays DEF OnlyOf
<1>3. HeldOf(s)' = [HeldOf(s) EXCEPT ![p] = Held(p)']
    BY <1>2 DEF HeldOf
<1>4. Held(p)' = Held(p) => HeldOf(s)' = HeldOf(s)
    BY <1>2 DEF HeldOf
<1>5. Log(s)' = Log(s)
    BY DEF Log
<1> QED BY <1>3, <1>4, <1>5 DEF Rests, Moves

LEMMA StageStep ==
    ASSUME StageInv, [Next]_vars, NEW s \in {"source", "translation"}
    PROVE  Publishes(s) \/ Finalizes(s) \/ Rests(s) \/ \E r \in ReadersOf(s) : Moves(s, r)
<1>0. s \in Stages /\ DOMAIN catalog = Stages
    BY DEF Stages, StageInv, DiskHolds
<1>1. CASE UNCHANGED <<catalog, indexes, lock, pc, call>>
    <2>1. HeldOf(s)' = HeldOf(s)
        BY <1>1 DEF HeldOf, Held
    <2> QED BY <1>1, <2>1 DEF Rests, Log
<1>2. ASSUME NEW p \in Processes, OnlyOf(p), UNCHANGED catalog, p \notin ReadersOf(s)
      PROVE  Rests(s)
    BY <1>2, HeldOfStays DEF Rests, Log
<1>3. ASSUME NEW p \in Growers, Plan(p) \/ PublishSource(p) \/ Save(p)
      PROVE  Rests(s)
    <2>1. p \in Processes /\ p \notin ReadersOf(s)
        BY StageFacts DEF Processes, ReadersOf, Followers
    <2>2. UNCHANGED catalog
        BY <1>3 DEF Plan, PublishSource, Save, disk
    <2> QED BY <1>2, <1>3, <2>1, <2>2, GrowStep
<1>4. ASSUME NEW p \in Followers, p \in ReadersOf(s), OnlyOf(p),
             LoadOwn(p) \/ OpenInput(p) \/ Publish(p) \/ Commitment(p)
      PROVE  Rests(s) \/ \E r \in ReadersOf(s) : Moves(s, r)
    <2>1. Upstream(StageOf(p)) = s /\ StageOf(p) # s /\ p \in Processes
        BY <1>4, StageFacts DEF ReadersOf, Upstream, Processes
    <2>2. catalog'[s] = catalog[s]
        <3>1. CASE WriteCatalog(p) \/ Seal(p)
            <4>1. CatalogMoves(p, catalog'[StageOf(p)])
                BY <2>1, <3>1, WriteCatalogIs, SealIs
            <4> QED BY <1>0, <2>1, <4>1 DEF CatalogMoves
        <3>2. CASE ~(WriteCatalog(p) \/ Seal(p))
            BY <1>4, <3>2 DEF LoadOwn, OpenInput, Publish, Commitment, LockTimeout, RepeatCommit,
               RefuseCommit, WriteIndex, CheckSeal, Crash, disk
        <3> QED BY <3>1, <3>2
    <2> QED BY <1>4, <2>1, <2>2, HeldMoves, ReaderMoves
<1>5. ASSUME NEW p \in Followers, LoadOwn(p) \/ OpenInput(p) \/ Publish(p)
      PROVE  Rests(s) \/ \E r \in ReadersOf(s) : Moves(s, r)
    <2>1. OnlyOf(p) /\ UNCHANGED catalog /\ p \in Processes
        BY <1>5, FollowStep DEF LoadOwn, OpenInput, Publish, disk, Processes
    <2> QED BY <1>2, <1>4, <1>5, <2>1
<1>6. ASSUME NEW p \in Processes, Commitment(p)
      PROVE  Publishes(s) \/ Finalizes(s) \/ Rests(s) \/ \E r \in ReadersOf(s) : Moves(s, r)
    <2>1. OnlyOf(p)
        BY <1>6, CommitmentStep
    <2>2. CASE p \in ReadersOf(s)
        <3>1. p \in Followers
            BY <2>2 DEF ReadersOf, Followers
        <3> QED BY <1>4, <1>6, <2>1, <2>2, <3>1
    <2>3. CASE p \notin ReadersOf(s)
        <3>1. HeldOf(s)' = HeldOf(s)
            BY <2>1, <2>3, HeldOfStays
        <3>2. CASE (WriteCatalog(p) \/ Seal(p)) /\ StageOf(p) = s
            BY <3>1, <3>2, CommitPublishes, SealFinalizes
        <3>3. CASE (WriteCatalog(p) \/ Seal(p)) /\ StageOf(p) # s
            <4>1. CatalogMoves(p, catalog'[StageOf(p)])
                BY <3>3, WriteCatalogIs, SealIs
            <4>2. catalog'[s] = catalog[s]
                BY <1>0, <3>3, <4>1 DEF CatalogMoves
            <4> QED BY <3>1, <4>2 DEF Rests, Log
        <3>4. CASE ~(WriteCatalog(p) \/ Seal(p))
            <4>1. UNCHANGED catalog
                BY <1>6, <3>4 DEF Commitment, LockTimeout, RepeatCommit, RefuseCommit, WriteIndex,
                   CheckSeal, Crash, disk
            <4> QED BY <1>2, <2>1, <2>3, <4>1
        <3> QED BY <3>2, <3>3, <3>4
    <2> QED BY <2>2, <2>3
<1> QED BY <1>1, <1>3, <1>5, <1>6, NextCases

LEMMA InitMaps ==
    ASSUME Init
    PROVE  SourcePrefix!Init /\ TranslationPrefix!Init
<1>1. \A s \in Stages : catalog[s].sealed = FALSE /\ Ranges(catalog[s]) = <<>>
    <2>1. Ranges(EmptyCatalog) = <<>> /\ EmptyCatalog.sealed = FALSE
        BY EmptyIsCatalog, RangesAre DEF EmptyCatalog
    <2> QED BY <2>1 DEF Init
<1>2. \A p \in Followers : Held(p) = Unknown
    BY DEF Init, Held, NoCall, Processes
<1> QED BY <1>1, <1>2 DEF SourcePrefix!Init, TranslationPrefix!Init, Stages, Followers

LEMMA StepMaps ==
    ASSUME StageInv, [Next]_vars
    PROVE  /\ [SourcePrefix!Next]_(SourcePrefix!vars)
           /\ [TranslationPrefix!Next]_(TranslationPrefix!vars)
<1>1. [SourcePrefix!Next]_(SourcePrefix!vars)
    <2>1. \/ Publishes("source") \/ Finalizes("source") \/ Rests("source")
          \/ \E r \in Translators : Moves("source", r)
        BY StageStep DEF ReadersOf
    <2>2. Publishes("source") => SourcePrefix!Publish
        BY DEF Publishes, SourcePrefix!Publish, SourcePrefix!End, LogEnd, Log, HeldOf, ReadersOf
    <2>3. Finalizes("source") => SourcePrefix!Finalize
        BY DEF Finalizes, SourcePrefix!Finalize, Log, HeldOf, ReadersOf
    <2>4. Rests("source") => UNCHANGED SourcePrefix!vars
        BY DEF Rests, SourcePrefix!vars, Log, HeldOf, ReadersOf
    <2>5. \A r \in Translators : Moves("source", r) => SourcePrefix!Open(r) \/ SourcePrefix!Close(r)
        BY DEF Moves, Now, SourcePrefix!Open, SourcePrefix!Close, Log, HeldOf, ReadersOf
    <2> QED BY <2>1, <2>2, <2>3, <2>4, <2>5 DEF SourcePrefix!Next
<1>2. [TranslationPrefix!Next]_(TranslationPrefix!vars)
    <2>1. \/ Publishes("translation") \/ Finalizes("translation") \/ Rests("translation")
          \/ \E r \in Synthesizers : Moves("translation", r)
        BY StageStep DEF ReadersOf
    <2>2. Publishes("translation") => TranslationPrefix!Publish
        BY DEF Publishes, TranslationPrefix!Publish, TranslationPrefix!End, LogEnd, Log, HeldOf,
           ReadersOf
    <2>3. Finalizes("translation") => TranslationPrefix!Finalize
        BY DEF Finalizes, TranslationPrefix!Finalize, Log, HeldOf, ReadersOf
    <2>4. Rests("translation") => UNCHANGED TranslationPrefix!vars
        BY DEF Rests, TranslationPrefix!vars, Log, HeldOf, ReadersOf
    <2>5. \A r \in Synthesizers :
            Moves("translation", r) => TranslationPrefix!Open(r) \/ TranslationPrefix!Close(r)
        BY DEF Moves, Now, TranslationPrefix!Open, TranslationPrefix!Close, Log, HeldOf, ReadersOf
    <2> QED BY <2>1, <2>2, <2>3, <2>4, <2>5 DEF TranslationPrefix!Next
<1> QED BY <1>1, <1>2

\* StagesArePrefixes for any publishers of any configurations: the sources with their
\* translators, and the translations with their synthesizers, each implement
\* PublishedPrefix.  A stage grows by whole adjoining entries and not once it is sealed,
\* and what a follower has pinned is the stage as it was at one moment.
THEOREM PrefixesImplemented == Spec => StagesArePrefixes
<1>1. Init => SourcePrefix!Init /\ TranslationPrefix!Init
    BY InitMaps
<1>2. StageInv /\ [Next]_vars => /\ [SourcePrefix!Next]_(SourcePrefix!vars)
                                 /\ [TranslationPrefix!Next]_(TranslationPrefix!vars)
    BY StepMaps
<1> QED BY <1>1, <1>2, StagesSafe, PTL
        DEF Spec, StagesArePrefixes, SourcePrefix!Spec, TranslationPrefix!Spec
=============================================================================
