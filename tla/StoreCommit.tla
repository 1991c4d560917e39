---------------------------- MODULE StoreCommit ----------------------------
(***************************************************************************)
(* Stores and how they are put together: fragments and parts are merged by *)
(* sample index into parts and canonical stores, view manifests and payload*)
(* shards along with the samples.  All of it is a pure function of the     *)
(* stores that are read; Failed stands for every exception.                *)
(*                                                                         *)
(* A view stands for an item and its only view, a payload for its key.     *)
(*   store.prov     provenance of the manifest                             *)
(*   store.samples  the sample manifest: index and views of each sample    *)
(*   store.views    view -> its manifest: index, shard and payload key     *)
(*   store.shards   <<view, shard>> -> the payload keys of the archive     *)
(***************************************************************************)
EXTENDS Integers, Sequences, FiniteSets, SequencesExt, Functions

CONSTANTS
    Failed,      \* an exception
    Every,       \* "no bound": None where a count is optional
    FanIn,       \* _MERGE_FAN_IN
    ViewsOf(_),  \* the views of the sample with this index
    MaxIndex     \* bound: largest sample index

ASSUME FanInAssumption == FanIn \in Nat /\ FanIn > 1

Slice(seq, shard, n) == [k \in 1 .. (Len(seq) - shard + n - 1) \div n |->
                            seq[shard + 1 + (k - 1) * n]]
Chunks(seq, size) == [k \in 1 .. (Len(seq) + size - 1) \div size |->
                        SubSeq(seq, (k - 1) * size + 1,
                               IF k * size < Len(seq) THEN k * size ELSE Len(seq))]

-----------------------------------------------------------------------------
(* Writing one store.                                                      *)

\* ViewWriter: a shard is rolled when it holds max payloads.
ViewManifest(prefix, max, payloads) ==
    [k \in DOMAIN payloads |->
        [index |-> payloads[k].index,
         shard |-> <<prefix, IF max = Every THEN 0 ELSE (k - 1) \div max>>,
         key   |-> payloads[k].key]]

\* The archives a view manifest was written along with.
WrittenShards(view, manifest) ==
    [s \in {<<view, e.shard>> : e \in ToSet(manifest)} |->
        {e.key : e \in {d \in ToSet(manifest) : d.shard = s[2]}}]

AllShards(manifests) ==
    [s \in UNION {DOMAIN WrittenShards(v, manifests[v]) : v \in DOMAIN manifests} |->
        WrittenShards(s[1], manifests[s[1]])[s]]

\* The manifests of the views of these samples, with a payload key that names
\* the index.
WrittenViews(indexes, prefix, max) ==
    LET Payload(i) == [index |-> i, key |-> i]
        Payloads(v) == SelectSeq([k \in DOMAIN indexes |-> Payload(indexes[k])],
                                 LAMBDA p : v \in ViewsOf(p.index))
    IN [v \in UNION {ViewsOf(i) : i \in ToSet(indexes)} |->
            ViewManifest(prefix, max, Payloads(v))]

NewStore(prov, samples, manifests) ==
    [prov |-> prov, samples |-> samples, views |-> manifests,
     shards |-> AllShards(manifests)]

\* write_sample_records
WrittenStore(indexes, prov, prefix, max) ==
    IF \/ \E j, k \in DOMAIN indexes : j < k /\ indexes[j] >= indexes[k]
       \/ \E i \in ToSet(indexes) : ViewsOf(i) = {}
    THEN Failed
    ELSE NewStore(prov,
                  [k \in DOMAIN indexes |->
                      [index |-> indexes[k], views |-> ViewsOf(indexes[k])]],
                  WrittenViews(indexes, prefix, max))

\* validate_store_payloads: every referenced payload is in its archive and
\* every archive holds nothing else.
PayloadsAreWhole(store) ==
    \A v \in DOMAIN store.views :
        LET entries == ToSet(store.views[v]) IN
        /\ Cardinality({<<e.shard, e.key>> : e \in entries}) = Len(store.views[v])
        /\ \A e \in entries :
            /\ <<v, e.shard>> \in DOMAIN store.shards
            /\ store.shards[<<v, e.shard>>]
                = {d.key : d \in {c \in entries : c.shard = e.shard}}

-----------------------------------------------------------------------------
(* Merging stores.                                                         *)

\* _merged_iterators: entries of all sequences by index, equal ones in the
\* order of their sequences.
Merged(sequences) ==
    FlattenSeq([i \in 1 .. MaxIndex + 1 |->
        FlattenSeq([k \in DOMAIN sequences |->
            SelectSeq(sequences[k], LAMBDA e : e.index = i - 1)])])

NoDuplicates(entries) == IsInjective([k \in DOMAIN entries |-> entries[k].index])

\* The sample entries that a merge reads before it stops.
SamplesRead(stores, opt) ==
    SelectSeq(Merged([k \in DOMAIN stores |-> stores[k].samples]),
              LAMBDA e : \/ opt.expected = Every
                         \/ e.index < opt.start + opt.expected)

SamplesKept(kept, opt) ==
    IF \/ opt.dense /\ \E k \in DOMAIN kept : kept[k].index # opt.start + k - 1
       \/ opt.expected # Every /\ Len(kept) # opt.expected
    THEN Failed
    ELSE [k \in DOMAIN kept |->
             IF opt.dense THEN [kept[k] EXCEPT !.index = k - 1] ELSE kept[k]]

\* _write_ordered_samples_manifest
OrderedSamples(read, opt) ==
    IF ~NoDuplicates(read) THEN Failed
    ELSE SamplesKept(SelectSeq(read, LAMBDA e : e.index >= opt.start), opt)

\* All entries of a view, each with the store that holds it.
MergedView(stores, view) ==
    LET Entries(s) == [e \in DOMAIN s.views[view] |-> s.views[view][e] @@ [store |-> s]]
        holders    == SelectSeq(stores, LAMBDA s : view \in DOMAIN s.views)
    IN Merged([k \in DOMAIN holders |-> Entries(holders[k])])

\* The entries a merge reads: those up to the last one that is wanted.
ReadEntries(merged, wanted, start) ==
    SelectSeq(merged, LAMBDA e : wanted # <<>> /\ e.index <= start + Last(wanted).index)

EntriesFor(read, wanted, start) ==
    LET Of(w) == SelectSeq(read, LAMBDA e : e.index = start + w.index)
    IN IF ~NoDuplicates(read) \/ \E w \in ToSet(wanted) : Of(w) = <<>> THEN Failed
       ELSE [k \in DOMAIN wanted |-> [Of(wanted[k])[1] EXCEPT !.index = wanted[k].index]]

\* The entries of a view for the samples of the new store, in their order;
\* every sample that has the view must have an entry.
ViewEntries(merged, wanted, start) ==
    IF start = 0 /\ wanted = <<>> /\ merged # <<>> THEN Failed
    ELSE EntriesFor(ReadEntries(merged, wanted, start), wanted, start)

\* Whether two of the stores hold an archive of the same name that is needed.
ShardsCollide(stores, view, entries) ==
    \E e \in ToSet(entries) :
        Cardinality({k \in DOMAIN stores : <<view, e.shard>> \in DOMAIN stores[k].shards}) > 1

\* _write_ordered_view_manifest and _copy_view_shards keep the archives as they
\* are; _write_repacked_view_manifest writes the payloads into new ones.
NewView(view, manifest) ==
    [manifest |-> manifest, shards |-> WrittenShards(view, manifest)]

CommittedView(stores, view, entries, opt) ==
    IF entries = Failed THEN Failed
    ELSE IF opt.repack # Every THEN NewView(view, ViewManifest(opt.prefix, opt.repack, entries))
    ELSE IF ShardsCollide(stores, view, entries) THEN Failed
    ELSE [manifest |-> [k \in DOMAIN entries |->
                          [index |-> entries[k].index, shard |-> entries[k].shard,
                           key |-> entries[k].key]],
          shards   |-> [s \in {<<view, e.shard>> : e \in ToSet(entries)} |->
                          (CHOOSE e \in ToSet(entries) : e.shard = s[2]).store.shards[s]]]

\* _store_views
StoreViews(stores) == UNION {DOMAIN stores[k].views : k \in DOMAIN stores}

MergedStore(prov, samples, views) ==
    IF \E v \in DOMAIN views : views[v] = Failed THEN Failed
    ELSE [prov    |-> prov,
          samples |-> samples,
          views   |-> [v \in DOMAIN views |-> views[v].manifest],
          shards  |-> [s \in UNION {DOMAIN views[v].shards : v \in DOMAIN views} |->
                         views[s[1]].shards[s]]]

CommitSamples(stores, samples, opt) ==
    IF samples = Failed THEN Failed ELSE
    LET Holding(v) == SelectSeq(samples, LAMBDA s : v \in s.views)
    IN MergedStore(opt.prov, samples,
         [v \in StoreViews(stores) |->
             CommittedView(stores, v,
                 ViewEntries(MergedView(stores, v), Holding(v), opt.start), opt)])

\* _commit_roots_to_tmp
CommitRoots(stores, opt) ==
    IF Failed \in ToSet(stores) THEN Failed
    ELSE CommitSamples(stores, OrderedSamples(SamplesRead(stores, opt), opt), opt)

Plainly(prov) ==
    [expected |-> Every, start |-> 0, dense |-> FALSE, repack |-> Every,
     prefix |-> <<>>, prov |-> prov]

\* Mutant: a level of merging drops the last, shorter batch.
MergeLevelFloor(stores, prov) ==
    [k \in 1 .. Len(stores) \div FanIn |->
        CommitRoots(Chunks(stores, FanIn)[k], Plainly(prov))]

\* One level of merging.
MergeLevel(stores, prov) ==
    [k \in DOMAIN Chunks(stores, FanIn) |->
        CommitRoots(Chunks(stores, FanIn)[k], Plainly(prov))]

\* _bounded_store_roots: merge runs of FanIn stores until FanIn are left.
BoundedRoots(stores, prov) ==
    FoldLeft(LAMBDA s, k : IF Len(s) <= FanIn THEN s ELSE MergeLevel(s, prov),
             stores, stores)

\* _common_provenance and _commit_provenance, with explicit provenance.
ProvenanceAgrees(stores, prov) == \A k \in DOMAIN stores : stores[k].prov = prov

-----------------------------------------------------------------------------
(* Fragments and parts.  A fragment is named after its indexes.            *)

\* compact_completed_fragment_indexes
CompletedIndexes(fragments, expected) ==
    LET all == UNION {ToSet(f.indexes) : f \in fragments} IN
    IF \/ \E i \in all : i >= expected
       \/ \E f, g \in fragments : f # g /\ ToSet(f.indexes) \cap ToSet(g.indexes) # {}
    THEN Failed ELSE all

\* _materializer_fragment_sort_key: first index, then name.
FragmentOrder(f, g) ==
    \/ Head(f.indexes) < Head(g.indexes)
    \/ Head(f.indexes) = Head(g.indexes) /\ Last(f.indexes) < Last(g.indexes)

\* store_fragments
StoreFragments(fragments) == SetToSortSeq(fragments, FragmentOrder)
FragmentSlice(fragments, shard, n) == Slice(StoreFragments(fragments), shard, n)

StoresOf(fragments) == [k \in DOMAIN fragments |-> fragments[k].store]

\* commit_store_fragments
CommitFragments(fragments, expected, start, max, prov) ==
    LET stores == StoresOf(StoreFragments(fragments)) IN
    IF \/ fragments = {}
       \/ ~ProvenanceAgrees(stores, prov)
       \/ \E k \in DOMAIN stores : ~PayloadsAreWhole(stores[k])
    THEN Failed
    ELSE CommitRoots(BoundedRoots(stores, prov),
                     [expected |-> expected, start |-> start, dense |-> TRUE, repack |-> max,
                      prefix |-> <<"part", 0>>, prov |-> prov])

\* commit_fragment_part
CommitFragmentPart(fragments, shard, max, prov) ==
    LET stores == StoresOf(fragments)
        prefix == <<"part", shard>>
    IN IF ~ProvenanceAgrees(stores, prov) THEN Failed
       ELSE IF stores = <<>> THEN WrittenStore(<<>>, prov, prefix, max)
       ELSE CommitRoots(BoundedRoots(stores, prov),
                        [Plainly(prov) EXCEPT !.repack = max, !.prefix = prefix])

\* _validate_parts: the parts name one number of shards and every shard once.
PartsAreComplete(parts) ==
    /\ \A p, q \in parts : p.shards = q.shards /\ (p.shard = q.shard => p = q)
    /\ \A p \in parts : {q.shard : q \in parts} = 0 .. p.shards - 1

\* commit_store_parts
CommitParts(parts, prov) ==
    LET ordered == SetToSortSeq(parts, LAMBDA p, q : p.shard < q.shard)
        stores  == StoresOf(ordered)
    IN IF \/ parts = {}
          \/ ~PartsAreComplete(parts)
          \/ ~ProvenanceAgrees(stores, prov)
          \/ \E k \in DOMAIN stores : ~PayloadsAreWhole(stores[k])
       THEN Failed
       ELSE CommitRoots(BoundedRoots(stores, prov),
                        [Plainly(prov) EXCEPT !.dense = TRUE])

-----------------------------------------------------------------------------
(* The sidecar with the payload groups of a store.                         *)

\* payload_key: which archives a sample is read from.
PayloadKey(store, index) ==
    UNION {{<<v, e.shard>> : e \in {d \in ToSet(store.views[v]) : d.index = index}} :
           v \in DOMAIN store.views}

\* _append_index: indexes as runs of equal steps.
AppendIndex(runs, index) ==
    LET run == Last(runs) IN
    IF runs = <<>> THEN <<[start |-> index, step |-> 1, count |-> 1]>>
    ELSE IF run.count = 1
    THEN Append(Front(runs), [run EXCEPT !.step = index - run.start, !.count = 2])
    ELSE IF index = run.start + run.step * run.count
    THEN Append(Front(runs), [run EXCEPT !.count = @ + 1])
    ELSE Append(runs, [start |-> index, step |-> 1, count |-> 1])

\* _manifest_groups: payload key -> the runs of its samples.
PayloadGroups(store) ==
    LET indexes == [k \in DOMAIN store.samples |-> store.samples[k].index]
    IN [key \in {PayloadKey(store, i) : i \in ToSet(indexes)} |->
          FoldLeft(AppendIndex, <<>>,
                   SelectSeq(indexes, LAMBDA i : PayloadKey(store, i) = key))]

\* _bucket_indexes
BucketIndexes(runs) ==
    FlattenSeq([r \in DOMAIN runs |->
        [k \in 1 .. runs[r].count |-> runs[r].start + runs[r].step * (k - 1)]])

\* _covers_dense_indexes
CoversDense(groups, count) ==
    /\ \A i \in 0 .. count - 1 :
        /\ \E key \in DOMAIN groups : i \in ToSet(BucketIndexes(groups[key]))
        /\ \A key, other \in DOMAIN groups :
            \A j \in DOMAIN BucketIndexes(groups[key]), k \in DOMAIN BucketIndexes(groups[other]) :
                BucketIndexes(groups[key])[j] = i /\ BucketIndexes(groups[other])[k] = i
                    => key = other /\ j = k
    /\ \A key \in DOMAIN groups : \A i \in ToSet(BucketIndexes(groups[key])) : i < count

\* ordered_payload_groups: ranges of neighbours that share their archives.
OrderedGroups(groups, count) ==
    LET KeyOf(i) == CHOOSE key \in DOMAIN groups : i \in ToSet(BucketIndexes(groups[key]))
        Extend(ranges, i) ==
            IF ranges # <<>> /\ Last(ranges).stop = i /\ Last(ranges).key = KeyOf(i)
            THEN Append(Front(ranges), [Last(ranges) EXCEPT !.stop = i + 1])
            ELSE Append(ranges, [start |-> i, stop |-> i + 1, key |-> KeyOf(i)])
    IN FoldLeft(Extend, <<>>, [k \in 1 .. count |-> k - 1])
=============================================================================
