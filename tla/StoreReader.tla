---------------------------- MODULE StoreReader ----------------------------
(***************************************************************************)
(* A store that is read while it may be rebuilt at its path: the opening   *)
(* of a StoreDataset, its reads of the sample manifest, of one view        *)
(* manifest and of the payload shards, and the caches that carry row       *)
(* groups, indexes and open archives from one read to the next             *)
(* (store/reader.py, store/manifest, store/payload/archive.py).  A reader  *)
(* is a process; a second one is forked or gets the dataset by pickle.     *)
(***************************************************************************)
EXTENDS Integers, Sequences, FiniteSets, FiniteSetsExt, SequencesExt, TLC

CONSTANTS
    Nothing,
    Readers, FirstReader,
    Stores,        \* the stores that follow each other at the path
    Requests,      \* the sequences of indexes that are asked for
    MaxRequests,   \* bound: calls of the readers together
    MaxRowGroups,  \* row groups a manifest index keeps, 2 in the code
    MaxArchives    \* max_open_shards, 8 in the code

ASSUME StoreReaderAssumption ==
    /\ FirstReader \in Readers /\ MaxRowGroups \in Nat \ {0} /\ MaxArchives \in Nat \ {0}
    /\ Requests \subseteq Seq(Int)
    /\ Len(Stores) \in Nat \ {0}
    /\ \A v \in 1 .. Len(Stores) : Len(Stores[v].samples) \in Nat

VARIABLES
    store,     \* the number of the store at the path
    markers,   \* validations on record: a count and the stat of a sample manifest
    opening,   \* reader -> the call of read_store_dataset
    dataset,   \* reader -> Nothing or its StoreDataset with the manifest caches
    archives,  \* reader -> its PayloadCache: open archives, the last used one last
    offsets,   \* open file description -> where its next read begins
    request,   \* reader -> the call of __getitems__
    answers    \* reader -> the calls that ended

rvars == <<store, markers, opening, dataset, archives, offsets, request, answers>>

At(v) == Stores[v]
Here == Stores[store]
Descriptors == 1 .. Cardinality(Readers) * (MaxArchives + 1)

\* The index of the group that a position is in, and the place the group begins.
StartOf(sizes, g) == FoldSeq(+, 0, SubSeq(sizes, 1, g - 1))
GroupOf(sizes, k) == CHOOSE g \in DOMAIN sizes :
                        StartOf(sizes, g) <= k /\ k < StartOf(sizes, g) + sizes[g]
RowsOf(rows, sizes, g) == SubSeq(rows, StartOf(sizes, g) + 1, StartOf(sizes, g) + sizes[g])

\* An OrderedDict of at most so many entries, with the newest last.
HasKey(lru, key) == \E k \in DOMAIN lru : lru[k].key = key
PlaceOf(lru, key) == CHOOSE k \in DOMAIN lru : lru[k].key = key
EntryOf(lru, key) == lru[PlaceOf(lru, key)]
Dropped(lru, key) == IF HasKey(lru, key) THEN RemoveAt(lru, PlaceOf(lru, key)) ELSE lru
Kept(lru, entry, most) ==
    LET all == Append(Dropped(lru, entry.key), entry)
    IN SubSeq(all, IF Len(all) > most THEN Len(all) - most + 1 ELSE 1, Len(all))

-----------------------------------------------------------------------------
NoStep == [pc |-> "idle"]

\* A call of __getitems__: the indexes that are wanted, and left to be read, the
\* samples read, and the shard and the archive the next one is read from.
NoRequest ==
    [pc |-> "idle", wanted |-> <<>>, since |-> 0, left |-> {}, read |-> {},
     shard |-> Nothing, opened |-> Nothing]

RInit ==
    /\ store = 1
    /\ markers = {}
    /\ opening = [r \in Readers |-> NoStep]
    /\ dataset = [r \in Readers |-> Nothing]
    /\ archives = [r \in Readers |-> [pid |-> r, opened |-> <<>>]]
    /\ offsets = [d \in Descriptors |-> 0]
    /\ request = [r \in Readers |-> NoRequest]
    /\ answers = [r \in Readers |-> <<>>]

\* The directory is removed and a new store renamed to its place.
Rebuild ==
    /\ store < Len(Stores)
    /\ store' = store + 1
    /\ UNCHANGED <<markers, opening, dataset, archives, offsets, request, answers>>

-----------------------------------------------------------------------------
\* read_store_dataset.  The stat fingerprint of a file is the number of its store.
OpenStep(r, call) ==
    /\ opening' = [opening EXCEPT ![r] = call]
    /\ UNCHANGED <<store, archives, offsets, request, answers>>

BeginOpen(r, preload) ==
    /\ r = FirstReader
    /\ opening[r] = NoStep /\ dataset[r] = Nothing
    /\ OpenStep(r, [pc |-> "stat", count |-> Here.count, preload |-> preload])
    /\ UNCHANGED <<markers, dataset>>

StatManifest(r) ==
    /\ opening[r].pc = "stat"
    /\ OpenStep(r, [pc |-> "layout", count |-> opening[r].count, preload |-> opening[r].preload,
              stat |-> store])
    /\ UNCHANGED <<markers, dataset>>

GiveUp(r) == OpenStep(r, [pc |-> "failed"]) /\ UNCHANGED <<markers, dataset>>

ReadLayout(r) ==
    /\ opening[r].pc = "layout"
    /\ IF Len(Here.samples) # opening[r].count
       THEN GiveUp(r)
       ELSE /\ OpenStep(r, [pc |-> "validate", count |-> opening[r].count,
                              preload |-> opening[r].preload, stat |-> opening[r].stat,
                              sizes |-> Here.sizes])
            /\ UNCHANGED <<markers, dataset>>

\* Sample indexes are dense and sample ids are unique.
IndexIsValid(s) ==
    /\ \A k \in DOMAIN s.samples : s.samples[k].index = k - 1
    /\ \A j, k \in DOMAIN s.samples : s.samples[j].id = s.samples[k].id => j = k

\* _validate_sample_manifest_index_locked: once for a count and a fingerprint.
ValidateIndex(r) ==
    /\ opening[r].pc = "validate"
    /\ LET mark == [count |-> opening[r].count, stat |-> opening[r].stat]
       IN IF mark \in markers
          THEN OpenStep(r, [opening[r] EXCEPT !.pc = "restat"]) /\ UNCHANGED <<markers, dataset>>
          ELSE IF /\ IndexIsValid(Here)
                  /\ Len(Here.samples) = opening[r].count
                  /\ store = opening[r].stat
          THEN /\ markers' = markers \cup {mark}
               /\ OpenStep(r, [opening[r] EXCEPT !.pc = "restat"])
               /\ UNCHANGED dataset
          ELSE GiveUp(r)

NewDataset(call) ==
    [stat |-> call.stat, count |-> call.count, sizes |-> call.sizes, rows |-> <<>>,
     view |-> Nothing, entries |-> <<>>, covered |-> FALSE]

Restat(r) ==
    /\ opening[r].pc = "restat"
    /\ IF store # opening[r].stat
       THEN GiveUp(r)
       ELSE /\ dataset' = [dataset EXCEPT ![r] = NewDataset(opening[r])]
            /\ OpenStep(r, IF opening[r].preload THEN [pc |-> "load"] ELSE NoStep)
            /\ UNCHANGED markers

-----------------------------------------------------------------------------
\* ViewEntryIndex.load: which samples have an entry, in the order of the rows.
ViewIndex(s) == [k \in DOMAIN s.entries |-> s.entries[k].index]

ViewIsOrdered(indexes, count) ==
    /\ \A k \in DOMAIN indexes : indexes[k] \in 0 .. count - 1
    /\ \A k \in 1 .. Len(indexes) - 1 : indexes[k] < indexes[k + 1]

\* SampleManifestSequence._row_group and ViewEntryIndex._row_group: the rows of a
\* group as they are in the manifest now, or Nothing when they are not the ones
\* that the opened layout speaks of.
SampleRows(ds, g) ==
    LET rows == IF g \in DOMAIN Here.sizes THEN RowsOf(Here.samples, Here.sizes, g) ELSE <<>>
    IN IF \A k \in DOMAIN rows : rows[k].index = StartOf(ds.sizes, g) + k - 1
       THEN rows ELSE Nothing

EntryRows(ds, g) ==
    LET rows  == IF g \in DOMAIN Here.groups THEN RowsOf(Here.entries, Here.groups, g) ELSE <<>>
        start == StartOf(ds.view.groups, g)
    IN IF \A k \in DOMAIN rows : /\ start + k <= Len(ds.view.indexes)
                                 /\ rows[k].index = ds.view.indexes[start + k]
       THEN rows ELSE Nothing

\* StoreViews.preload: every group of the view and every sample is read, and the
\* samples that have the item are those that have an entry.
LoadView(r) ==
    /\ opening[r].pc = "load"
    /\ IF ViewIsOrdered(ViewIndex(Here), dataset[r].count)
       THEN /\ dataset' = [dataset EXCEPT ![r].view =
                             [indexes |-> ViewIndex(Here), groups |-> Here.groups]]
            /\ OpenStep(r, [pc |-> "cover"])
            /\ UNCHANGED markers
       ELSE GiveUp(r)

Covers(ds) ==
    /\ \A g \in DOMAIN ds.view.groups : EntryRows(ds, g) # Nothing
    /\ \A g \in DOMAIN ds.sizes : SampleRows(ds, g) # Nothing
    /\ ds.view.indexes =
        [k \in 1 .. Len(SelectSeq(Here.samples, LAMBDA s : s.has)) |->
            SelectSeq(Here.samples, LAMBDA s : s.has)[k].index]

CheckCoverage(r) ==
    /\ opening[r].pc = "cover"
    /\ IF Covers(dataset[r])
       THEN /\ dataset' = [dataset EXCEPT ![r].covered = TRUE]
            /\ OpenStep(r, NoStep)
            /\ UNCHANGED markers
       ELSE GiveUp(r)

-----------------------------------------------------------------------------
\* A forked process shares the open archives and where they are read; one that
\* gets the dataset by pickle has the layout and the view indexes only.
NotBegun(s) == dataset[s] = Nothing /\ opening[s] = NoStep /\ request[s] = NoRequest

ForkReader(r, s) ==
    /\ s # r /\ NotBegun(s)
    /\ dataset[r] # Nothing /\ opening[r] = NoStep
    /\ dataset' = [dataset EXCEPT ![s] = dataset[r]]
    /\ archives' = [archives EXCEPT ![s] = archives[r]]
    /\ UNCHANGED <<store, markers, opening, offsets, request, answers>>

Pickle(r, s) ==
    /\ s # r /\ NotBegun(s)
    /\ dataset[r] # Nothing /\ opening[r] = NoStep
    /\ dataset' = [dataset EXCEPT ![s] = [dataset[r] EXCEPT !.rows = <<>>, !.entries = <<>>]]
    /\ UNCHANGED <<store, markers, opening, archives, offsets, request, answers>>

-----------------------------------------------------------------------------
\* __getitems__: the wanted samples are read once each, in their order in the
\* store, and returned in the order of the caller.
StoreIndex(i, count) == IF i < 0 THEN i + count ELSE i

ReadStep(r, call) ==
    /\ request' = [request EXCEPT ![r] = call]
    /\ UNCHANGED <<store, markers, opening, answers>>

GoOn(r, pc) == ReadStep(r, [request[r] EXCEPT !.pc = pc])

\* The samples are read in the order of the store.
Current(r) == Min(request[r].left)

EndRequest(r, values, error) ==
    /\ answers' = [answers EXCEPT ![r] =
                     Append(@, [wanted |-> request[r].wanted, since |-> request[r].since,
                                values |-> values, error |-> error,
                                last |-> [index |-> Current(r), shard |-> request[r].shard]])]
    /\ request' = [request EXCEPT ![r] = NoRequest]
    /\ UNCHANGED <<store, markers, opening>>

Return(r, values) == EndRequest(r, values, "none")

Refuse(r, error) == EndRequest(r, <<>>, error) /\ UNCHANGED <<dataset, archives, offsets>>

Asked == MapThenSumSet(LAMBDA r : Len(answers[r]) + IF request[r] = NoRequest THEN 0 ELSE 1, Readers)

BeginRequest(r, wanted) ==
    /\ dataset[r] # Nothing /\ opening[r] = NoStep /\ request[r] = NoRequest
    /\ Asked < MaxRequests
    /\ wanted # <<>>
    /\ \A k \in DOMAIN wanted : StoreIndex(wanted[k], dataset[r].count) \in 0 .. dataset[r].count - 1
    /\ LET indexes == [k \in DOMAIN wanted |-> StoreIndex(wanted[k], dataset[r].count)]
       IN ReadStep(r, [NoRequest EXCEPT !.pc = "sample", !.wanted = indexes, !.since = store,
                                         !.left = ToSet(indexes)])
    /\ UNCHANGED <<dataset, archives, offsets>>

\* One sample is read, an [index, key, store]; after the last they are returned.
NextSample(r, value) ==
    LET read == request[r].read \cup {value}
        left == request[r].left \ {Current(r)}
    IN IF left = {}
       THEN Return(r, [k \in DOMAIN request[r].wanted |->
                         CHOOSE v \in read : v.index = request[r].wanted[k]])
       ELSE ReadStep(r, [request[r] EXCEPT !.pc = "sample", !.read = read, !.left = left])

ReadSample(r) ==
    /\ request[r].pc = "sample"
    /\ LET ds   == dataset[r]
           g    == GroupOf(ds.sizes, Current(r))
           rows == IF HasKey(ds.rows, g) THEN EntryOf(ds.rows, g).rows ELSE SampleRows(ds, g)
           k    == Current(r) - StartOf(ds.sizes, g) + 1
       IN IF rows = Nothing THEN Refuse(r, "changed")
          ELSE IF k > Len(rows) THEN Refuse(r, "short")
          ELSE /\ dataset' = [dataset EXCEPT ![r].rows =
                                Kept(@, [key |-> g, rows |-> rows], MaxRowGroups)]
               /\ UNCHANGED <<archives, offsets>>
               /\ IF rows[k].has
                  THEN GoOn(r, "view")
                  ELSE NextSample(r, [index |-> Current(r), key |-> Nothing, store |-> Nothing])

OpenView(r) ==
    /\ request[r].pc = "view"
    /\ IF dataset[r].view # Nothing
       THEN UNCHANGED dataset /\ GoOn(r, "entry")
       ELSE IF ViewIsOrdered(ViewIndex(Here), dataset[r].count)
       THEN /\ dataset' = [dataset EXCEPT ![r].view =
                             [indexes |-> ViewIndex(Here), groups |-> Here.groups]]
            /\ GoOn(r, "entry")
       ELSE EndRequest(r, <<>>, "changed") /\ UNCHANGED dataset
    /\ UNCHANGED <<archives, offsets>>

\* ViewEntryIndex.__getitem__
ReadEntry(r) ==
    /\ request[r].pc = "entry"
    /\ IF Current(r) \notin ToSet(dataset[r].view.indexes)
       THEN Refuse(r, "absent")
       ELSE LET ds   == dataset[r]
                k    == CHOOSE k \in DOMAIN ds.view.indexes : ds.view.indexes[k] = Current(r)
                g    == GroupOf(ds.view.groups, k - 1)
                rows == IF HasKey(ds.entries, g) THEN EntryOf(ds.entries, g).rows
                        ELSE EntryRows(ds, g)
                j    == k - StartOf(ds.view.groups, g)
            IN IF rows = Nothing THEN Refuse(r, "changed")
               ELSE IF j > Len(rows) THEN Refuse(r, "short")
               ELSE /\ dataset' = [dataset EXCEPT ![r].entries =
                                     Kept(@, [key |-> g, rows |-> rows], MaxRowGroups)]
                    /\ ReadStep(r, [request[r] EXCEPT !.pc = "archive", !.shard = rows[j].shard])
                    /\ UNCHANGED <<archives, offsets>>

-----------------------------------------------------------------------------
\* PayloadCache.read, under the lock of the cache.
OpenDescriptors == {a.fd : a \in UNION {ToSet(archives[r].opened) : r \in Readers}}
    \cup {request[r].opened.fd : r \in {x \in Readers : request[x].pc \in {"opened", "sidecar"}}}
FreeDescriptors == Descriptors \ OpenDescriptors

\* _reset_after_fork: what was inherited is closed, not read.
OwnArchives(r) ==
    IF archives[r].pid = r THEN archives[r] ELSE [pid |-> r, opened |-> <<>>]

\* An archive that is open is used when the shard is still the one it was.
FindArchive(r) ==
    /\ request[r].pc = "archive"
    /\ LET mine   == OwnArchives(r)
           shard  == request[r].shard
           cached == IF HasKey(mine.opened, shard) THEN EntryOf(mine.opened, shard) ELSE Nothing
       IN IF shard \notin DOMAIN Here.shards
          THEN /\ archives' = [archives EXCEPT ![r] = mine]
               /\ EndRequest(r, <<>>, "no shard") /\ UNCHANGED <<dataset, offsets>>
          ELSE /\ archives' = [archives EXCEPT ![r] =
                                 IF cached # Nothing /\ cached.stat = store
                                 THEN [mine EXCEPT !.opened = Append(Dropped(@, shard), cached)]
                                 ELSE [mine EXCEPT !.opened = Dropped(@, shard)]]
               /\ GoOn(r, IF cached # Nothing /\ cached.stat = store THEN "member" ELSE "open")
               /\ UNCHANGED <<dataset, offsets>>

OpenArchive(r) ==
    /\ request[r].pc = "open"
    /\ IF request[r].shard \notin DOMAIN Here.shards
       THEN Refuse(r, "no shard")
       ELSE /\ FreeDescriptors # {}   \* there always is one
            /\ ReadStep(r, [request[r] EXCEPT !.pc = "opened",
                    !.opened = [key |-> request[r].shard, fd |-> Min(FreeDescriptors),
                                stat |-> store]])
            /\ UNCHANGED <<dataset, archives, offsets>>

\* The stat of what was opened is compared with that of the path.
CheckArchive(r) ==
    /\ request[r].pc = "opened"
    /\ IF request[r].opened.stat # store
       THEN Refuse(r, "changed")
       ELSE GoOn(r, "sidecar") /\ UNCHANGED <<dataset, archives, offsets>>

\* _payload_members: where the members of an archive are.
MembersOf(opened) ==
    LET tar == At(opened.stat).shards[opened.key]
    IN [key \in ToSet(tar) |-> CHOOSE p \in DOMAIN tar : tar[p] = key]

\* _read_payload_index: a sidecar of the fingerprint, or of the size and mtime,
\* that the archive has; offsets beyond its end refuse it.
Sidecar(opened) ==
    IF opened.key \notin DOMAIN Here.sidecars THEN Nothing
    ELSE LET index == Here.sidecars[opened.key]
             on    == At(opened.stat)
         IN IF /\ index.stat = opened.stat \/ index.portable = on.portable[opened.key]
               /\ \A key \in DOMAIN index.members :
                    index.members[key] \in DOMAIN on.shards[opened.key]
            THEN index.members ELSE Nothing

\* _OpenArchive: the members that are known, whether they are all, and which of
\* them have been seen in the archive.
NewArchive(opened) ==
    [key |-> opened.key, fd |-> opened.fd, stat |-> opened.stat, verified |-> {},
     complete |-> Sidecar(opened) = Nothing,
     members |-> IF Sidecar(opened) = Nothing THEN MembersOf(opened) ELSE Sidecar(opened)]

ReadSidecar(r) ==
    /\ request[r].pc = "sidecar"
    /\ archives' = [archives EXCEPT ![r].opened =
                       Kept(@, NewArchive(request[r].opened), MaxArchives)]
    /\ ReadStep(r, [request[r] EXCEPT !.pc = "member", !.opened = Nothing])
    /\ UNCHANGED <<dataset, offsets>>

\* _indexed_member_matches: the header at the offset names the key.
HeaderIs(opened, key) == At(opened.stat).shards[opened.key][opened.members[key]] = key

\* Mutant: an offset of the sidecar is used unseen.
LookUpUnverified(opened, key) == opened

\* The member table is read when the sidecar lacks the key or is wrong about it.
LookUp(opened, key) ==
    IF opened.complete \/ key \in opened.verified THEN opened
    ELSE IF key \in DOMAIN opened.members /\ HeaderIs(opened, key)
    THEN [opened EXCEPT !.verified = @ \cup {key}]
    ELSE [opened EXCEPT !.complete = TRUE, !.members = MembersOf(opened), !.verified = {}]

FindMember(r) ==
    /\ request[r].pc = "member"
    /\ LET all    == archives[r].opened
           opened == LookUp(all[Len(all)], Current(r))
       IN /\ archives' = [archives EXCEPT ![r].opened = [@ EXCEPT ![Len(all)] = opened]]
          /\ UNCHANGED dataset
          /\ IF Current(r) \in DOMAIN opened.members
             THEN /\ offsets' = [offsets EXCEPT ![opened.fd] = opened.members[Current(r)]]
                  /\ GoOn(r, "bytes")
             ELSE EndRequest(r, <<>>, "missing") /\ UNCHANGED offsets

\* The bytes come from where the open file description stands.
ReadBytes(r) ==
    /\ request[r].pc = "bytes"
    /\ LET opened == Last(archives[r].opened)
           key    == At(opened.stat).shards[opened.key][offsets[opened.fd]]
       IN NextSample(r, [index |-> Current(r), key |-> key, store |-> opened.stat])
    /\ UNCHANGED <<dataset, archives, offsets>>

\* PayloadCache.close by another thread waits for the lock of a read.
CloseArchives(r) ==
    /\ dataset[r] # Nothing /\ archives[r].opened # <<>>
    /\ request[r].pc \notin {"open", "opened", "sidecar", "member", "bytes"}
    /\ archives' = [archives EXCEPT ![r] = [pid |-> r, opened |-> <<>>]]
    /\ UNCHANGED <<store, markers, opening, dataset, offsets, request, answers>>

-----------------------------------------------------------------------------
RNext ==
    \/ Rebuild
    \/ \E r \in Readers :
          \/ \E preload \in BOOLEAN : BeginOpen(r, preload)
          \/ StatManifest(r) \/ ReadLayout(r) \/ ValidateIndex(r) \/ Restat(r)
          \/ LoadView(r) \/ CheckCoverage(r)
          \/ \E s \in Readers : ForkReader(r, s) \/ Pickle(r, s)
          \/ \E wanted \in Requests : BeginRequest(r, wanted)
          \/ ReadSample(r) \/ OpenView(r) \/ ReadEntry(r)
          \/ FindArchive(r) \/ OpenArchive(r) \/ CheckArchive(r) \/ ReadSidecar(r) \/ FindMember(r) \/ ReadBytes(r)
          \/ CloseArchives(r)

-----------------------------------------------------------------------------
\* What a marker and an open dataset say of a sample manifest is true of the one
\* they were made for (reader.py, read_store_dataset).
OpenedIsValid ==
    /\ \A m \in markers : IndexIsValid(At(m.stat)) /\ Len(At(m.stat).samples) = m.count
    /\ \A r \in Readers : dataset[r] # Nothing =>
        /\ dataset[r].sizes = At(dataset[r].stat).sizes
        /\ dataset[r].count = Len(At(dataset[r].stat).samples)
        /\ IndexIsValid(At(dataset[r].stat))

\* An open dataset is valid, and a request that ends with values has, at every place, the payload of the sample
\* that was asked for there, as it is in a store that was at the path during the
\* request: whatever row groups, indexes and archives earlier requests left, with
\* a store rebuilt between any two steps, a sidecar that is copied, stale or
\* damaged, archives shared with a forked process, or a cache closed by another
\* thread.  A payload is reported missing only when a store of that time lacks
\* it in the shard.
StoreReadsHold ==
    /\ OpenedIsValid
    /\ \A r \in Readers : \A a \in ToSet(answers[r]) :
           /\ a.error = "none" =>
               \A k \in DOMAIN a.wanted :
                   /\ a.values[k].index = a.wanted[k]
                   /\ a.values[k].key # Nothing =>
                       /\ a.values[k].key = a.wanted[k]
                       /\ a.values[k].store \in a.since .. store
           /\ a.error = "missing" =>
               \E v \in a.since .. store :
                   a.last.shard \in DOMAIN At(v).shards /\ a.last.index \notin ToSet(At(v).shards[a.last.shard])
=============================================================================
