---------------------------- MODULE S2STCatalog ----------------------------
(***************************************************************************)
(* The catalog of one synthesis stage: entries that adjoin, each with a    *)
(* summary of its pair index grouped by source family, and the checks a    *)
(* new entry passes before it is appended.  Digests and stat identities    *)
(* stand for the content they are taken of: published stores and index     *)
(* files are never written again.                                          *)
(***************************************************************************)
EXTENDS S2STGrowth

\* SnapshotManifest / FinalCatalogEntry names, see _commit_id: the hash covers
\* stage, revision, range and the content of the store.
CommitId(stage, revision, start, stop, digest) ==
    <<stage, revision, start, stop, digest>>

\* PairIndexRecord.from_plan
PairIndexRecord(family, pair) ==
    [key |-> family.key, sequence |-> family.sequence, lang |-> family.lang,
     speaker |-> family.voice.speaker, target |-> pair.target, first |-> pair.first]

RecordsOf(plan) ==
    [k \in DOMAIN plan.pairs |->
        PairIndexRecord(plan.state.families[plan.pairs[k].sequence + 1], plan.pairs[k])]

\* PairIndexRecord.__post_init__
ValidRecord(r) == r.lang # r.target /\ r.sequence >= 0 /\ r.key.row >= 0

EmptyCatalog == [entries |-> <<>>, sealed |-> FALSE]

\* FinalCatalog.sample_count
SampleCount(c) ==
    IF c.entries = <<>> THEN 0 ELSE Last(c.entries).start + Last(c.entries).count

\* FinalCatalog.latest_snapshot_id
LatestId(c) == IF c.entries = <<>> THEN Unknown ELSE Last(c.entries).id

TotalSources(c) == IF c.entries = <<>> THEN 0 ELSE Last(c.entries).total

\* The family sequences of some records, in the order they first appear.
SequencesOf(records) ==
    FoldLeft(LAMBDA found, r : IF Contains(found, r.sequence) THEN found
                               ELSE Append(found, r.sequence),
             <<>>, records)

\* _index_summary: one row per family; local is where its first record stands.
IndexSummary(records) ==
    LET order == SequencesOf(records)
        Of(s) == SelectSeq([k \in DOMAIN records |-> [at |-> k - 1, row |-> records[k]]],
                           LAMBDA v : v.row.sequence = s)
        Firsts(s) == SelectSeq(Of(s), LAMBDA v : v.row.first)
    IN [k \in DOMAIN order |->
          LET own == Of(order[k]) IN
          [key      |-> own[1].row.key,
           sequence |-> order[k],
           lang     |-> own[1].row.lang,
           speaker  |-> own[1].row.speaker,
           targets  |-> [i \in DOMAIN own |-> own[i].row.target],
           local    |-> IF Firsts(order[k]) = <<>> THEN Unknown
                        ELSE Firsts(order[k])[1].at]]

\* What _publish_locked asks of the records alone, StagePublisher._records before
\* it: there are some, all of them valid, no pair is there twice, and no family
\* has two identities or two firsts (_index_summary).
AreRecords(records) ==
    /\ records # <<>>
    /\ records \in Seq({r \in ToSet(records) : ValidRecord(r)})
    /\ IsInjective([k \in DOMAIN records |-> <<records[k].key, records[k].target>>])
    /\ \A i, j \in DOMAIN records : records[i].sequence = records[j].sequence =>
            /\ records[i].key = records[j].key /\ records[i].lang = records[j].lang
            /\ records[i].speaker = records[j].speaker
            /\ (i # j) => ~(records[i].first /\ records[j].first)

\* What is known of every published family, replayed from the summaries.
EmptyIndex == [sources |-> <<>>, ok |-> TRUE]

\* One row of _apply_index_summary.  Families are numbered without gaps; a new
\* one brings its first record, a known one brings new targets only.
ApplyRow(index, row) ==
    LET known == row.sequence < Len(index.sources)
        old   == index.sources[row.sequence + 1]
        new   == [key |-> row.key, lang |-> row.lang, speaker |-> row.speaker,
                  targets |-> ToSet(row.targets)]
        fits  == IF known
                 THEN /\ old.key = row.key /\ old.lang = row.lang
                      /\ old.speaker = row.speaker
                      /\ row.local = Unknown
                      /\ old.targets \cap new.targets = {}
                 ELSE /\ row.sequence = Len(index.sources)
                      /\ \A s \in ToSet(index.sources) : s.key # row.key
                      /\ row.local # Unknown
    IN IF ~index.ok \/ ~fits THEN [index EXCEPT !.ok = FALSE]
       ELSE IF known
       THEN [index EXCEPT !.sources[row.sequence + 1].targets = @ \cup new.targets]
       ELSE [index EXCEPT !.sources = Append(@, new)]

\* Mutant: the rows are counted, not compared with what is published.
ApplySummaryCounts(index, summary, added, total) ==
    [sources |-> index.sources \o [k \in 1 .. added |-> [key |-> k, targets |-> {}]],
     ok      |-> Len(index.sources) + added = total]

\* _apply_index_summary: the rows, then the counts the manifest claims.
ApplySummary(index, summary, added, total) ==
    LET after == FoldLeft(ApplyRow, index, summary)
    IN [after EXCEPT !.ok = /\ @
                            /\ Len(after.sources) - Len(index.sources) = added
                            /\ Len(after.sources) = total]

\* _catalog_index
CatalogIndex(c) ==
    FoldLeft(LAMBDA index, e : ApplySummary(index, e.summary, e.added, e.total),
             EmptyIndex, c.entries)

\* FinalCatalog.__post_init__: dense, revisions increase, ids do not repeat.
CatalogIsValid(c) ==
    /\ \A k \in DOMAIN c.entries :
        LET e == c.entries[k] IN
        /\ e.count >= 1
        /\ e.start = IF k = 1 THEN 0 ELSE c.entries[k - 1].start + c.entries[k - 1].count
        /\ k > 1 => e.revision > c.entries[k - 1].revision
    /\ IsInjective([k \in DOMAIN c.entries |-> c.entries[k].id])
    /\ CatalogIndex(c).ok

\* FinalCatalog.validate_successor
IsSuccessor(new, old) ==
    /\ IsPrefix(old.entries, new.entries)
    /\ old.sealed => new = old

\* _published_entry: the same commit is already there. config_revision, which nothing
\* else here reads, is left out of the comparison.
PublishedEntry(c, manifest) ==
    {k \in DOMAIN c.entries : c.entries[k].id = manifest.id}

SameCommit(c, k, manifest) ==
    LET e == c.entries[k] IN
    /\ e.revision = manifest.revision /\ e.added = manifest.added /\ e.total = manifest.total
    /\ e.store = manifest.store
    /\ e.start + e.count = manifest.stop /\ e.count = Len(manifest.records)
    /\ manifest.previous = IF k = 1 THEN Unknown ELSE c.entries[k - 1].id
    /\ e.summary = IndexSummary(manifest.records)

\* Mutant: a sealed catalog is extended.
ExtendsSealed(c, manifest) ==
    /\ manifest.previous = LatestId(c)
    /\ manifest.stop = SampleCount(c) + Len(manifest.records)
    /\ c.entries # <<>> => manifest.revision > Last(c.entries).revision
    /\ ApplySummary(CatalogIndex(c), IndexSummary(manifest.records),
                    manifest.added, manifest.total).ok

\* What _publish_locked asks of a commit that is not there yet.
ExtendsCatalog(c, manifest) ==
    /\ ~c.sealed
    /\ manifest.previous = LatestId(c)
    /\ manifest.stop = SampleCount(c) + Len(manifest.records)
    /\ c.entries # <<>> => manifest.revision > Last(c.entries).revision
    /\ ApplySummary(CatalogIndex(c), IndexSummary(manifest.records),
                    manifest.added, manifest.total).ok

\* The entry of an accepted commit.
NewEntry(c, manifest) ==
    [revision |-> manifest.revision,
     id       |-> manifest.id,
     added    |-> manifest.added,
     total    |-> manifest.total,
     store    |-> manifest.store,
     summary  |-> IndexSummary(manifest.records),
     start    |-> SampleCount(c),
     count    |-> Len(manifest.records)]

-----------------------------------------------------------------------------
(* Reading.                                                                *)

\* The content of the index file of an entry; files holds the index files.
IndexOf(files, e) == (CHOOSE f \in files : f.id = e.id).records

\* The n-th record of a catalog, from the index of the entry that has it.
RecordAt(files, c, n) ==
    LET e == CHOOSE e \in ToSet(c.entries) : e.start < n /\ n <= e.start + e.count
    IN IndexOf(files, e)[n - e.start]

\* _catalog_records: the records of positions start to stop, stop excluded.
CatalogRecords(files, c, start, stop) ==
    [k \in 1 .. stop - start |-> RecordAt(files, c, start + k)]

AllRecords(files, c) == CatalogRecords(files, c, 0, SampleCount(c))

\* _watermark_digest: the commits below a position, the last one cut there.
Watermark(c, stop) ==
    LET below == SelectSeq(c.entries, LAMBDA e : e.start < stop)
    IN [k \in DOMAIN below |->
          <<below[k].id, IF below[k].start + below[k].count < stop
                         THEN below[k].count ELSE stop - below[k].start>>]

\* _select_catalog and _matches for the SOURCES layout without filters: the
\* positions of the records that stand for their family.
SourcePositions(records) ==
    {k \in DOMAIN records :
        /\ records[k].first
        /\ \A j \in 1 .. k - 1 : ~(records[j].first /\ records[j].key = records[k].key)}

\* catalog_source_locations: where a family's waveform was first published.
SourceLocation(c, key) ==
    {at \in (DOMAIN c.entries) \X (0 .. SampleCount(c)) :
        \E s \in ToSet(c.entries[at[1]].summary) : s.key = key /\ s.local = at[2]}

\* S2STStatus.pending_samples
PendingSamples(upstream, own) == SampleCount(upstream) - SampleCount(own)
=============================================================================
