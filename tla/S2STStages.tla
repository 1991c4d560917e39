---------------------------- MODULE S2STStages ----------------------------
(***************************************************************************)
(* Speech-to-speech synthesis: growers plan source deltas with plan_growth *)
(* and publish them, translators and synthesizers pin the suffix of the    *)
(* stage above that their own stage lacks and publish what they computed.  *)
(* Each stage has its own catalog and its own FileLock; a stage is read    *)
(* without any lock.                                                       *)
(*                                                                         *)
(* The callers keep the S2STState between plans; saved is what they keep.  *)
(* A grower that dies between publication and saving plans the same delta  *)
(* again.  Files outlive a crash, calls and locks do not.                  *)
(***************************************************************************)
EXTENDS S2STCatalog, TLC

CONSTANTS
    Configs,     \* the configurations the lineage goes through, in order
    Growers, Translators, Synthesizers,
    Content(_),  \* the content of a store directory
    Batches,     \* values of max_samples
    Casts,       \* bound: which processes take part, from which sources on,
                 \* which store directories they are given, how often sources
                 \* and configuration change, how many processes crash
    MaxRows      \* bound: rows of a source slot

ASSUME ConfigsAssumption ==
    /\ Configs # <<>>
    /\ \A k \in DOMAIN Configs : ValidConfig(Configs[k])
    /\ \A k \in 2 .. Len(Configs) :
        ValidSuccessor(Declaration(Configs[k - 1]), Declaration(Configs[k]))
ASSUME BoundsAssumption == MaxRows \in Nat /\ Batches \subseteq Nat \ {0}
\* A publisher is of one stage.
ASSUME PublishersAssumption ==
    /\ Unknown \notin Growers \cup Translators \cup Synthesizers
    /\ Growers \cap (Translators \cup Synthesizers) = {}
    /\ Translators \cap Synthesizers = {}

VARIABLES
    rows,      \* slot -> how many rows it has and whether it may get more
    epoch,     \* which configuration the callers use
    saved,     \* the S2STState the callers kept, Unknown before the first plan
    owed,      \* history: how many families each language was promised when it was added
    catalog,   \* stage -> the content of its catalog file
    indexes,   \* the files below indexes/
    lock,      \* stage -> who holds its catalog lock
    pc, call,  \* process -> where its call stands, what it has read
    cast       \* who takes part, and what is left of the bounds

world == <<rows, epoch>>
disk == <<saved, owed, catalog, indexes, lock>>
vars == <<rows, epoch, saved, owed, catalog, indexes, lock, pc, call, cast>>

Stages == {"source", "translation", "tts"}
Followers == Translators \cup Synthesizers
Processes == Growers \cup Followers
StageOf(p) == IF p \in Growers THEN "source"
              ELSE IF p \in Translators THEN "translation" ELSE "tts"

\* _UPSTREAM
Upstream(stage) == IF stage = "tts" THEN "translation" ELSE "source"

AllSlots == UNION {SlotNamesOf(Configs[k]) : k \in DOMAIN Configs}

NoCall == [plan |-> Failed, own |-> EmptyCatalog, input |-> Failed, manifest |-> Failed]

Init ==
    /\ cast \in Casts
    /\ rows \in cast.sources
    /\ epoch = cast.epoch
    /\ saved = Unknown
    /\ owed = [l \in UNION {LanguagesOf(Configs[k]) : k \in DOMAIN Configs} |-> 0]
    /\ catalog = [s \in Stages |-> EmptyCatalog]
    /\ indexes = {}
    /\ lock = [s \in Stages |-> Unknown]
    /\ pc = [p \in Processes |-> "idle"]
    /\ call = [p \in Processes |-> NoCall]

Goto(p, label) == pc' = [pc EXCEPT ![p] = label]

\* The call of p is over, with a result or an exception.
Return(p) ==
    /\ Goto(p, "idle")
    /\ call' = [call EXCEPT ![p] = NoCall]

-----------------------------------------------------------------------------
(* The sources and the configuration.                                      *)

GrowSlot(s) ==
    /\ cast.changes > 0
    /\ ~rows[s].sealed /\ rows[s].len < MaxRows
    /\ rows' = [rows EXCEPT ![s].len = @ + 1]
    /\ cast' = [cast EXCEPT !.changes = @ - 1]
    /\ UNCHANGED <<epoch, disk, pc, call>>

SealSlot(s) ==
    /\ cast.changes > 0
    /\ ~rows[s].sealed
    /\ rows' = [rows EXCEPT ![s].sealed = TRUE]
    /\ cast' = [cast EXCEPT !.changes = @ - 1]
    /\ UNCHANGED <<epoch, disk, pc, call>>

\* The callers go on with a longer declaration.
Extend ==
    /\ cast.changes > 0
    /\ epoch < Len(Configs)
    /\ epoch' = epoch + 1
    /\ cast' = [cast EXCEPT !.changes = @ - 1]
    /\ UNCHANGED <<rows, disk, pc, call>>

-----------------------------------------------------------------------------
(* Growers.                                                                *)

Planning == PlanGrowth(Configs[epoch], saved, rows)

\* A plan that adds nothing leaves nothing to publish.
Plan(p) ==
    /\ pc[p] = "idle"
    /\ Planning.phase \notin {"IDLE", "FAILED"}
    /\ call' = [call EXCEPT ![p].plan = Planning]
    /\ Goto(p, "planned")
    /\ UNCHANGED <<world, disk, cast>>

\* StagePublisher._manifest, from a catalog read without the lock.
Manifest(stage, own, store, records) ==
    LET revision == IF own.entries = <<>> THEN 0 ELSE Last(own.entries).revision + 1
        start    == SampleCount(own)
        stop     == start + Len(records)
        total    == TotalSources(own)
        added    == Cardinality({r.sequence : r \in {q \in ToSet(records) : q.sequence >= total}})
    IN [revision |-> revision,
        id       |-> CommitId(stage, revision, start, stop, Content(store)),
        previous |-> LatestId(own),
        added    |-> added,
        total    |-> total + added,
        stop     |-> stop,
        store    |-> store,
        records  |-> records]

\* publish_source, up to the lock.
PublishSource(p) ==
    /\ pc[p] = "planned"
    /\ \E store \in cast.stores :
        call' = [call EXCEPT ![p].manifest =
                    Manifest("source", catalog["source"], store, RecordsOf(call[p].plan))]
    /\ Goto(p, "ready")
    /\ UNCHANGED <<world, disk, cast>>

\* A language that was added since is owed as many families as the largest of
\* the older languages had.
Owed(config) ==
    IF saved = Unknown THEN owed
    ELSE LET olds == LanguagesOf(saved.decl) IN
         [l \in DOMAIN owed |->
            IF l \in LanguagesOf(config) \ olds
            THEN Max({0} \cup {LanguageCount(saved, o) : o \in olds}) ELSE owed[l]]

\* The caller keeps the state of the plan it has published.
Save(p) ==
    /\ pc[p] = "published"
    /\ saved' = call[p].plan.state
    /\ owed' = Owed(call[p].plan.state.decl)
    /\ Return(p)
    /\ UNCHANGED <<world, catalog, indexes, lock, cast>>

-----------------------------------------------------------------------------
(* Translators and synthesizers.                                           *)

\* open_input reads the own catalog first ...
LoadOwn(p) ==
    /\ p \notin Growers /\ pc[p] = "idle"
    /\ call' = [call EXCEPT ![p].own = catalog[StageOf(p)]]
    /\ Goto(p, "opening")
    /\ UNCHANGED <<world, disk, cast>>

\* ... and pins the rest of one upstream entry, at most max_samples of it.
OpenInput(p) ==
    LET up    == catalog[Upstream(StageOf(p))]
        start == SampleCount(call[p].own)
    IN
    /\ pc[p] = "opening"
    /\ IF start = SampleCount(up) THEN Return(p)
       ELSE \E max \in Batches :
            LET entry == CHOOSE e \in ToSet(up.entries) :
                            e.start <= start /\ start < e.start + e.count
                stop  == Min({entry.start + entry.count, start + max})
            IN /\ call' = [call EXCEPT ![p].input =
                              [start     |-> start,
                               stop      |-> stop,
                               records   |-> CatalogRecords(indexes, up, start, stop),
                               catalog   |-> up,
                               watermark |-> Watermark(up, stop)]]
               /\ Goto(p, "pinned")
    /\ UNCHANGED <<world, disk, cast>>

\* publish, up to the lock: the input must still be the next one, and the
\* stage above must still begin with what was pinned.
Publish(p) ==
    LET own   == catalog[StageOf(p)]
        up    == catalog[Upstream(StageOf(p))]
        input == call[p].input
    IN
    /\ pc[p] = "pinned"
    /\ IF /\ SampleCount(own) = input.start
          /\ IsSuccessor(up, input.catalog)
          /\ Watermark(up, input.stop) = input.watermark
       THEN /\ \E store \in cast.stores :
                 call' = [call EXCEPT ![p].manifest =
                             Manifest(StageOf(p), own, store, input.records)]
            /\ Goto(p, "ready")
       ELSE Return(p)
    /\ UNCHANGED <<world, disk, cast>>

-----------------------------------------------------------------------------
(* CatalogPublisher.publish, for every stage.                              *)

\* The lock is not had within lock_timeout.
LockTimeout(p) ==
    /\ pc[p] \in {"ready", "sealing"}
    /\ lock[StageOf(p)] \notin {Unknown, p}
    /\ Return(p)
    /\ UNCHANGED <<world, disk, cast>>

\* Under the lock: a repeated commit is answered with the catalog as it is.
RepeatCommit(p) ==
    LET c == catalog[StageOf(p)]
        m == call[p].manifest
    IN
    /\ pc[p] = "ready" /\ lock[StageOf(p)] = Unknown
    /\ PublishedEntry(c, m) # {}
    /\ IF AreRecords(m.records) /\ \A k \in PublishedEntry(c, m) : SameCommit(c, k, m)
       THEN IF p \in Growers THEN Goto(p, "published") /\ UNCHANGED call ELSE Return(p)
       ELSE Return(p)
    /\ UNCHANGED <<world, disk, cast>>

\* Under the lock: a commit that does not extend the catalog, or whose index
\* file exists with other content, is refused.
IndexIsFree(p) ==
    \A f \in indexes : f.id = call[p].manifest.id => f.records = call[p].manifest.records

RefuseCommit(p) ==
    LET c == catalog[StageOf(p)]
        m == call[p].manifest
    IN
    /\ pc[p] = "ready" /\ lock[StageOf(p)] = Unknown
    /\ PublishedEntry(c, m) = {}
    /\ ~(ExtendsCatalog(c, m) /\ AreRecords(m.records) /\ IndexIsFree(p))
    /\ Return(p)
    /\ UNCHANGED <<world, disk, cast>>

\* Under the lock: the index file of an accepted commit.
WriteIndex(p) ==
    LET c == catalog[StageOf(p)]
        m == call[p].manifest
    IN
    /\ pc[p] = "ready" /\ lock[StageOf(p)] = Unknown
    /\ PublishedEntry(c, m) = {}
    /\ ExtendsCatalog(c, m) /\ AreRecords(m.records) /\ IndexIsFree(p)
    /\ lock' = [lock EXCEPT ![StageOf(p)] = p]
    /\ indexes' = indexes \cup {[id |-> m.id, records |-> m.records]}
    /\ Goto(p, "indexed")
    /\ UNCHANGED <<world, saved, owed, catalog, call, cast>>

\* write_catalog replaces the catalog file; the lock is released.
WriteCatalog(p) ==
    LET stage == StageOf(p) IN
    /\ pc[p] = "indexed"
    /\ catalog' = [catalog EXCEPT ![stage] =
                      [entries |-> Append(@.entries, NewEntry(@, call[p].manifest)),
                       sealed  |-> FALSE]]
    /\ lock' = [lock EXCEPT ![stage] = Unknown]
    /\ IF p \in Growers THEN Goto(p, "published") /\ UNCHANGED call ELSE Return(p)
    /\ UNCHANGED <<world, saved, owed, indexes, cast>>

-----------------------------------------------------------------------------
(* Sealing.                                                                *)

\* Mutant: a follower seals without having covered the stage above.
CheckSealEarly(p) ==
    /\ pc[p] = "idle" /\ ~catalog[StageOf(p)].sealed
    /\ p \notin Growers => catalog[Upstream(StageOf(p))].sealed
    /\ Goto(p, "sealing")
    /\ UNCHANGED <<world, disk, call, cast>>

\* StagePublisher.seal looks at both stages without a lock ...
CheckSeal(p) ==
    LET own == catalog[StageOf(p)]
        up  == catalog[Upstream(StageOf(p))]
    IN
    /\ pc[p] = "idle" /\ ~own.sealed
    /\ p \notin Growers => up.sealed /\ SampleCount(own) = SampleCount(up)
    /\ Goto(p, "sealing")
    /\ UNCHANGED <<world, disk, call, cast>>

\* ... and CatalogPublisher.seal seals what it finds under the lock.
Seal(p) ==
    LET stage == StageOf(p) IN
    /\ pc[p] = "sealing" /\ lock[stage] = Unknown
    /\ catalog' = [catalog EXCEPT ![stage].sealed = @ \/ catalog[stage].entries # <<>>]
    /\ Return(p)
    /\ UNCHANGED <<world, saved, owed, indexes, lock, cast>>

\* A process dies: its call and its lock are gone, files stay.
Crash(p) ==
    /\ cast.crashes > 0 /\ pc[p] # "idle"
    /\ cast' = [cast EXCEPT !.crashes = @ - 1]
    /\ lock' = [s \in Stages |-> IF lock[s] = p THEN Unknown ELSE lock[s]]
    /\ Return(p)
    /\ UNCHANGED <<world, saved, owed, catalog, indexes>>

-----------------------------------------------------------------------------
World == Extend \/ \E s \in AllSlots : GrowSlot(s) \/ SealSlot(s)

Grow(p) == Plan(p) \/ PublishSource(p) \/ Save(p)

Follow(p) == LoadOwn(p) \/ OpenInput(p) \/ Publish(p)

Commitment(p) == LockTimeout(p) \/ RepeatCommit(p) \/ RefuseCommit(p) \/ WriteIndex(p)
                 \/ WriteCatalog(p) \/ CheckSeal(p) \/ Seal(p) \/ Crash(p)

Next ==
    \/ World
    \/ \E p \in cast.members \cap Growers : Grow(p) \/ Commitment(p)
    \/ \E p \in cast.members \cap Followers : Follow(p) \/ Commitment(p)

Spec == Init /\ [][Next]_vars

-----------------------------------------------------------------------------
(* Properties.                                                             *)

Records(stage) == AllRecords(indexes, catalog[stage])

TypeOK ==
    /\ rows \in [AllSlots -> [len : 0 .. MaxRows, sealed : BOOLEAN]]
    /\ epoch \in DOMAIN Configs
    /\ lock \in [Stages -> Processes \cup {Unknown}]
    /\ pc \in [Processes -> {"idle", "planned", "ready", "published", "opening", "pinned",
                             "indexed", "sealing"}]
    /\ \A s \in Stages : CatalogIsValid(catalog[s])
    /\ \A f \in indexes : \A r \in ToSet(f.records) : ValidRecord(r)
    /\ saved # Unknown => StateIsUnique(saved)

\* When plan_growth has nothing to add (growth.py, plan_growth), every row of
\* every declared slot is admitted, every family has exactly one pair with
\* every other declared language, and no slot was passed over because a round
\* ended early or a catch-up entry was kept too long.
IdleMeansComplete ==
    Planning.phase = "IDLE" =>
        LET config == Configs[epoch]
            state  == Planning.state
        IN /\ {f.key : f \in ToSet(state.families)}
              = UNION {{[slot |-> s, row |-> r] : r \in 0 .. rows[s].len - 1} :
                       s \in SlotNamesOf(config)}
           /\ Planned(state) = {<<f.key, l>> : f \in ToSet(state.families),
                                               l \in LanguagesOf(config)}
                               \ {<<f.key, f.lang>> : f \in ToSet(state.families)}

\* docs/synthesis_s2st.md: rows of a new language come before ordinary growth.
\* A plan grows vertically only when no language that still is short of the
\* families it was promised has a row left to admit, also when its sources had
\* run dry for a while without being sealed (growth.py, _catchup).
NewLanguagesComeFirst ==
    Planning.phase = "VERTICAL" =>
        \A s \in ToSet(Slots(Configs[epoch])) :
            LanguageCount(saved, s.lang) < Owed(Configs[epoch])[s.lang] =>
                rows[s.slot].len <= IF s.slot \in DOMAIN saved.cursors
                                    THEN saved.cursors[s.slot].next ELSE 0

\* Whatever order the stages publish in, with racing publishers of one stage
\* and crashes, each stage is a prefix of the one above it, record by record,
\* no stage reports a negative backlog, and a sealed stage is a whole copy of a
\* sealed one (stage.py, open_input, publish and seal).
StagesAligned ==
    \A stage \in {"translation", "tts"} :
        /\ IsPrefix(Records(stage), Records(Upstream(stage)))
        /\ PendingSamples(catalog[Upstream(stage)], catalog[stage]) >= 0
        /\ catalog[stage].sealed =>
            /\ catalog[Upstream(stage)].sealed
            /\ PendingSamples(catalog[Upstream(stage)], catalog[stage]) = 0

\* In every stage a family has one record that stands for it in the SOURCES
\* layout, at the place catalog_source_locations reports, and a pair is
\* published once: deltas planned twice, split by max_samples or retried after
\* a crash never leave a family without its source record or with two.
SourcesAreWhole ==
    \A stage \in Stages :
        LET records == Records(stage)
            c       == catalog[stage]
        IN /\ IsInjective([k \in DOMAIN records |-> <<records[k].key, records[k].target>>])
           /\ \A r \in ToSet(records) :
                \E k \in SourcePositions(records) :
                    /\ records[k].key = r.key
                    /\ SourceLocation(c, r.key) =
                        {<<e, k - 1 - c.entries[e].start>> :
                            e \in {i \in DOMAIN c.entries :
                                     /\ c.entries[i].start < k
                                     /\ k <= c.entries[i].start + c.entries[i].count}}

\* The catalog of a stage, seen through the ranges of its entries.
Ranges(c) == [k \in DOMAIN c.entries |->
                [start |-> c.entries[k].start, stop |-> c.entries[k].start + c.entries[k].count]]

\* An input that is pinned is a reader that holds one moment of the stage above.
Held(p) == IF call[p].input = Failed THEN Unknown
           ELSE [entries |-> Ranges(call[p].input.catalog),
                 sealed  |-> call[p].input.catalog.sealed]

SourcePrefix == INSTANCE PublishedPrefix WITH
    Readers <- Translators, Nothing <- Unknown,
    log <- Ranges(catalog["source"]), final <- catalog["source"].sealed,
    held <- [p \in Translators |-> Held(p)]

TranslationPrefix == INSTANCE PublishedPrefix WITH
    Readers <- Synthesizers, Nothing <- Unknown,
    log <- Ranges(catalog["translation"]), final <- catalog["translation"].sealed,
    held <- [p \in Synthesizers |-> Held(p)]

\* A stage with its followers implements the published prefix: it grows by
\* whole adjoining entries, never after it is sealed, and an input pinned by a
\* follower is the stage of one moment.
StagesArePrefixes == SourcePrefix!Spec /\ TranslationPrefix!Spec
=============================================================================
