---------------------------- MODULE TabularParts ----------------------------
(***************************************************************************)
(* Delimited text that is read by row number: every file of a source is    *)
(* converted once to a Parquet part with full row groups, a manifest       *)
(* records which state of the file each part was made from, and readers    *)
(* find rows by the counts of the records (source/_tabular_parquet.py,     *)
(* sharded_csv.py, tsv.py).  Files may be rewritten at any time, also      *)
(* while they are converted or read, and a preparing process may die.      *)
(***************************************************************************)
EXTENDS Integers, Sequences, FiniteSets, FiniteSetsExt, SequencesExt

CONSTANTS
    Nil,
    Users,         \* processes that prepare and read the source
    Rows,          \* file -> the rows it has in its successive states, -1 without a header
    RowGroupSize,  \* PARQUET_ROW_GROUP_SIZE, 4096 in the code
    MaxTables,     \* MAX_CACHED_ROW_GROUPS, 2 in the code
    MaxHandles,    \* MAX_OPEN_PARQUET_FILES, 8 in the code
    Shares,        \* the shares that are scanned: number of shards, shard
    MaxReads,      \* bound: rows and shares that are read
    MaxDeaths      \* bound: processes that die

\* A source has a file, and a file has a first state; a share is one of its shards.
ASSUME TabularPartsAssumption ==
    /\ RowGroupSize \in Nat \ {0} /\ MaxTables \in Nat \ {0} /\ MaxHandles \in Nat \ {0}
    /\ MaxReads \in Nat /\ MaxDeaths \in Nat
    /\ Nil \notin Users
    /\ Rows \in Seq(Seq(Int)) /\ Rows # <<>> /\ \A f \in DOMAIN Rows : Rows[f] # <<>>
    /\ \A share \in Shares : share[1] \in Nat \ {0} /\ share[2] \in 0 .. share[1] - 1

Files == DOMAIN Rows

VARIABLES
    source,    \* file -> its state, which its size and times tell from the others
    part,      \* file -> its part on disk: the state that each row was read in
    manifest,  \* Nil or the records on disk
    preparing, \* the process with the prepare lock, or Nil
    prepare,   \* user -> the call of ensure_records
    jobs,      \* user -> file -> its conversion
    opened,    \* user -> Nil or the records that its ParquetPartsReader was made of
    tables,    \* user -> row groups and selections of them, the last used one last
    handles,   \* user -> open parts, the last used one last
    scan,      \* user -> Nil or the share that is read
    got,       \* user -> Nil or what the last read returned
    used       \* reads and deaths so far

tvars == <<source, part, manifest, preparing, prepare, jobs, opened, tables, handles, scan,
           got, used>>

\* write_record_batches: all groups are full but the last one.
GroupCount(count) == (count + RowGroupSize - 1) \div RowGroupSize
GroupBegin(g) == (g - 1) * RowGroupSize
GroupRows(count) ==
    [g \in 1 .. GroupCount(count) |-> Min({RowGroupSize, count - GroupBegin(g)})]

\* The totals of the counts up to each of them, and before each.
Totals(counts) ==
    LET total[n \in 0 .. Len(counts)] == IF n = 0 THEN 0 ELSE total[n - 1] + counts[n]
    IN total

Stops(counts) == [n \in DOMAIN counts |-> Totals(counts)[n]]
StartAt(stops, n) == IF n = 1 THEN 0 ELSE stops[n - 1]

-----------------------------------------------------------------------------
NotPreparing == [pc |-> "idle"]
NoJob == [pc |-> "none"]
NoJobs == [f \in Files |-> NoJob]

TInit ==
    /\ source = [f \in Files |-> 1]
    /\ part = [f \in Files |-> Nil]
    /\ manifest = Nil
    /\ preparing = Nil
    /\ prepare = [u \in Users |-> NotPreparing]
    /\ jobs = [u \in Users |-> NoJobs]
    /\ opened = [u \in Users |-> Nil]
    /\ tables = [u \in Users |-> <<>>]
    /\ handles = [u \in Users |-> <<>>]
    /\ scan = [u \in Users |-> Nil]
    /\ got = [u \in Users |-> Nil]
    /\ used = [reads |-> 0, deaths |-> 0]

\* Somebody writes the file anew.
Rewrite(f) ==
    /\ source[f] < Len(Rows[f])
    /\ source' = [source EXCEPT ![f] = @ + 1]
    /\ UNCHANGED <<part, manifest, preparing, prepare, jobs, opened, tables, handles, scan, got, used>>

-----------------------------------------------------------------------------
\* ensure_records: the cache is looked at without the lock and again with it.
ValidRecord(f, record) ==
    /\ record.state = source[f]
    /\ part[f] # Nil
    /\ record.groups = GroupRows(Len(part[f]))

PrepareStep(u, call) ==
    /\ prepare' = [prepare EXCEPT ![u] = call]
    /\ UNCHANGED <<source, part, tables, handles, scan, got, used>>

BeginPrepare(u) ==
    /\ prepare[u] = NotPreparing /\ opened[u] = Nil
    /\ PrepareStep(u, [pc |-> "look", at |-> 1, seen |-> manifest, since |-> source])
    /\ UNCHANGED <<manifest, preparing, jobs, opened>>

Leave(u) == IF preparing = u THEN preparing' = Nil ELSE UNCHANGED preparing

\* ensure_parts: where the rows of each file and of each group begin.
PartStops(records) == Stops([f \in Files |-> Totals(records[f].groups)[Len(records[f].groups)]])

OpenParts(u, records) ==
    /\ opened' = [opened EXCEPT ![u] =
                    [records |-> records, stops |-> PartStops(records),
                     groupStops |-> [f \in Files |-> Stops(records[f].groups)],
                     since |-> prepare[u].since]]
    /\ PrepareStep(u, NotPreparing)

Look(u) ==
    /\ prepare[u].pc = "look"
    /\ LET call == prepare[u]
       IN IF call.seen # Nil /\ call.at > Len(Rows)
          THEN OpenParts(u, call.seen) /\ Leave(u)
          ELSE /\ UNCHANGED <<preparing, opened>>
               /\ IF call.seen # Nil /\ ValidRecord(call.at, call.seen[call.at])
                  THEN PrepareStep(u, [call EXCEPT !.at = @ + 1])
                  ELSE IF preparing = u
                  THEN PrepareStep(u, [pc |-> "plan", at |-> 1, since |-> call.since, records |-> <<>>])
                  ELSE PrepareStep(u, [call EXCEPT !.pc = "wait"])
    /\ UNCHANGED <<manifest, jobs>>

TakeLock(u) ==
    /\ prepare[u].pc = "wait" /\ preparing = Nil
    /\ preparing' = u
    /\ PrepareStep(u, [prepare[u] EXCEPT !.pc = "look", !.at = 1, !.seen = manifest])
    /\ UNCHANGED <<manifest, jobs, opened>>

\* build_cache: what the previous records still say of a file is used again.
PlanFile(u) ==
    /\ prepare[u].pc = "plan"
    /\ LET call   == prepare[u]
           reused == manifest # Nil /\ ValidRecord(call.at, manifest[call.at])
       IN /\ PrepareStep(u, [call EXCEPT !.pc = IF call.at = Len(Rows) THEN "convert" ELSE "plan",
                                         !.at = @ + 1,
                                         !.records = Append(@, IF reused THEN manifest[call.at] ELSE Nil)])
          /\ jobs' = [jobs EXCEPT ![u][call.at] = IF reused THEN NoJob ELSE [pc |-> "new"]]
    /\ UNCHANGED <<manifest, preparing, opened>>

-----------------------------------------------------------------------------
\* convert_file_job, in the process itself or in a pool: the jobs interleave.
JobStep(u, f, job) ==
    /\ jobs' = [jobs EXCEPT ![u][f] = job]
    /\ UNCHANGED <<source, manifest, preparing, prepare, opened, tables, handles, scan, got, used>>

Working(u, f, pc) == prepare[u].pc = "convert" /\ jobs[u][f].pc = pc
Unchanged(u, f) == source[f] = jobs[u][f].state

BeginJob(u, f) ==
    /\ Working(u, f, "new")
    /\ JobStep(u, f, [pc |-> "open", state |-> source[f]])
    /\ UNCHANGED part

\* The header and the first block; the file may be rewritten under the reader.
ReadHead(u, f) ==
    /\ Working(u, f, "open")
    /\ LET count == Rows[f][source[f]]
       IN JobStep(u, f, IF ~Unchanged(u, f) \/ count < 0
                        THEN [pc |-> "failed"]
                        ELSE [pc |-> "head", state |-> source[f],
                              rows |-> [k \in 1 .. count \div 2 |-> source[f]]])
    /\ UNCHANGED part

ReadTail(u, f) ==
    /\ Working(u, f, "head")
    /\ LET job  == jobs[u][f]
           rest == Max({0, Rows[f][source[f]] - Len(job.rows)})
       IN JobStep(u, f, [job EXCEPT !.pc = "written",
                                    !.rows = @ \o [k \in 1 .. rest |-> source[f]]])
    /\ UNCHANGED part

\* Mutant: what was written is put in place whatever became of the file.
ReplaceUnseen(u, f) ==
    /\ Working(u, f, "written")
    /\ JobStep(u, f, [jobs[u][f] EXCEPT !.pc = "placed"])
    /\ part' = [part EXCEPT ![f] = jobs[u][f].rows]

ReplacePart(u, f) ==
    /\ Working(u, f, "written")
    /\ IF Unchanged(u, f)
       THEN /\ JobStep(u, f, [jobs[u][f] EXCEPT !.pc = "placed"])
            /\ part' = [part EXCEPT ![f] = jobs[u][f].rows]
       ELSE JobStep(u, f, [pc |-> "failed"]) /\ UNCHANGED part

EndJob(u, f) ==
    /\ Working(u, f, "placed")
    /\ JobStep(u, f, IF Unchanged(u, f)
                     THEN [pc |-> "done", state |-> jobs[u][f].state,
                           groups |-> GroupRows(Len(part[f]))]
                     ELSE [pc |-> "failed"])
    /\ UNCHANGED part

Made(u, f) == IF jobs[u][f] = NoJob THEN prepare[u].records[f]
              ELSE [state |-> jobs[u][f].state, groups |-> jobs[u][f].groups]

WriteManifest(u) ==
    /\ prepare[u].pc = "convert"
    /\ \A f \in Files : jobs[u][f].pc \in {"none", "done"}
    /\ manifest' = [f \in Files |-> Made(u, f)]
    /\ jobs' = [jobs EXCEPT ![u] = NoJobs]
    /\ PrepareStep(u, [prepare[u] EXCEPT !.pc = "written", !.records = manifest'])
    /\ UNCHANGED <<preparing, opened>>

EndBuild(u) ==
    /\ prepare[u].pc = "written"
    /\ OpenParts(u, prepare[u].records)
    /\ Leave(u)
    /\ UNCHANGED <<manifest, jobs>>

\* One job failed: the others that run come to their end, and the call raises.
FailBuild(u) ==
    /\ prepare[u].pc = "convert"
    /\ \E f \in Files : Working(u, f, "failed")
    /\ \A f \in Files : jobs[u][f].pc \in {"none", "new", "done", "failed"}
    /\ jobs' = [jobs EXCEPT ![u] = NoJobs]
    /\ PrepareStep(u, NotPreparing)
    /\ Leave(u)
    /\ UNCHANGED <<manifest, opened>>

\* A process dies with its pool.
Die(u) ==
    /\ used.deaths < MaxDeaths
    /\ prepare[u] # NotPreparing
    /\ prepare' = [prepare EXCEPT ![u] = NotPreparing]
    /\ jobs' = [jobs EXCEPT ![u] = NoJobs]
    /\ used' = [used EXCEPT !.deaths = @ + 1]
    /\ Leave(u)
    /\ UNCHANGED <<source, part, manifest, opened, tables, handles, scan, got>>

-----------------------------------------------------------------------------
\* The rows of a reader: parts follow each other, groups follow each other in a part.
PartStart(u, f) == StartAt(opened[u].stops, f)
RowCount(u) == Last(opened[u].stops)
GroupStart(u, f, g) == PartStart(u, f) + StartAt(opened[u].groupStops[f], g)

\* bisect_right over the stops of the parts and over those of the groups
PartOf(u, i) == CHOOSE f \in Files : PartStart(u, f) <= i /\ i < opened[u].stops[f]
GroupAt(u, f, i) ==
    CHOOSE g \in DOMAIN opened[u].groupStops[f] :
        GroupStart(u, f, g) <= i /\ i - PartStart(u, f) < opened[u].groupStops[f][g]

\* An OrderedDict of at most so many entries.
Newest(entries, most) == SubSeq(entries, Max({1, Len(entries) - most + 1}), Len(entries))
PlaceUnder(entries, key) == CHOOSE k \in DOMAIN entries : entries[k].key = key
IsIn(entries, key) == \E k \in DOMAIN entries : entries[k].key = key
Under(entries, key) == entries[PlaceUnder(entries, key)]
Without(entries, key) ==
    IF IsIn(entries, key) THEN RemoveAt(entries, PlaceUnder(entries, key)) ELSE entries

\* An open part, or the part as it is on disk now.
Handle(u, f) == IF IsIn(handles[u], f) THEN Under(handles[u], f) ELSE [key |-> f, rows |-> part[f]]

\* The rows of a group as they are in a file: which row of the file, in which state.
GroupIn(f, rows, g) ==
    [k \in 1 .. Max({0, Min({RowGroupSize, Len(rows) - GroupBegin(g)})}) |->
        [file |-> f, row |-> GroupBegin(g) + k - 1, state |-> rows[GroupBegin(g) + k]]]

Taken(rows, offsets) == [k \in DOMAIN offsets |-> rows[offsets[k] + 1]]

\* _read_group: a group, or the rows of a share in it; a selection of all its rows
\* is kept as the group.  Rows that the file has no more are an error: <<>>.
Whole == <<-1>>
KeyOf(f, g, offsets, rows) ==
    <<f, g, IF offsets = [k \in DOMAIN rows |-> k - 1] THEN Whole ELSE offsets>>
Select(offsets, rows) == IF offsets = Whole THEN rows ELSE Taken(rows, offsets)
Fits(offsets, rows) == offsets = Whole \/ \A k \in DOMAIN offsets : offsets[k] < Len(rows)

GroupRowsNow(u, f, g) ==
    IF IsIn(tables[u], <<f, g, Whole>>) THEN Under(tables[u], <<f, g, Whole>>).rows
    ELSE GroupIn(f, Handle(u, f).rows, g)

Fetched(u, f, g, offsets) ==
    IF IsIn(tables[u], <<f, g, offsets>>) THEN Under(tables[u], <<f, g, offsets>>).rows
    ELSE LET all == GroupRowsNow(u, f, g)
         IN IF all # <<>> /\ Fits(offsets, all) THEN Select(offsets, all) ELSE <<>>

KeepGroup(u, f, g, offsets, rows) ==
    LET key == IF IsIn(tables[u], <<f, g, offsets>>) THEN <<f, g, offsets>>
               ELSE KeyOf(f, g, offsets, GroupRowsNow(u, f, g))
    IN tables' = [tables EXCEPT ![u] =
                    Newest(Append(Without(@, key), [key |-> key, rows |-> rows]), MaxTables)]

\* A part is opened for a group that is not cached, and stays open when the group
\* turns out not to be in it.
OpenPart(u, f, g, offsets) ==
    handles' = IF IsIn(tables[u], <<f, g, offsets>>) \/ IsIn(tables[u], <<f, g, Whole>>)
               THEN handles
               ELSE [handles EXCEPT ![u] = Newest(Append(Without(@, f), Handle(u, f)), MaxHandles)]

Reading(u) ==
    UNCHANGED <<source, part, manifest, preparing, prepare, jobs, opened>>

Answer(share, indexes, rows, error) ==
    [share |-> share, indexes |-> indexes, rows |-> rows, error |-> error]

\* ParquetPartsReader.__getitem__
ReadRow(u, i) ==
    /\ opened[u] # Nil /\ scan[u] = Nil
    /\ used.reads < MaxReads
    /\ i \in 0 .. RowCount(u) - 1
    /\ used' = [used EXCEPT !.reads = @ + 1]
    /\ LET f    == PartOf(u, i)
           g    == GroupAt(u, f, i)
           rows == Fetched(u, f, g, Whole)
           k    == i - GroupStart(u, f, g) + 1
       IN /\ OpenPart(u, f, g, Whole)
          /\ IF rows = <<>> THEN UNCHANGED tables ELSE KeepGroup(u, f, g, Whole, rows)
          /\ got' = [got EXCEPT ![u] = IF k \in DOMAIN rows
                                       THEN Answer(Nil, <<i>>, <<rows[k]>>, FALSE)
                                       ELSE Answer(Nil, <<i>>, <<>>, TRUE)]
    /\ Reading(u) /\ UNCHANGED scan

\* iter_part_shard: the rows whose number leaves the shard as remainder, group by group.
BeginScan(u, share) ==
    /\ opened[u] # Nil /\ scan[u] = Nil
    /\ used.reads < MaxReads
    /\ used' = [used EXCEPT !.reads = @ + 1]
    /\ scan' = [scan EXCEPT ![u] = [share |-> share, file |-> 1, group |-> 1,
                                    indexes |-> <<>>, rows |-> <<>>]]
    /\ Reading(u) /\ UNCHANGED <<tables, handles, got>>

ShareIn(share, start, count) ==
    LET first == (share[2] - start) % share[1]
    IN IF first >= count THEN <<>>
       ELSE [k \in 1 .. (count - first - 1) \div share[1] + 1 |-> first + (k - 1) * share[1]]

EndScan(u, error) ==
    /\ got' = [got EXCEPT ![u] = Answer(scan[u].share, scan[u].indexes, scan[u].rows, error)]
    /\ scan' = [scan EXCEPT ![u] = Nil]
    /\ UNCHANGED tables

ScanGroup(u) ==
    /\ scan[u] # Nil
    /\ UNCHANGED used /\ Reading(u)
    /\ LET s == scan[u]
           f == s.file
       IN IF f > Len(Rows) THEN EndScan(u, FALSE) /\ UNCHANGED handles
          ELSE IF s.group > Len(opened[u].records[f].groups)
          THEN /\ scan' = [scan EXCEPT ![u].file = f + 1, ![u].group = 1]
               /\ UNCHANGED <<tables, handles, got>>
          ELSE LET start   == GroupStart(u, f, s.group)
                   offsets == ShareIn(s.share, start, opened[u].records[f].groups[s.group])
                   rows    == Fetched(u, f, s.group, offsets)
               IN IF offsets = <<>>
                  THEN /\ scan' = [scan EXCEPT ![u].group = @ + 1]
                       /\ UNCHANGED <<tables, handles, got>>
                  ELSE IF rows = <<>> THEN EndScan(u, TRUE) /\ OpenPart(u, f, s.group, offsets)
                  ELSE /\ KeepGroup(u, f, s.group, offsets, rows)
                       /\ OpenPart(u, f, s.group, offsets)
                       /\ scan' = [scan EXCEPT ![u].group = @ + 1,
                                               ![u].indexes = @ \o [k \in DOMAIN offsets |-> start + offsets[k]],
                                               ![u].rows = @ \o rows]
                       /\ UNCHANGED got

\* A process that is forked, or that gets the reader by pickle, opens parts of its own.
Inherit(u, v) ==
    /\ opened[u] # Nil /\ opened[v] = Nil /\ prepare[v] = NotPreparing
    /\ opened' = [opened EXCEPT ![v] = opened[u]]
    /\ UNCHANGED <<source, part, manifest, preparing, prepare, jobs, tables, handles, scan, got, used>>

CloseReader(u) ==
    /\ handles[u] # <<>>
    /\ tables' = [tables EXCEPT ![u] = <<>>]
    /\ handles' = [handles EXCEPT ![u] = <<>>]
    /\ Reading(u) /\ UNCHANGED <<scan, got, used>>

TNext ==
    \/ \E f \in Files : Rewrite(f)
    \/ \E u \in Users :
          \/ BeginPrepare(u) \/ Look(u) \/ TakeLock(u) \/ PlanFile(u)
          \/ \E f \in Files : BeginJob(u, f) \/ ReadHead(u, f) \/ ReadTail(u, f)
                              \/ ReplacePart(u, f) \/ EndJob(u, f)
          \/ WriteManifest(u) \/ EndBuild(u) \/ FailBuild(u) \/ Die(u)
          \/ opened[u] # Nil /\ \E i \in 0 .. RowCount(u) - 1 : ReadRow(u, i)
          \/ \E share \in Shares : BeginScan(u, share)
          \/ ScanGroup(u) \/ CloseReader(u)
          \/ \E v \in Users : Inherit(u, v)

-----------------------------------------------------------------------------
\* No part on disk mixes two states of its file, and a record that is valid for a
\* file as it is was made from a part with the rows of just that state.
PartsAreWhole ==
    \A f \in Files :
        /\ part[f] # Nil => Cardinality(ToSet(part[f])) <= 1
        /\ manifest # Nil /\ ValidRecord(f, manifest[f]) => ToSet(part[f]) \subseteq {source[f]}

\* A reader speaks of states that its files had since its prepare call began.
OpenedIsFresh(u) ==
    \A f \in Files : opened[u].records[f].state \in opened[u].since[f] .. source[f]

\* A row is the one at its place in its file, as it was prepared or as the file was
\* rewritten and prepared again since; a share has the rows of its remainder, each
\* once and in order; and no read fails unless a file was rewritten.
AnswerIsRight(u) ==
    LET a == got[u]
    IN /\ a.error => \E f \in Files : source[f] > opened[u].records[f].state
       /\ \A k \in DOMAIN a.rows :
            LET f == PartOf(u, a.indexes[k])
            IN /\ a.rows[k].file = f
               /\ a.rows[k].row = a.indexes[k] - PartStart(u, f)
               /\ a.rows[k].state \in opened[u].records[f].state .. source[f]
       /\ a.share # Nil /\ ~a.error =>
            /\ ToSet(a.indexes) = {i \in 0 .. RowCount(u) - 1 : i % a.share[1] = a.share[2]}
            /\ \A k \in 1 .. Len(a.indexes) - 1 : a.indexes[k] < a.indexes[k + 1]

\* Whatever is rewritten, prepared at the same time, fails or dies, and whatever
\* groups and parts a reader still holds (_tabular_parquet.py:190, 440, 583, 696).
RowsHold ==
    /\ PartsAreWhole
    /\ \A u \in Users : opened[u] # Nil =>
        OpenedIsFresh(u) /\ (got[u] # Nil => AnswerIsRight(u))
=============================================================================
