# anydataset: models and proofs

TLA+ models of the parts of anydataset that are hard to test: caches, catalogs
and coordinators shared by threads and processes, with crashes, failures and
retries. Each module is translated from the code (paths below are relative to
`src/anydataset/`), checked by TLC on small instances and, where said so, proved by
TLAPS for every value of its constants.

    tlc -config FilterCache.cfg MCFilterCache           # one of the runs
    tlapm Filters_proof.tla                             # the proofs of a module

`PROJECT.json` lists the components, the runs with their properties, the source lines
behind every definition (`map`), for every property a mutation of the code that it
catches (`mutants`), the disagreements between documents and code (`findings`), the
hazards and the theorems.

## 1. Inventory

What the system is made of, what each part keeps, and what makes it correct. *Hard*
names the behaviours a unit test hardly reaches.

| Part (code) | State | Operations | Hard | Correct when |
|---|---|---|---|---|
| Filter cache (`filter/cache/generations.py`, `ready.py`, `filter/runtime/apply.py`) | immutable generations, `current.json`, `.lease` files, a FileLock | `ensure_filter`, `write_cache`, `cleanup_filter_generations` | readers without a lock against removers; crashes between two file system steps; rebuilds | a leased generation stays whole, the pointer never dangles, answers are exact, every call returns |
| Filter resume (`filter/cache/resume.py`, `filter/runtime/resume_writer.py`) | `resume.json`, fragments | prepare, write fragment, replay, cleanup | crash inside `rmtree`; requests of another variant | fragments of two variants never mix, durable work is kept and not repeated |
| Filter storage (`filter/cache/storage.py`) | shards per label, cached pages | write, read by position and slice | pages read out of order, a merge kept open, labels with few indexes | a read is the one of the merged partitions |
| Live filter (`filter/api.py`, `live.py`, `dataset/view.py`) | decisions of a background thread, selections, leases | open, read, close | reading and closing while a chain of rules judges or raises | early answers are final, close leaves nothing behind, nothing waits for ever |
| Decision prefixes (`filter/decision.py`) | one generation per window of a growing input | `produce`, `status`, `load` | workers that race for a window | stored windows are a prefix of the input and agree |
| Online replacement (`filter/online.py`) | buffer, rates, served map | `__getitem__` | probing wraps around, too many rejects, a predicate that raises | a sample is the one that its recorded index says |
| Coverage (`dataset/coverage.py`) | completed, in flight, available, owners, sticky error | `claim`, `claim_batch`, `complete`, `fail`, `wait`, `wait_complete`, `close`, `abort` | one condition variable for all; values dropped by counting | one owner per index, values kept exactly while owed, no lost wake-up |
| Snapshots (`store/materialize/snapshots.py`, `Materializer.produce`/`open`) | fragments, segments, `catalog.json`, producer lock | `produce`, `open` | crash between segment and catalog, fragments out of order, growing or shrinking sources | an open dataset is a prefix of the catalog, the catalog only grows, nothing is recomputed |
| Materializer (`store/materialize/materializer.py`, `worker.py`, `store/part/*`) | resume directory, parts, output | `write`, `snapshot`, per device workers, `DatasetWriter` | one worker fails while others wait, orphans of a dead caller, staged calls | only whole stores are published, finished work is mergeable and never redone, a retry publishes |
| Write sink (`_runtime/write_pipeline.py`, `store/materialize/fragments.py`) | buffered outputs, reserved indexes, pending futures, ready queue, first error | `submit`, `flush`, `close`, `abort` | backpressure, failure in a callback, errors while other writes run | bounded, each index written once, a block that ends well has lost nothing |
| Parallel collection (`filter/runtime/collect.py`) | per worker queue and buffer | workers, ordered merge | dead or silent workers, full queues | the output is that of the sequential scan |
| Store files (`store/payload/files.py`) | extracted files, flocks, a registry per process | lease, extract, fork, pickle, cleanup | fork and exit around a cleanup, a shard replaced during extraction | a leased path keeps its bytes |
| Store reader (`store/reader.py`, `store/manifest/*`, `store/payload/archive.py`) | validated manifests, LRU caches of row groups and archives | open, `__getitems__`, fork, close | a store rebuilt at its path between any two reads | a payload is that of the index that was asked for |
| Tabular sources (`dataset/source/_tabular_parquet.py`, `sharded_csv.py`, `tsv.py`) | parts, manifest, FileLock, caches | prepare, read a row, scan a share | files rewritten while they are converted or read, a process that dies | a row is at its own place, of one state of its file |
| Hub file lists (`dataset/source/hf_files.py`) | manifest | list, check, write | a revision that moves while it is listed | all processes number rows by one list |
| DDP plans (`dataset/_ddp.py`) | per rank plans | exchange of lengths and counts | a rank that fails or runs out | collectives pair, shares partition, no rank waits alone |
| Batching (`dataset/batching.py`, `_shuffle.py`) | window, costs, planner | plan batches | windows, padding and cost limits, drop of tails | each index once, the best batch of the window |
| Collation and codecs (`dataset/collate.py`, `provider/codec.py`, `dataset/morphology/utterance.py`) | none | pad, group, encode, collate | padding, groups of one rate and length, codes of odd lengths | a sample in a batch is the sample alone |
| Speaker grids (`dataset/speaker.py`, `dataset/morphology/grid.py`) | index arithmetic over a flat store | label, group, select, collate | cells out of order, role order, wrong axes | a cell is the text and the speaker of its place |
| Provider service (`provider/service.py`, `_server.py`, `_transport.py`) | socket path, server process, connections | start, stop, call, close | probes and unlinks of one path by several processes, killed servers | a server answers at its own path, stops leave nothing, requests come back |
| S2ST synthesis (`synthesis/s2st/*`) | saved growth state, one catalog per stage | plan, publish, open input, seal | growth by several processes, crash between publication and saving | stages are prefixes of each other, new languages come first |
| Online view (`MaterializingViewDataset` in `materializer.py`; nothing constructs it at this commit) | coverage, write sink, sweep thread | `__getitem__`, `close` | foreground against sweep | not modelled, see 7 |
| Presets, types, row maps, quality scorers, model adapters, runtime utilities | immutable or none | decode, score | no concurrency of their own | unit tests |

Interactions: the filter and the materializer both scan a dataset with the runtime's
workers, hand finished chunks to a write sink whose threads make fragments durable, and
publish by renaming a directory under a FileLock. Consumers (`FilterCache`, `LiveFilter`,
`SnapshotDataset`, `StoreDataset`) read published directories without the lock and rely on
renames, leases and immutability. A `DecisionView` makes one filter generation per window of a
snapshot catalog. Stages of the synthesis follow each other's catalogs. Samplers plan over
the length of such a growing dataset, and what they draw is collated and encoded.

## 2. Modules

| Module | What it is |
|---|---|
| `FilterCache` | the cache directory of one rule and identity, shared by processes |
| `PartitionIndex`, `IndexReader` | how a generation is cut into shards and read by position; a reader of one |
| `Selections` | windows, snapshot segments and the state of a selection: operators shared by the next two |
| `LiveFilter` | chains of filter runs that judge while they are read and closed |
| `DecisionPrefix` | the windows of a growing input that a rule has judged |
| `OnlineReplace` | a dataset that serves other samples for rejected ones |
| `Coverage` | `CoverageCoordinator`, shared by threads |
| `PublishedPrefix` | abstract: a log of segments that grows until it is final, and readers that hold the log of one moment |
| `SnapshotCatalog` | `Materializer.produce` and `open` over one root; implements `PublishedPrefix` |
| `StoreCommit` | stores as values, and how fragments and parts are merged into stores |
| `Materializer` | `write`, `snapshot`, the device workers and `DatasetWriter` over `StoreCommit` |
| `OrderedScan` | abstract: a scan that delivers its rows in order, in chunks |
| `OrderedCollect` | `collect_ranges_parallel`: worker processes, their queues and the merge; implements `OrderedScan` |
| `DurableSet` | abstract: what is accepted becomes durable in pieces, is reported afterwards, and all of it when the block ends well |
| `WriteSink` | `FragmentOutputSink` over `BackgroundWriteSink`; implements `DurableSet` |
| `StoreFiles` | extracted payload files and their leases |
| `StoreReader` | a `StoreDataset` whose store is rebuilt at its path |
| `TabularParts`, `HubFiles` | sources of delimited text and of repository files |
| `SampleOrder`, `BatchPlan` | which rank reads which sample, and how a window becomes a batch: operators |
| `PlanSync` | ranks that plan, exchange and train |
| `SpeakerGrid` | texts spoken by speakers, as grid and as batch |
| `AudioBatches` | padded batches, their codes, utterances |
| `ProviderService` | servers that share a socket path, and their callers |
| `S2STGrowth`, `S2STCatalog` | `plan_growth`; the catalog of a stage: operators |
| `S2STStages` | growers, translators and synthesizers; two pairs of stages implement `PublishedPrefix` |
| `Filters_proof`, `Coverage_proof`, `StoreReads_proof`, `Services_proof`, `Datasets_proof`, `OrderedCollect_proof`, `S2STStages_proof`, `Materializer_proof` | inductive invariants and refinements, proved; `Filters_proof` is about `FilterCache` and `LiveFilter`, `StoreReads_proof` is about `StoreFiles`, `StoreReader` and `SnapshotCatalog`, `Services_proof` about `WriteSink` and `ProviderService`, `Datasets_proof` about `PlanSync`, `TabularParts` and `HubFiles` |
| `MC*` | small instances for TLC |

`MCStoreReads`, `MCServices` and `MCDatasets` put several modules into one run. These modules share no state; a variable, or which input is empty, picks the one whose
steps a behaviour takes, so that the run checks each as if it were alone.

### FilterCache

The file system is a set of variables: `dir` (each generation is absent, whole, torn while
`rmtree` runs, or gone), `lease` (which have a `.lease` file), `rule` and `content` (what
they record), `pointer` (`current.json`) and `resume` (key and fragments). `lock`, `sh` and
`ex` are the FileLock and the flocks; they vanish with a process, the files do not. A call
walks through `pc`, one label per file system step:

- *lookup* `ReadPointer, OpenLease, FlockShared, VerifyLease, Reread, CheckReady`
  (`lease_current_filter_generation`, `ready_filter_generation`), first without the lock,
  then under it (`Miss`);
- *build* `Discard ... UnlinkPointer` (rebuild), `Prepare, Prepared`
  (`prepare_filter_resume_dir`), `Collect` (one fragment), `BuildFails`,
  `PublishGeneration, WritePointer, PinPublished` (`create_filter_generation`), `Tidy,
  Tidied`;
- *cleanup* `Scan, Sweep, TryExclusive, Tear, Torn, SweepDone`
  (`cleanup_filter_generations_locked`), `RemovalFails`;
- `Crash` at any label.

A *variant* is the sample count and whether metrics are stored: what a request depends on
and the cache path does not fix. A judgement is a pair of index and variant, so that mixed
fragments show. `rmtree` takes two steps, `Tear`/`Torn` for a generation and a nondeterministic
remnant (`Remnants`) for the resume directory; its quarantine fallback ends like a
successful removal. `PinPublished` is one step because only the holder of the FileLock,
which is the caller, could remove the generation.

### Coverage

One variable per field of the coordinator; `att` is the attempts ever made, `leases` the
leases of a thread's batch. Everything happens under one `Condition`: operations are single
steps, except that a `claim_batch` makes several claims in one hold of it (`monitor`), and a
`wait` parks its thread until a `notify_all` (`parked`; `NotifyAll` empties it). The owner's
work happens between claim and `Complete`/`Fail`. A thread settles all it owns before it
waits, as `MaterializingViewDataset` does. Values are not modelled, only whether an attempt
(`value`) or a lease (`local`) retains one.

### SnapshotCatalog and PublishedPrefix

`durable` are the fragments of the staging directory, `staging` the sample count its
`resume.json` records, `segments` the directories under `snapshots/`, `catalog` the content
of `catalog.json`, `stray` a temporary file left by a crash. A producer's call goes through
`Begin, OpenSource, MakeStaging, PrepareStaging, InitialiseRoot`/`OpenCatalog, PublishLeftover`, computes
(`WriteFragment` by background threads in any order, `Record` on the producer's thread,
`Computed`), publishes (`PublishTo, CommitSegment, WriteCatalog, ReplaceCatalog`), seals
(`WrapUp`), and ends by `End`, `Fail` or `Crash`. Every call sees a source of any length up
to `MaxCount`, sealed or not. Consumers read the catalog, list the root if there is none, and
open the segments. A fragment holds one sample (`commit_samples = 1`, the finest case). A
producer that dies or fails between the `mkdir` of the staging directory and the write of its
`resume.json` leaves a directory (`Bare`) that every later call refuses until somebody removes
it (`store/materialize/resume.py:50-62`).

`PublishedPrefix` is what a user may rely on. The mapping takes the catalog on disk to the
log, its `sealed` flag to `final`, and what a consumer read to what it holds.

### OrderedCollect and OrderedScan

Each worker has a loader (`todo`, the rows of its shard in the order its DataLoader
delivers them), a judged chunk it wants to put (`held`) and a queue of `QueueSize`
messages. The caller is a generator: `TakeRow` consumes the next index from the buffer of the
rank it belongs to, or reads that rank's queue until it is there (`ReadChunk`, `ReadReport`,
`ReadFailure`, and on an empty queue `SeeDead`, `TimeOut`); after the last row it waits for every
report (`StartDraining`, `Drained`) and joins (`Join`). The consumer may give up at a chunk
(`Abandon`). Workers may raise, hang, crash, and leave with exit status 0 without a report
(`QuietExit`, a `sys.exit()` in a predicate: `SystemExit` is no `Exception`). A crash loses
any suffix of the messages of its queue. How rows are divided is computed: map-style data by
`SelectedIndexSampler` over the missing indexes, iterable data by rank and DataLoader worker
(`FlatIndex`) with the batches of the DataLoader workers in turn (`Place`); an iterable may be
longer or shorter than its length (`Deviation`).

`OrderedScan` is what `collect_ranges_sequential` does. `wanted` maps to the targets of the job.

### WriteSink and DurableSet

The block's thread is in one call at a time (`call`, `pc`): `Checked` is the error check and
the intake of a `submit`, `Emit` cuts jobs of `commit_samples`, `Polled`, `FullRaises`,
`Enqueue` and `WriteInline` are `BackgroundWriteSink.submit`, `Flushed`, `Shutdown`, `Abort`
and `Aborted` the ends. Finished jobs are picked up only where the code does (`Takes`), one
per `Complete`; a callback may raise there. `RaiseCall` is where an exception goes: out of the
block for a `submit`, over the flush of the pool for `flush` and `close`. The pool starts jobs
in order and ends them in any (`StartJob`, `Written`, `WriteFails`).

`DurableSet` has only what was accepted, stored and reported. `accepted` maps to
`_reserved_indexes`, `reported` to the contents of the reported jobs.

### StoreCommit and Materializer

A store is a value: provenance, the sample manifest, a manifest per view and the payload keys
of every shard. `StoreCommit` merges such values as `commit_store_fragments` and the bounded
merges do, `FanIn` at a time, with every check they make; `Failed` is any exception.

`Materializer` has one caller of `write()` that calls again and again, because callers
serialise on a FileLock, and the processes of a call (`crew`). `Run` is a worker: fragments in
any order within the write window (`WriteFragment`), the barrier, `ReadSlice`, `PartEnds`. Workers
raise or are killed, the caller may be killed too, and then its workers live on as `orphans` on
the same resume directory. `Finish` merges parts, or fragments when nothing was missing, into
`output` by one rename, `Cleanup` removes the resume directory, `Snapshot` publishes a
prefix elsewhere, and `OpenWriter`/`CloseWriter` is a `DatasetWriter` on the same output, which
takes no lock. A cast says which calls are made, whether the dataset is indexed or a stream,
perhaps shorter than it says, and how much may go wrong.

Fragments an orphan leaves behind with another partition of the indexes overlap those of the
next call, and compaction then raises until they are removed by hand: the properties exempt
casts with orphans where they must. A worker that leaves with exit status 0 before the barrier
makes `write` wait for ever; it takes a `sys.exit()` in user code and is not modelled.

### LiveFilter, DecisionPrefix, PartitionIndex, IndexReader

`LiveFilter` has a chain of at most two runs over one universe, those with a ready generation first. `decided` and `complete` are
what a background thread has published, `builder` where it stands (`Observe`, `ApplyRaises`,
`ApplyReturns`, `PublishAll`, `PublishConflicting`, `EndRaised`, `Finish`, `ReturnLease`). A chunk that contradicts
an earlier decision publishes the samples before that one, and then its thread ends. A read (`call`) goes through the
selections of its view one by one (`Look`, `Looked`, `Again`) and parks on the condition of a run
(`WaitDecision`, `WaitComplete`); a close is a stack of frames, because closing a run closes its
view, the selections, the universe and the runs below (`stack`). A run may have a ready
generation, its rule may raise or leave labels open, and the last view may be rebased. A ready run that is
opened over a live view gives a plain `SelectionView` (`live.py:456-468`) and is not modelled.

`DecisionPrefix` cuts a growing input into windows. `produce`, `status` and `load` of several
workers interleave window by window; how one window becomes a generation is `FilterCache`'s.
`PartitionIndex` is the data of a generation (shards, merged pages, the sequential merge that is
kept open) as operators, `IndexReader` reads positions and slices in any order.

Not everything that was read there is a property. `SelectionView.close`, and `run.close` of the
last run of a chain, close the shared universe before they wait for runs upstream that still scan
it (`view.py:392`), whereas `docs/filter_cache.md:51` has the runs end first: the scan then
raises, which the model shows as a failed run. `claim_close` of a view is not locked. If
`read_partitions` raises in `DecisionView.load`, the lease of that window is not yet in the list
that is closed (`decision.py:206`). With `rebuild=True` two racing producers may republish a
window with other decisions when the rule is not deterministic; `Agrees` and the inputs of
`DecisionPrefix` are about rules as the documents ask for them.

### StoreFiles

Lock files (`locks`) are open file descriptions with a set of holders, because a fork shares
them; `registered` is the count per process, `leases` what it holds, `files` the extracted
bytes by shard version. `AskRegistry, LockExclusive, RemoveFile, EndCleanup` are a cleanup,
`NamePath, ReadShard, StoreFile` an extraction, `ReplaceShard` a store that is rebuilt at its
path by its user; the library never does that. A process forked while another thread is
inside `cleanup_store_files` inherits the exclusive lock: leases then wait until that child
exits.

### StoreReader

`Rebuild` replaces the store under its readers. Opening is `StatManifest, ReadLayout,
ValidateIndex, Restat` and, with preloading, `LoadView, CheckCoverage`; a request goes index by
index through `ReadSample, OpenView, ReadEntry` and, for a payload, `FindArchive ... ReadBytes`,
with the caches of row groups and archives as sequences in order of use. `ForkReader` and
`Pickle` make the second reader; a forked one shares open file descriptions and their
positions. The three stores differ in counts, row groups, order and sidecars, and one
is broken. `dataset.json` is read before the sample manifest is looked at, so a rebuild in between may
pair an old layout with new samples of the same count; rows cached from the old store may
meet payloads of the new one. A payload key is the sample index, so neither gives another
sample's payload, which is what `StoreReadsHold` says. One view is modelled.

### TabularParts and HubFiles

`Rewrite` changes a file of the source at any time. `BeginPrepare, Look, TakeLock, PlanFile`
and a job per file (`BeginJob, ReadHead, ReadTail, ReplacePart, EndJob`) are `prepare`,
`WriteManifest` publishes it; rows are read by number (`ReadRow`) or in shares (`BeginScan`,
`ScanGroup`) through cached groups and handles, which a fork inherits. A process may die at any
point, and its pool with it. A reader whose part is prepared again sees newer rows or an
error, never rows at a wrong place. `ReplacePart` takes the last look at the file and `os.replace` as one
step; a file that changes between them fails the second look in `EndJob`. `HubFiles` lists a repository page by page while its revision
moves: pages may mix states, and what is written once is the list of every process. `SourcesSpec`
puts the two side by side.

### SampleOrder, BatchPlan and PlanSync

`SampleOrder` is index groups, shuffling and shares, `BatchPlan` costs, windows and the choice
of the next batch. A rank of `PlanSync` goes through `BeginEpoch` (refresh, costs), `Measure` and the
exchange of lengths, `Order`, `PlanBatch` until its window or its share is planned, `PostCount`
and the exchange of counts, `RefusePlans` or `Keep`, and `Train`, whose gradients are a
collective too; `Iterate` is a training without planned batches. A collective returns when all
ranks called the same one. `stranded` records ranks that raise where the code has no
exchange to tell the others in: in window mode planning errors leave the loop at once
(`_ddp.py:147`), and in either mode a rank whose refresh or materialized costs fail at the
beginning of an epoch leaves before any exchange (`batching.py:209`, `219-227`). `EveryTrainingEnds`
excepts both: such a failure hangs the other ranks until the backend's timeout, which
`docs/design.md:230-232` does not say. Costs that are materialized for an append-only dataset are computed before the
exchange of lengths: a rank that fails there posts its -1 while the others compare lengths,
two collectives of different kinds; no instance has such a training because what the backend then
does is not in the code. `BatchesAreBest` compares the binary searches with the best of all *ranges* of the cost
order, the limit of padding first; the repository's `README.md:161-164` states another rule,
see section 6. With three ranks (3.1 million states) nothing else turns up.

### OnlineReplace, SpeakerGrid, AudioBatches

`OnlineReplace` is one worker's `RejectReplaceDataset`: `KeepOwn`, `Break` when the predicate
raises, and `ReplaceSample` by a probed neighbour or a buffered sample; ratios are in percent.

`SpeakerGrid` makes a flat store of cells (`Make`, whose speech is the external `Voice`), loads rows
(`Group`) and parts of them (`Select`), looks at them as speech grid (`View`) and collates
(`CollateGrids`). Cells do not store the role of a text, so whole rows of one source that are
swapped between its roles cannot be detected; the property compares cells with the text that
is returned, and with the role that was asked for only where the store is in order.
`SpeechGridView.texts` and `shape` load whole rows without naming a view and hence raise on
stores with two views where `full()` works.

`AudioBatches` pads sounds (`CollateSamples`), encodes a batch in groups of one rate and length
(`CallBatch`), and collates codes and utterances (`CollateCodes`, `CollateUtterances`). Tokenizer and
resampler are external functions of the exact units; dtype and device are left out.

### ProviderService

`path` is what is bound at the socket path, a listener being an owner and its start. `at` is an
owner's call: `BeginStart, Spawn, Ping, Pong`, the ends `StartFails, EndProcess, Unlinked`, and
`BeginStop, Closed`. `server` is its process: `Opened, Load, Bind, Serve, CallEnds, CloseSocket,
UnlinkListener, Left`. `unlink_address` takes three steps wherever it is called (`LookAtPath`,
`Probed`, `RemovePath`): see whether the path exists, connect, unlink. Connections queue at a
listener and are served one at a time. Servers are killed (`Killed`), callers vanish (`GiveUp`).

Owners use one path in turn (`"turns"`), try to start while another may be up but never two
calls at a time (`"guarded"`), or in any order (`"any"`). The documents ask for one path per
live server, so safety of the path is stated for the first two. In any order it does not hold: a
start may be answered by the other owner's server, and the late unlink of a closing
process removes the socket of a new one. Two limits of `stop()` show in reading but not in a
property: it sends CLOSE without a timeout, so that a provider call that hangs blocks it for ever
although `docs/provider_service.md` promises `shutdown_timeout`, and it closes whichever server
took over the path of a dead one. A failed cleanup leaves `_process` set, and
`socket_in_use` does not catch `EOFError`.

### S2STGrowth, S2STCatalog, S2STStages

`S2STGrowth` is `plan_growth`: which rows of which slots are admitted next and which pairs of family and
target language are planned, a pure function. `S2STCatalog` has the checks an entry of a stage passes.
In `S2STStages` growers plan and publish (`Plan, PublishSource, Save`), followers pin the suffix
they lack and publish what they computed (`LoadOwn, OpenInput, Publish`), and every publication
is a commitment (`LockTimeout, RepeatCommit, RefuseCommit, WriteIndex, WriteCatalog,
CheckSeal, Seal`) under the lock of its stage. Slots grow and are sealed, a language and a second slot of an older one are added, a
process crashes. `SameCommit` leaves the `config_revision` out, a name that nothing else in the model reads. A grower that dies between publishing and saving plans the same delta again.

'''
## 3. Runs

| Run | Bounds | Shows |
|---|---|---|
| `filter_cache` | 2 processes, 3 generation ids, counts 1 and 2 with and without metrics, rebuild, cleanup, 3 calls, 1 crash, lock timeouts, fairness | `LeasedStaysWhole`, `CurrentIsWhole`, `AnswerIsExact`, `NoRejudge`, `WorkIsKept`, `EveryCallReturns` |
| `coverage_safe` | 3 threads, 2 indexes (one durable beforehand), batches `<<0>>`, `<<0,1,1>>`, 6 attempts, 3 calls, fairness | `AttemptsAreExact`, `NoLostValue`, `EveryCallEnds` |
| `coverage_sticky` | as `coverage_safe`, 4 calls | violation, see 6 |
| `store_reads` | 2 producers, 1 consumer, sources up to 4 samples, `max_new_samples` 1 or 2, 4 calls, 1 crash; 2 processes, 2 shard versions, 3 lock files, 2 leases, 1 cleanup; 2 readers, 3 stores, 2 requests, caches of 1; 2 files of 4 and 1 rows in groups of 2, 2 reads, 1 death; 3 revisions in pages of 2, 1 death | `CatalogIsBacked`, `NoRecompute`, `SealsCompleteInput`, `ImplementsPrefix`; `PathsHold`; `StoreReadsHold`; `SourcesHold` |
| `snapshot_one_per_call`, `snapshot_empty_prefix` | sources up to 3, 3 calls, 1 crash | violations, see 6 |
| `ordered_collect` | 2 workers with 2 loader workers each, 7 rows, chunks of 3, worker chunks of 1, queues of 1, one resumable index, iterables one longer or shorter | `SharesHold` (shards agree, work ahead is bounded), `NothingIsHidden`, `ImplementsScan`, `EveryScanEnds` |
| `services` | 6 indexes, one durable, 5 overlapping batches, jobs of 2, 2 pending, inline or 2 threads; 2 owners, 1 client, up to 2 starts each, 2 requests, 1 kill | `ImplementsDurableSet`, `ServersHold`, `EveryoneReturns` |
| `s2st_stages` | 2 languages, a third and a second slot of the first, 1 row per slot; 2 growers; 2 racing translators; all stages with a crash | `FamiliesHold` (plans are complete, new languages first, one source record each), `StagesAligned`, `StagesArePrefixes` |
| `materializer` | 5 samples, fragments and shards of 2, merges of 2, 1 and 2 devices, 2 faults, 2 crashes, orphans, snapshots, a writer | `OutputIsWhole`, `FinishSucceeds`, `WorkIsReused`, `WritesEnd`, `RetryPublishes` |
| `datasets` | 2 ranks, 11 samples, 2 epochs, 1 failing cost function, windows of 4; 6 reads of sources of 6; 2 sources by 2 roles by 2 speakers; batches of 3 sounds; chains of at most 2 runs over 3 samples, 2 threads with 1 call each; 2 workers over inputs of 4 samples in windows of 2; 7 indexes, shards and pages of 2, 4 reads | `CollectivesMatch`, `EvenPartition`, `BatchesAreBest`, `EveryTrainingEnds`; `SamplesHold` (replacements, grids, batches); `AnswersHold`, `CloseIsThorough`, `EveryReadReturns`; `StoredDecisionsHold` (prefixes and reads) |
| `batches_not_full` | as `datasets` | violation, see 6 |

Why the bounds are enough. Two processes are a reader or builder and a remover; three ids let a
reader hold one generation while two newer ones are published, which is when a remover meets
it, and the proofs take any number of processes. Two counts and the metrics flag give every pair
of compatible and incompatible requests. For coverage, three threads are an owner, a value waiter
and one that closes, aborts or owns another index; a repeated index in a batch makes a thread
wait for itself. For snapshots four samples and `max_new_samples` 2 allow a call that leaves a
gap, one that fills it, one that appends and one that seals. For the collection, a shard of four
rows is longer than what one worker can hold ahead (`QueueSize` is 2 in the code and 1 here, so
that three rows are the limit), chunks of 3 straddle both shards, and 7 rows leave a rest. For the
sink, two pending jobs beside two running threads reach backpressure, and batches overlap what is
buffered, being written and durable; jobs are at most one per index, so `JobLimit` never
binds. For the materializer, 5 samples in fragments of 2 on 2 devices leave an odd one and
three fragments, which merges of two take in two rounds. Caches of one entry evict at every
second use. For the plans, a budget that one sample exceeds, padding and a window larger than a
batch make the best batch differ from the first; 9 samples over 2 ranks leave a tail. In the
grid two roles of two sources are the least in which rows, roles and speakers can be mistaken for
each other. Two owners and one kill reach a stale path and a probe of a live one.

Bounds on calls, attempts and crashes only end behaviours; all limits are conjuncts of guards
named in the modules. Processes are interchangeable where a run without liveness uses symmetry.
Deadlock is not checked because a bounded number of calls really ends.

## 4. Fairness

`FilterCache!FairSpec` is weak fairness of each process's running call, `Coverage!FairSpec`
of each thread's running call. Both say that a started call is scheduled. Nothing makes
anybody call, close a lease or crash, so `EveryCallReturns` holds against readers that
keep their leases for ever. Collection (`filter/runtime/collect.py`) is assumed to end or
raise, and so is the owner's work between claim and `complete`: both are user code. With
weak fairness two processes may take the FileLock in any order; calls are bounded, so a waiter
is not overtaken for ever.

`OrderedCollect!FairSpec` makes the caller a running thread (its `get` has a timeout, so it looks
again) and lets every worker that neither hangs nor dies go on; `TimeOut` belongs to the caller and
needs `worker_timeout`. What a worker's user code does, and the consumer's giving up, is not
fair. `WriteSink` has weak fairness of the running call and of each job in the pool: writes
end, well or not. Nothing makes the block call. `ProviderService!PFairness` runs servers and
owners: factories and provider calls return, timeouts pass; nothing makes a client call.
`LiveFilter!LFairness` runs the background threads, which judge user rules that end or raise, and
the calls of threads, one fairness condition for a thread's reading and one for its closing.

`Materializer!FairSpec` makes the caller call again (that is what a retry is) and schedules
every worker of its own; failures, kills and crashes are bounded by the cast and never fair on
their own, except that a worker whose fragment already exists can only raise. `PlanSync!RanksGoOn`
lets every rank that can step go on, and every collective return that all ranks called. It is
written with `[]<>` over what a step changes because ENABLED of a planning step is costly.

'''
## 5. Proofs

Every theorem holds for all values of the constants that satisfy the named ASSUMEs of the
modules (null values are no members, bounds are natural numbers, requests are records of the
right type, a path is no listener). TLC evaluates these in every run. Each invariant below is a
conjunction of named parts with one step per action.

**Filter cache** (`Filters_proof`). `LeasedStaysWhole` alone is not inductive: one also
needs that an exclusive flock is held exactly while a superseded generation is being removed
(`RemoverHoldsVictim`), that shared and exclusive flocks exclude each other
(`FlockExcludes`), that everything which changes the pointer happens under the lock
(`LockIsOwned`, `SeenIsCurrent`), and that a lease is on a whole generation as soon as it has been
verified (`SharedIsPinned`): the reader's second look at the `.lease` file makes that true.
`ExactInv` builds on that: fragments beside a readable `resume.json` belong to its variant, a running
build has prepared the directory for its own (`BuildIsKeyed`), hence a published generation
judges every index once (`WholeIsExact`), and a lease is only kept on a generation that serves the
request (`LeaseAnswers`). `RemovalIsDue` says that whoever is about to remove fragments was
told to rebuild, or finds fragments of another variant, or publishes a generation that holds
them; `WorkIsKept` follows. `BuildIsDue` says that who builds has found, under the lock, that
`current.json` does not serve its request, and the lock keeps it so: with the resume directory's
contents this gives `NoRejudge`, that no index with a durable fragment is judged again and nobody builds
what is already published.

**Snapshots** (`StoreReads_proof`, last part). One producer at a time has a call (`OneProducer`), the
catalog in its memory is the one on disk or one step ahead while it is written
(`MemoryFollowsDisk`), segments and catalog are backed by fragments (`Backed`), and a call has
planned what it writes (`BeforeCompute`, `NoRecompute`). A consumer's catalog stays a prefix because
every change of the published one is a `Grown` or `Finished` step; the same lemma gives the step
simulation of `PrefixImplemented`. `CountsItsSource` adds what a call counts: its fragments belong to
the source as found, each is recorded or about to be, nothing is left when it settles, and
a catalog declared final counts all samples of a sealed source. With lemmas about
cardinalities of prefixes this gives `SealsCompleteInput`.

**Coverage** (`Coverage_proof`). `CoverInv`: a `claim_batch` has the monitor for all of its claims
(`ClaimsAreAlone`), leases are those of the batch a thread works on (`LeasesAreWork`), and
`AttemptsInv`: the counter `active` is the number of attempts in flight, a lease is of an
attempt at its index and owes nothing once it was waited for (`LeasesAreExact`), an attempt in
flight runs and has one lease to complete it (`InflightRuns`), a lease loses its attempt only to an
abort, which takes all (`LossIsTotal`), `value_waiters` counts at least the leases that still want the
value (`WaitersAreCounted`), and a value that is retained is owed to somebody (`ValuesAreOwed`). `AttemptsAreExact`, `NoLostValue` and the
stickiness of failures follow.

**Store files and reads** (`StoreReads_proof`). Of `StoreFiles`: locks exclude each other
although forks share their descriptions (`LocksExclude`), a lease is a registered shared lock
(`LeasesAreLocks`), a cleanup past its lock holds it (`CleanersHold`), and a file that somebody was
given is leased (`KeptAreLeased`); `PathsHold` follows. Of `StoreReader`: `OpeningInv` is about a
call of `read_store_dataset`: what it saw is of its store unless the store changed since, so what passed
`Restat` is of one manifest. `ReadingInv` relates a request to the two caches: what is known
of an open archive is true of the shard it was opened on (`ArchiveHolds`), the one in use is of the
shard the request needs (`Serves`), readers whose caches carry different pids share no description
(`Apart`), so nobody else moves the position between `seek` and `read`, and an answer has what
was asked for, in order, from stores of the time of the request (`AnswerHolds`).

**Write sink and provider service** (`Services_proof`). An accepted index is in the buffer or
in exactly one job until something raises (`NothingIsDropped`, `EachOnce`), a job is pending
until it is reported or its error is remembered (`JobsArePending`), and what raises is on its way
out of the block (`CallIsPlaced`). A block that reaches `closed` has everything written and
reported, the step of `DurableSet` that is hard (`EndWell`); `QuietAfterEnd` gives that no thread
writes afterwards. For servers, `ServiceInv` says for any use which request a busy process
serves (`CallInv`) and which process a handle is (`HandleInv`). Where calls do not overlap,
`AloneInv`, `PathInv`, `ProbeInv` and `PingInv` say whose socket is at the path at each point of a
start or stop, and for guarded owners `GuardedInv`, that only a stop closes. From all of them follows
`ServersHold`.

**Plan synchronisation** (`Datasets_proof`). `SyncInv`: a rank that posted to a collective waits in
it (`PostedWaits`); with a loader the exchanged counts, the steps taken and the steps to take agree
(`CountsAgree`, `TakenAgree`, `GoalsAgree`), an error of a rank is told with the batch counts
(`ErrorsAreTold`), and all ranks that still run go to the same collective of the same epoch
(`OneCollective`). `CollectivesMatch` is proved under `CostsAreTold`: costs that are
materialized for an append-only dataset are used in window mode only. The excluded case is the
hazard at `dataset/batching.py:231`, where the code does call different collectives.

**Tabular and Hub sources** (`Datasets_proof`). `RowsInv` holds for any files, any number of rewrites,
processes, cache sizes and shares. Under the lock each record that a call has kept is of a state since
the call began or still valid (`CallGood`, `PartSince`), and a conversion past its checks has the rows of one
state of its file (`GoodJob`); what was replaced meanwhile is seen by the last look at the file. A reader's
counts come from its records, while its part may have been prepared again: what it keeps are groups of states
since its records (`GoodTables`, `GoodHandles`, `Reached`), so a row has the place of its number
(`RightRow`) even when it is of a newer state, and an error means that a file was rewritten. A scan has
the numbers of its share up to where it is, in order (`ScanGood`). Totals are a recursive function:
`TotalsAre` takes the least place where it would be undefined, in place of an induction, and `StopsOf` and
`GroupStopsOf` say where files and groups begin. `HubInv`: who lists a repository has the lock, uses no
names yet and finds no list until it replaces it; what it has read is sorted, and the names a
process uses are those on disk. Together they give `SourcesHold`.

**Ordered collection** (`OrderedCollect_proof`). `CollectInv` places every row: what was
delivered is what was taken of the targets, in order (`DeliveredInv`), a shard is the rows the caller
read, those queued, those lost with the process, those in the worker's hand and those to come
(`SplitInv`), a report is the last message and tells whether the worker went through its shard
(`ReportInv`), chunks, queues and buffers are bounded (`RoomInv`), and only a collection with nothing
left completes (`FinishInv`). The lemmas about `FlattenSeq` and the order of the targets take the
least number where they would fail, in place of an induction.
`NothingIsHidden`, `SharesHold` and the refinement of `OrderedScan` follow.

**Live filters** (`Filters_proof`). `CloseInv` follows the calls of `close()` that have
not returned, the frames of a stack per thread: a closed run has ended and has given its
generation back, or the frame that claimed it still will (`RunInv`); its view is closed or will be
(`ViewInv`); with a view the source is closed, and every run of the view is or will be
(`SourceInv`). A step of a closing thread hands on what its top frame
promised. A thread without frames has closed all that it was asked to close,
`CloseIsThorough`. Nothing is assumed of the reading part. `ReadInv` is about reads while runs decide:
what is decided stays decided (`Kept`), the samples before the one a read is at are decided and
it has counted those that all selections chose (`Passed`), and of that sample the selections
asked so far said yes (`AskedYes`). So an answer is a count over decided samples (`AnswerInv`), and
what the final states say of them is the same (`AnswersHold`): cardinalities of the chosen positions
before a sample need no induction.

**Materializer** (`Materializer_proof`). `WorkInv`: without orphans the jobs of all workers share no
sample, of one worker or of several (`JobsApart`), none is of a sample that a fragment holds
(`JobsMissing`), and no sample is in two fragments (`FragmentsApart`). A call establishes this because
the missing indexes are distinct and not completed (`Remaining`: the loop is a recursive function, and
the lemmas take the least index where one would fail), slices with a stride share no position
(`StridesDiffer`) and neither do chunks (`ChunksApart`). `WorkIsReused` follows. Nothing is said there of
what a fragment holds: merging is only model-checked.

**Synthesis stages** (`S2STStages_proof`). A catalog is entries that adjoin, each with an index file,
and files of one id have the same records (`DiskHolds`); so a position keeps its record for ever
(`RecordsStay`). `Follows` says that a stage is the beginning of the one above. It is kept because of
what calls know, although neither stage was locked when they looked: the catalog an input was pinned
from is still how the stage above begins, and the input is the next part of it (`InputHolds`); a manifest
has the records and the end of its input (`FollowerHolds`), and a commit past its checks has the lock, so
that its end is still the end of its stage plus its records (`CommitHolds`): start and stop of the input
are those of the new entry. A follower in `seal` has found its stage complete below a sealed one, and
neither changes any more. The proofs only assume that a publisher is of one stage and that
`max_samples` is positive.

Only model-checked:

- liveness (`EveryCallReturns`, `EveryReadReturns`, `EveryCallEnds`, `EveryScanEnds`, `EveryoneReturns`,
  `EveryTrainingEnds`, `WritesEnd`, `RetryPublishes`): fairness and ENABLED are outside
  the prover;
- `OutputIsWhole`, `FinishSucceeds`, `FamiliesHold`, `EvenPartition`, `BatchesAreBest`, `SamplesHold`,
  `StoredDecisionsHold`: they compare what folds, recursive definitions and `SelectSeq` compute
  with a reference, which needs induction over data.

## 6. Where documents and code differ

- `coverage_sticky`: after a failure, a waiter for the value of another index may get
  "no longer available" instead of the failure (`dataset/coverage.py:306`).
- `snapshot_one_per_call`: a `produce` call may publish two snapshots after an earlier call
  failed and left a gap (`snapshots.py:163`), although the document says at most one.
- `snapshot_empty_prefix`: opening a root during its first catalog write, or for ever after a
  crash in it, raises instead of giving the empty prefix (`snapshots.py:257`,
  `_io/files.py:23`).
- `batches_not_full`: the repository's `README.md:161-164` has the planner "greedily" add "the
  fitting sample that makes the batch as full as possible". The code adds nothing one by one: it
  considers ranges of the cost order only and puts `max_padding_ratio`, which no document mentions,
  before fullness (`dataset/batching.py:408-580`). Of the costs 1, 1, 3 and 3 with a budget of 8 and
  a padding limit of 1/4, all four fit, but the batch is 1, 3 and 3.

## 7. Not modelled

- `MaterializingViewDataset` (`materializer.py`, 1835-2168): nothing in the repository constructs it.
  Its parts, coverage and sink, are modelled without it.
- Encodings (Parquet, JSON, tar), logging, progress, statistics and argument checks.
- Quality scorers, the model libraries behind the providers, presets and value types: they keep no
  shared state, and their errors are the failures the models already allow.
- Row maps, store schema migration and maintenance, the Hugging Face dataset reader, collation of text,
  out-of-memory bisection: sequential code over immutable data that unit tests reach.
- TCP addresses and other authkeys of the provider service; process pools of the write sink (no caller asks for one).
- `scripts/` and benchmarks.

File systems are taken to be POSIX: rename is atomic, flocks are released by the kernel. NFS
without working flock is outside the models. Threads of one process that share a FileLock are
excluded by its thread lock as processes are by the flock, so the models do not tell them apart.

## 8. What is left

Every part that keeps state which several actors share is modelled, but for the view named
above. What would add most next, in this order:

1. Proofs: that a family has one source record (`SourcesAreWhole`); `FinishSucceeds`, which needs what a
   merge of many stores returns.
2. The two layers of the filter in one: `DecisionPrefix` with the windows of `FilterCache`.
3. Row maps and out-of-memory bisection against reference definitions.
