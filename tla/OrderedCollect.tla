--------------------------- MODULE OrderedCollect ---------------------------
(***************************************************************************)
(* collect_ranges_parallel: one process per device judges its shard of a   *)
(* dataset and puts chunks of rows on a bounded queue of its own; the      *)
(* caller, a generator, merges the queues into the order of the indexes,   *)
(* yields chunks, and at the end waits for every worker's report and exit. *)
(*                                                                         *)
(* Workers are processes of user code.  A predicate may raise, hang, crash *)
(* the process, or leave it with status 0 (sys.exit); messages that were   *)
(* put but not yet written to the pipe are lost in a crash.                *)
(***************************************************************************)
EXTENDS Integers, Sequences, FiniteSets, SequencesExt

CONSTANTS
    SampleCount,    \* len(dataset)
    Workers,        \* min(len(devices), sample_count)
    CommitSamples,  \* rows of a chunk the caller yields
    WorkerCommit,   \* rows of a chunk a worker puts, _worker_commit_samples
    QueueSize,      \* _WORKER_QUEUE_SIZE
    Loaders,        \* DataLoader workers of one process
    BatchSize,      \* rows of a DataLoader batch
    Resumable,      \* bound: the indexes that may have been completed before
    Deviation       \* bound: rows an iterable yields beyond or short of its length

ASSUME SizesAssumption ==
    /\ SampleCount \in Nat \ {0}
    /\ Workers \in 1 .. SampleCount
    /\ CommitSamples \in Nat \ {0}
    /\ WorkerCommit \in 1 .. CommitSamples
    /\ QueueSize \in Nat \ {0}
    /\ Loaders \in Nat \ {0}
    /\ BatchSize \in Nat \ {0}
    /\ Resumable \subseteq 0 .. SampleCount - 1
    /\ Deviation \in 0 .. SampleCount

Ranks == 0 .. Workers - 1

VARIABLES
    job,      \* what the caller asks for; it does not change
    worker,   \* rank -> the state of its process
    todo,     \* rank -> rows its loader has still to deliver
    held,     \* rank -> the chunk it has judged and not put
    raised,   \* ranks whose code raised
    queue,    \* rank -> messages in its queue
    phase,    \* where the caller is
    taken,    \* targets consumed
    rows,     \* rows of the chunk being assembled
    chunks,   \* chunks yielded
    buffer,   \* rank -> rows received and not consumed
    done,     \* ranks whose report was received
    outcome

workers == <<worker, todo, held, raised, queue>>
caller == <<phase, taken, rows, chunks, buffer, done, outcome>>
vars == <<job, worker, todo, held, raised, queue, phase, taken, rows, chunks, buffer, done,
          outcome>>

-----------------------------------------------------------------------------
(* The rows, and how they are divided.                                     *)

\* A job: whether the dataset is map-style, the indexes that were completed
\* before, the rows an iterable really yields, whether worker_timeout is set.
Jobs ==
    {j \in [mapStyle : BOOLEAN, resumed : SUBSET Resumable,
            actual : SampleCount - Deviation .. SampleCount + Deviation, timeout : BOOLEAN] :
        /\ j.mapStyle => j.actual = SampleCount
        /\ Cardinality(j.resumed) < SampleCount}

Missing(j) == (0 .. SampleCount - 1) \ j.resumed

\* The members of a set of integers, the least first.
Ascending(S) ==
    [k \in 1 .. Cardinality(S) |-> CHOOSE i \in S : Cardinality({q \in S : q < i}) = k - 1]

\* What has the places, in their order.
Arrange(place) ==
    LET order == Ascending({place[i] : i \in DOMAIN place})
    IN [k \in DOMAIN order |-> CHOOSE i \in DOMAIN place : place[i] = order[k]]

\* _ordered_worker_targets without its ranks.
Targets(j) == Ascending(Missing(j))

\* The rank the caller expects index i from.
TargetRank(j, i) ==
    IF j.mapStyle THEN Cardinality({k \in Missing(j) : k < i}) % Workers ELSE i % Workers

FlatCount == Workers * Loaders

FlatIndexByRank(r, l) == r * Loaders + l

\* Shard.flat_index: of loader worker l in process r.
FlatIndex(r, l) == l * Workers + r

\* The batch of its process an iterable's row i arrives in: the DataLoader
\* takes one batch of each loader worker in turn.
Place(r, i) ==
    LET l == CHOOSE l \in 0 .. Loaders - 1 : i % FlatCount = FlatIndex(r, l)
        p == i \div FlatCount
    IN ((p \div BatchSize) * Loaders + l) * BatchSize + (p % BatchSize)

\* The rows process r reads, without resumed ones.
ShardOf(j, r) ==
    IF j.mapStyle
    THEN {i \in Missing(j) : TargetRank(j, i) = r}
    ELSE {i \in (0 .. j.actual - 1) \ j.resumed :
            \E l \in 0 .. Loaders - 1 : i % FlatCount = FlatIndex(r, l)}

\* They come in the order of its loader.
ShardRows(j, r) ==
    IF j.mapStyle THEN Ascending(ShardOf(j, r))
    ELSE Arrange([i \in ShardOf(j, r) |-> Place(r, i)])

Chunk(s) == [kind |-> "chunk", rows |-> s]
Report(failed) == [kind |-> "report", failed |-> failed]

Init ==
    /\ job \in Jobs
    /\ worker = [r \in Ranks |-> "new"]
    /\ todo = [r \in Ranks |-> ShardRows(job, r)]
    /\ held = [r \in Ranks |-> <<>>]
    /\ raised = {}
    /\ queue = [r \in Ranks |-> <<>>]
    /\ phase = "starting"
    /\ taken = 0
    /\ rows = <<>>
    /\ chunks = <<>>
    /\ buffer = [r \in Ranks |-> {}]
    /\ done = {}
    /\ outcome = "none"

-----------------------------------------------------------------------------
(* Worker processes.                                                       *)

Alive(r) == worker[r] \in {"scanning", "putting", "reporting", "leaving", "hung"}

\* An exit code other than 0.
ExitedBadly(r) == worker[r] \in {"crashed", "killed"}

HasRoom(r) == Len(queue[r]) < QueueSize

PutUnbounded(r, message) == queue' = [queue EXCEPT ![r] = Append(@, message)]

Put(r, message) == HasRoom(r) /\ queue' = [queue EXCEPT ![r] = Append(@, message)]

\* The next chunk: full, or the rest of the shard.
Judge(r) ==
    /\ worker[r] = "scanning"
    /\ todo[r] # <<>>
    /\ LET n == IF Len(todo[r]) < WorkerCommit THEN Len(todo[r]) ELSE WorkerCommit IN
        /\ held' = [held EXCEPT ![r] = SubSeq(todo[r], 1, n)]
        /\ todo' = [todo EXCEPT ![r] = SubSeq(todo[r], n + 1, Len(todo[r]))]
    /\ worker' = [worker EXCEPT ![r] = "putting"]
    /\ UNCHANGED <<job, raised, queue, caller>>

\* output.put(chunk), which waits while the queue is full.
PutChunk(r) ==
    /\ worker[r] = "putting"
    /\ Put(r, Chunk(held[r]))
    /\ held' = [held EXCEPT ![r] = <<>>]
    /\ worker' = [worker EXCEPT ![r] = "scanning"]
    /\ UNCHANGED <<job, todo, raised, caller>>

ShardEnds(r) ==
    /\ worker[r] = "scanning"
    /\ todo[r] = <<>>
    /\ worker' = [worker EXCEPT ![r] = "reporting"]
    /\ UNCHANGED <<job, todo, held, raised, queue, caller>>

\* A factory, the loader or the predicate raises, or the loader after its last
\* row; rows judged for the next chunk are dropped.
Raise(r) ==
    /\ worker[r] = "scanning"
    /\ raised' = raised \cup {r}
    /\ worker' = [worker EXCEPT ![r] = "reporting"]
    /\ UNCHANGED <<job, todo, held, queue, caller>>

PutReport(r) ==
    /\ worker[r] = "reporting"
    /\ Put(r, Report(r \in raised))
    /\ worker' = [worker EXCEPT ![r] = "leaving"]
    /\ UNCHANGED <<job, todo, held, raised, caller>>

\* The interpreter finalizes and the process exits with status 0.
Leave(r) ==
    /\ worker[r] = "leaving"
    /\ worker' = [worker EXCEPT ![r] = "left"]
    /\ UNCHANGED <<job, todo, held, raised, queue, caller>>

\* SystemExit(0) in user code passes `except Exception` and the report.
QuietExit(r) ==
    /\ worker[r] = "scanning"
    /\ worker' = [worker EXCEPT ![r] = "quit"]
    /\ UNCHANGED <<job, todo, held, raised, queue, caller>>

\* In user code; a process that hangs while it is finalized stays "leaving".
Hang(r) ==
    /\ worker[r] = "scanning"
    /\ worker' = [worker EXCEPT ![r] = "hung"]
    /\ UNCHANGED <<job, todo, held, raised, queue, caller>>

Crash(r) ==
    /\ Alive(r)
    /\ worker' = [worker EXCEPT ![r] = "crashed"]
    /\ \E n \in 0 .. Len(queue[r]) : queue' = [queue EXCEPT ![r] = SubSeq(@, 1, n)]
    /\ UNCHANGED <<job, todo, held, raised, caller>>

Worker(r) == Judge(r) \/ PutChunk(r) \/ ShardEnds(r) \/ PutReport(r)

Environment(r) == Raise(r) \/ Leave(r) \/ QuietExit(r) \/ Hang(r) \/ Crash(r)

-----------------------------------------------------------------------------
(* The caller.                                                             *)

\* The finally block: terminate and join what was started.
End(how) ==
    /\ phase' = "ended"
    /\ outcome' = how
    /\ worker' = [r \in Ranks |-> IF Alive(r) THEN "killed" ELSE worker[r]]
    /\ UNCHANGED <<job, todo, held, raised, queue, taken, rows, chunks, buffer, done>>

\* process.start(), in the order of the ranks.
Start ==
    /\ phase = "starting"
    /\ \E r \in Ranks :
        /\ worker[r] = "new"
        /\ \A q \in 0 .. r - 1 : worker[q] # "new"
        /\ worker' = [worker EXCEPT ![r] = "scanning"]
        /\ phase' = IF r = Workers - 1 THEN "merging" ELSE phase
    /\ UNCHANGED <<job, todo, held, raised, queue, taken, rows, chunks, buffer, done, outcome>>

StartFails == phase = "starting" /\ End("failed")

Merging == phase = "merging" /\ taken < Len(Targets(job))

Wanted == Targets(job)[taken + 1]

WantedRank == TargetRank(job, Wanted)

YieldFull(s) ==
    IF Len(s) = CommitSamples
    THEN chunks' = Append(chunks, s) /\ rows' = <<>> /\ phase' = "yielded"
    ELSE rows' = s /\ UNCHANGED <<chunks, phase>>

TakeAnyRow ==
    /\ Merging
    /\ \E i \in buffer[WantedRank] :
        /\ buffer' = [buffer EXCEPT ![WantedRank] = @ \ {i}]
        /\ taken' = taken + 1
        /\ YieldFull(Append(rows, i))
    /\ UNCHANGED <<job, workers, done, outcome>>

TakeRow ==
    /\ Merging
    /\ Wanted \in buffer[WantedRank]
    /\ buffer' = [buffer EXCEPT ![WantedRank] = @ \ {Wanted}]
    /\ taken' = taken + 1
    /\ YieldFull(Append(rows, Wanted))
    /\ UNCHANGED <<job, workers, done, outcome>>

RowIsAwaited ==
    /\ Merging
    /\ Wanted \notin buffer[WantedRank]
    /\ WantedRank \in done
    /\ UNCHANGED vars

\* "finished before emitting sample"
RowIsMissing ==
    /\ Merging
    /\ Wanted \notin buffer[WantedRank]
    /\ WantedRank \in done
    /\ End("failed")

\* The consumer asks for the next chunk, or closes the generator: its write of
\* the last one may have failed.
Resume ==
    /\ phase = "yielded"
    /\ phase' = "merging"
    /\ UNCHANGED <<job, workers, taken, rows, chunks, buffer, done, outcome>>

Abandon == phase = "yielded" /\ End("abandoned")

YieldRest ==
    /\ phase = "merging" /\ taken = Len(Targets(job))
    /\ rows # <<>>
    /\ chunks' = Append(chunks, rows)
    /\ rows' = <<>>
    /\ phase' = "yielded"
    /\ UNCHANGED <<job, workers, taken, buffer, done, outcome>>

StartJoining ==
    /\ phase = "merging" /\ taken = Len(Targets(job))
    /\ rows = <<>>
    /\ phase' = "joining"
    /\ UNCHANGED <<job, workers, taken, rows, chunks, buffer, done, outcome>>

\* All rows are out; the reports are waited for rank by rank.
StartDraining ==
    /\ phase = "merging" /\ taken = Len(Targets(job))
    /\ rows = <<>>
    /\ phase' = "draining"
    /\ UNCHANGED <<job, workers, taken, rows, chunks, buffer, done, outcome>>

ReadsAny(r) == phase \in {"merging", "draining"} /\ r \notin done

\* The caller reads the queue of r.
Reads(r) ==
    \/ Merging /\ r = WantedRank /\ r \notin done /\ Wanted \notin buffer[r]
    \/ phase = "draining" /\ r \notin done /\ (0 .. r - 1) \subseteq done

ReadChunk(r) ==
    /\ Reads(r)
    /\ queue[r] # <<>>
    /\ LET message == Head(queue[r]) IN
        /\ message.kind = "chunk"
        /\ buffer' = [buffer EXCEPT ![r] = @ \cup ToSet(message.rows)]
    /\ queue' = [queue EXCEPT ![r] = Tail(@)]
    /\ UNCHANGED <<job, worker, todo, held, raised, phase, taken, rows, chunks, done, outcome>>

ReadReport(r) ==
    /\ Reads(r)
    /\ queue[r] # <<>>
    /\ Head(queue[r]).kind = "report"
    /\ ~Head(queue[r]).failed
    /\ done' = done \cup {r}
    /\ queue' = [queue EXCEPT ![r] = Tail(@)]
    /\ UNCHANGED <<job, worker, todo, held, raised, phase, taken, rows, chunks, buffer, outcome>>

ReadFailure(r) ==
    /\ Reads(r)
    /\ queue[r] # <<>>
    /\ Head(queue[r]).kind = "report"
    /\ Head(queue[r]).failed
    /\ End("failed")

\* The queue of r stayed empty for a while: look at every exit code.
SeeDead(r) ==
    /\ Reads(r)
    /\ queue[r] = <<>>
    /\ \E q \in Ranks : ExitedBadly(q)
    /\ End("failed")

\* No message of any worker for worker_timeout seconds.
TimeOut(r) ==
    /\ Reads(r)
    /\ queue[r] = <<>>
    /\ \A q \in Ranks : ~ExitedBadly(q)
    /\ job.timeout
    /\ End("failed")

\* The reports are in; rows nobody asked for are an error.
Drained ==
    /\ phase = "draining" /\ done = Ranks
    /\ IF \A r \in Ranks : buffer[r] = {}
       THEN /\ phase' = "joining"
            /\ UNCHANGED <<job, workers, taken, rows, chunks, buffer, done, outcome>>
       ELSE End("failed")

\* _join_completed_workers: who is alive after the grace period is terminated,
\* or killed, and not held against the result.
Join ==
    /\ phase = "joining"
    /\ phase' = "ended"
    /\ outcome' = IF \E r \in Ranks : ExitedBadly(r) THEN "failed" ELSE "complete"
    /\ worker' = [r \in Ranks |-> IF Alive(r) THEN "killed" ELSE worker[r]]
    /\ UNCHANGED <<job, todo, held, raised, queue, taken, rows, chunks, buffer, done>>

Caller ==
    \/ Start \/ TakeRow \/ RowIsMissing \/ Resume \/ YieldRest \/ StartDraining \/ Drained \/ Join
    \/ \E r \in Ranks :
        ReadChunk(r) \/ ReadReport(r) \/ ReadFailure(r) \/ SeeDead(r) \/ TimeOut(r)

Next ==
    \/ Caller \/ StartFails \/ Abandon
    \/ \E r \in Ranks : Worker(r) \/ Environment(r)

Spec == Init /\ [][Next]_vars

\* The caller is a running thread that polls; a worker that neither hangs nor
\* dies goes on.
FairSpec == Spec /\ WF_vars(Caller) /\ \A r \in Ranks : WF_vars(Worker(r))

-----------------------------------------------------------------------------
\* Every variable has its type; a queue holds at most its maxsize.
TypeOK ==
    /\ job \in Jobs
    /\ worker \in [Ranks -> {"new", "scanning", "putting", "reporting", "leaving", "hung",
                             "quit", "left", "crashed", "killed"}]
    /\ \A r \in Ranks :
        /\ todo[r] \in Seq(Nat) /\ held[r] \in Seq(Nat)
        /\ Len(queue[r]) <= QueueSize
        /\ \A k \in DOMAIN queue[r] : queue[r][k].kind \in {"chunk", "report"}
        /\ buffer[r] \subseteq Nat
    /\ raised \subseteq Ranks /\ done \subseteq Ranks
    /\ phase \in {"starting", "merging", "yielded", "draining", "joining", "ended"}
    /\ taken \in 0 .. Len(Targets(job))
    /\ rows \in Seq(Nat) /\ chunks \in Seq(Seq(Nat))
    /\ outcome \in {"none", "complete", "failed", "abandoned"}

RowsIn(q) == FlattenSeq([k \in DOMAIN q |-> IF q[k].kind = "chunk" THEN q[k].rows ELSE <<>>])

\* What _read_worker_message checks of a chunk never fails: a DataLoader worker's
\* shard lies inside the shard its process has for the caller, rows come once.
ShardsAgree ==
    \A r \in Ranks :
        LET arriving == RowsIn(queue[r]) \o held[r] \o todo[r] IN
            /\ IsInjective(arriving)
            /\ ToSet(arriving) \cap buffer[r] = {}
            /\ \A i \in ToSet(arriving) \cup buffer[r] : TargetRank(job, i) = r

\* Rows a worker has judged and the caller has not consumed.
Ahead(r) == Len(held[r]) + Len(RowsIn(queue[r])) + Cardinality(buffer[r])

\* A fast worker cannot fill the memory while the caller waits for a slow one:
\* a map-style shard has at most one chunk in each of the worker's hand, the slots
\* of its queue and the caller's buffer.
WorkAheadIsBounded ==
    job.mapStyle => \A r \in Ranks : Ahead(r) <= (QueueSize + 2) * WorkerCommit

\* A collection that ends well hides nothing: no worker raised, every judged or
\* readable row was delivered, and an iterable was not longer than its length.
NothingIsHidden ==
    outcome = "complete" =>
        /\ raised = {}
        /\ \A r \in Ranks : todo[r] = <<>> /\ held[r] = <<>> /\ queue[r] = <<>> /\ buffer[r] = {}
        /\ job.actual <= SampleCount

\* Workers judge disjoint shares, the ones their rank stands for, and stop at their
\* bounded queues.
SharesHold == ShardsAgree /\ WorkAheadIsBounded

Scan == INSTANCE OrderedScan WITH wanted <- Targets(job)

\* Chunks are those of an ordered scan by one process, whatever the timing, order
\* and failures of the workers; completion is only reported after the last row.
ImplementsScan == Scan!Spec

\* No interleaving of full queues, reports and deaths leaves the caller waiting
\* for ever; only a worker that hangs or exits with 0 and no report can, and only
\* without worker_timeout.
EveryScanEnds ==
    <>(\/ phase = "ended"
       \/ ~job.timeout /\ \E r \in Ranks : worker[r] \in {"hung", "quit"})
=============================================================================
