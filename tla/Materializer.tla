---------------------------- MODULE Materializer ----------------------------
(***************************************************************************)
(* write() of a materializer: one process per device computes its share of *)
(* the missing samples into immutable fragments, waits for the others at a *)
(* barrier and merges its share of the fragments into a part; the caller   *)
(* watches them, merges the parts (or, when nothing was missing, the       *)
(* fragments) into the output directory by one rename and removes the      *)
(* resume directory.  DatasetWriter.write with several shards takes part   *)
(* as a second way to fill the output, without the materializer lock, and  *)
(* snapshot() publishes a completed prefix elsewhere.                      *)
(*                                                                         *)
(* Callers of write() serialise on one FileLock, so one caller is modelled *)
(* that calls again and again.  When it dies its worker processes may live *)
(* on as orphans; directories outlive every process.                       *)
(***************************************************************************)
EXTENDS StoreCommit

CONSTANTS
    Absent,    \* a directory that does not exist, no run, no call
    Ids,       \* identities of input, provider and output: also the provenance
    Devices,   \* the most devices of a call
    Writers,   \* callers of DatasetWriter.write on the same output
    Expected,  \* len(dataset)
    Commit,    \* commit_samples
    Window,    \* how far background writers may be ahead of the oldest job
    ShardSize, \* max_shard_samples
    Casts      \* bound: calls, kind of dataset and how much may go wrong

ASSUME BoundsAssumption ==
    /\ {Devices, Expected, Commit, Window, ShardSize} \subseteq Nat \ {0}
    /\ Casts \subseteq [calls : SUBSET [devices : 1 .. Devices, finalize : BOOLEAN,
                                       limit : Nat \cup {Every}, id : Ids],
                       indexed : BOOLEAN, available : {n \in Nat : n <= MaxIndex + 1},
                       faults : Nat, crashes : Nat,
                       orphans : BOOLEAN, writers : BOOLEAN, snapshots : BOOLEAN]

VARIABLES
    resume,  \* the resume directory: the identity of resume.json, the fragments
    parts,   \* the directories below .parts
    output,  \* the output directory
    shot,    \* the directory that snapshot() publishes to
    pc,      \* where the call of the caller stands
    crew,    \* the processes of the call, and those of a caller that died
    inbox,   \* progress messages that say a worker is done
    other,   \* DatasetWriter callers
    cast     \* what the caller calls, and what is left of the bounds

vars == <<resume, parts, output, shot, pc, crew, inbox, other, cast>>

Ranks == 0 .. Devices - 1
Crews == {"own", "orphan"}
NoWorker == [st |-> "none", came |-> FALSE, todo |-> <<>>, slice |-> <<>>]
NoRun == [call |-> Absent, parts |-> FALSE, procs |-> [r \in Ranks |-> NoWorker]]
NoDirectory == [id |-> Absent, fragments |-> {}]

Init ==
    /\ cast \in Casts
    /\ resume = NoDirectory /\ parts = {} /\ output = Absent /\ shot = Absent
    /\ pc = "idle"
    /\ crew = [g \in Crews |-> NoRun] /\ inbox = {}
    /\ other = [w \in Writers |-> "idle"]

Fragment(indexes, id) ==
    [indexes |-> indexes,
     store |-> WrittenStore(indexes, id, <<"fragment">> \o indexes, ShardSize)]

-----------------------------------------------------------------------------
(* The caller, up to the start of the workers.                             *)

\* The indexes of a sequence that are not completed, in their order.
Remaining(indexes, completed) ==
    LET kept[n \in 0 .. Len(indexes)] ==
            IF n = 0 THEN <<>>
            ELSE IF indexes[n] \in completed THEN kept[n - 1]
            ELSE Append(kept[n - 1], indexes[n])
    IN kept[Len(indexes)]

FirstIndexes(n) == [k \in 1 .. n |-> k - 1]

\* _work_indexes
WorkIndexes(completed, call) ==
    LET missing == Remaining(FirstIndexes(Expected), completed)
    IN IF call.limit = Every THEN missing
       ELSE SubSeq(missing, 1, IF call.limit < Len(missing) THEN call.limit ELSE Len(missing))

\* Mutant: a stream is computed as if nothing were completed.
ShareFromStart(missing, completed, rank, n) ==
    Slice(IF cast.indexed THEN missing ELSE FirstIndexes(cast.available), rank, n)

\* What a worker computes: its share of the missing indexes when the dataset can
\* be indexed (SelectedIndexSampler), else its share of the stream without what
\* is completed (iter_shard, _pending_batch).
Share(missing, completed, rank, n) ==
    IF cast.indexed THEN Slice(missing, rank, n)
    ELSE Remaining(Slice(FirstIndexes(cast.available), rank, n), completed)

NewRun(missing, completed, call) ==
    [call |-> call, parts |-> call.devices > 1,
     procs |-> [r \in Ranks |->
        IF r >= call.devices THEN NoWorker
        ELSE [NoWorker EXCEPT !.st = "work",
                !.todo = Chunks(Share(missing, completed, r, call.devices), Commit)]]]

\* prepare_materializer_resume_dir: the output must be free, state of another
\* identity is set aside.
Start ==
    \E call \in cast.calls :
        LET kept      == IF resume.id = call.id THEN resume
                         ELSE [id |-> call.id, fragments |-> {}]
            completed == CompletedIndexes(kept.fragments, Expected)
            missing   == WorkIndexes(completed, call)
        IN /\ pc = "idle" /\ output = Absent
           /\ call.limit = Every \/ (cast.indexed /\ ~call.finalize)
           /\ resume' = kept
           /\ parts' = IF resume.id = call.id THEN parts ELSE {}
           /\ IF completed = Failed THEN UNCHANGED <<pc, crew>>
              ELSE IF missing = <<>>
              THEN /\ pc' = "finish"
                   /\ crew' = [crew EXCEPT !["own"] = [NoRun EXCEPT !.call = call]]
              ELSE /\ pc' = "watch"
                   /\ crew' = [crew EXCEPT !["own"] = NewRun(missing, completed, call)]
           /\ UNCHANGED <<output, shot, inbox, other, cast>>

-----------------------------------------------------------------------------
(* Workers.  A run with one device computes in the caller and has no       *)
(* barrier and no part.  Orphans go on below the same paths, whatever is   *)
(* there now.                                                              *)

\* DatasetFragmentWriter.write of one background job, which must not exist.
WriteFragment(g, rank) ==
    \E k \in 1 .. Window :
        LET todo == crew[g].procs[rank].todo IN
        /\ crew[g].procs[rank].st = "work" /\ k <= Len(todo)
        /\ \A f \in resume.fragments : f.indexes # todo[k]
        /\ resume' = [resume EXCEPT !.fragments = @ \cup {Fragment(todo[k], crew[g].call.id)}]
        /\ crew' = [crew EXCEPT ![g].procs[rank].todo = RemoveAt(todo, k)]
        /\ UNCHANGED <<parts, output, shot, pc, inbox, other, cast>>

Tell(g, rank, error) ==
    inbox' = IF g = "own" THEN inbox \cup {[rank |-> rank, error |-> error]} ELSE inbox

\* A worker raises: a message with an error, then exit code 1.  Factory, dataset,
\* provider and writer may all raise; a fragment that exists always does.
WorkerFails(g, rank) ==
    LET w      == crew[g].procs[rank]
        exists == \E f \in resume.fragments : f.indexes \in ToSet(w.todo)
    IN
    /\ w.st = "work"
    /\ exists \/ cast.faults > 0
    /\ cast' = IF exists THEN cast ELSE [cast EXCEPT !.faults = @ - 1]
    /\ crew' = [crew EXCEPT ![g].procs[rank] = [NoWorker EXCEPT !.st = "failed"]]
    /\ Tell(g, rank, TRUE)
    /\ UNCHANGED <<resume, parts, output, shot, pc, other>>

\* A worker is killed: no message.
WorkerKilled(g, rank) ==
    /\ crew[g].parts /\ cast.faults > 0
    /\ crew[g].procs[rank].st \in {"work", "waiting", "merging"}
    /\ cast' = [cast EXCEPT !.faults = @ - 1]
    /\ crew' = [crew EXCEPT ![g].procs[rank] = [NoWorker EXCEPT !.st = "killed",
                                        !.came = crew[g].procs[rank].came]]
    /\ UNCHANGED <<resume, parts, output, shot, pc, inbox, other>>

\* The sink is closed: on to the barrier, or done.
Finished(g, rank) ==
    LET w == crew[g].procs[rank]
        merges == crew[g].parts /\ crew[g].call.finalize
    IN
    /\ w.st = "work" /\ w.todo = <<>>
    /\ crew' = [crew EXCEPT ![g].procs[rank] =
                    [w EXCEPT !.st = IF merges THEN "waiting" ELSE "gone", !.came = merges]]
    /\ IF merges THEN UNCHANGED inbox ELSE Tell(g, rank, FALSE)
    /\ UNCHANGED <<resume, parts, output, shot, pc, other, cast>>

\* Mutant: no barrier.
MergeAtOnce(run) == TRUE

\* The barrier opens when all have come.
BarrierOpen(run) == \A r \in 0 .. run.call.devices - 1 : run.procs[r].came

\* store_fragments: the share of the fragments that are there now.
ReadSlice(g, rank) ==
    /\ crew[g].procs[rank].st = "waiting"
    /\ BarrierOpen(crew[g])
    /\ crew' = [crew EXCEPT ![g].procs[rank] =
                    [@ EXCEPT !.st = "merging", !.slice = 
                        FragmentSlice(resume.fragments, rank, crew[g].call.devices)]]
    /\ UNCHANGED <<resume, parts, output, shot, pc, inbox, other, cast>>

Part(run, rank, tmp) ==
    [shard |-> rank, shards |-> run.call.devices, tmp |-> tmp,
     store |-> CommitFragmentPart(run.procs[rank].slice, rank, ShardSize, run.call.id)]

\* commit_fragment_part into part-<rank>, which must not exist.
WritePart(g, rank) ==
    LET new == Part(crew[g], rank, FALSE)
        ok  == new.store # Failed /\ \A p \in parts : p.shard # rank \/ p.tmp
    IN
    /\ crew[g].procs[rank].st = "merging"
    /\ parts' = IF ok THEN parts \cup {new} ELSE parts
    /\ crew' = [crew EXCEPT ![g].procs[rank] =
                    [NoWorker EXCEPT !.st = IF ok THEN "gone" ELSE "failed", !.came = TRUE]]
    /\ Tell(g, rank, ~ok)
    /\ UNCHANGED <<resume, output, shot, pc, other, cast>>

OrphansEnd ==
    /\ crew["orphan"] # NoRun
    /\ crew' = [crew EXCEPT !["orphan"] = NoRun]
    /\ UNCHANGED <<resume, parts, output, shot, pc, inbox, other, cast>>

-----------------------------------------------------------------------------
(* The caller: watch_workers, then _finish_resumable.                      *)

\* Processes that are terminated while they merge may leave a temporary directory
\* below .parts that already holds part.json.
LeftBehind ==
    LET run == crew["own"] IN
    \E left \in SUBSET {r \in Ranks : run.procs[r].st = "merging"} :
        parts' = parts \cup {p \in {Part(run, r, TRUE) : r \in left} : p.store # Failed}

\* Mutant: only messages count.
ErrorMessage == \E m \in inbox : m.error

\* An error message, or a process that ended badly without one.
SomeoneFailed ==
    \/ \E m \in inbox : m.error
    \/ \E r \in Ranks : crew["own"].procs[r].st = "killed"

\* All others are terminated and write() raises.
GiveUp ==
    /\ pc = "watch" /\ SomeoneFailed
    /\ LeftBehind
    /\ pc' = "idle" /\ crew' = [crew EXCEPT !["own"] = NoRun] /\ inbox' = {}
    /\ UNCHANGED <<resume, output, shot, other, cast>>

\* Every worker said it is done and has ended.
AllDone ==
    /\ pc = "watch"
    /\ inbox = {[rank |-> r, error |-> FALSE] : r \in 0 .. crew["own"].call.devices - 1}
    /\ pc' = "finish"
    /\ crew' = [crew EXCEPT !["own"].procs = NoRun.procs] /\ inbox' = {}
    /\ UNCHANGED <<resume, parts, output, shot, other, cast>>

\* Mutant: parts are merged whenever there are some.
CommittedFromParts(run) ==
    IF parts # {} THEN CommitParts(parts, run.call.id)
    ELSE CommitFragments(resume.fragments, Expected, 0, ShardSize, run.call.id)

\* _commit_parts, _commit_fragments
Committed(run) ==
    IF run.parts THEN CommitParts(parts, run.call.id)
    ELSE CommitFragments(resume.fragments, Expected, 0, ShardSize, run.call.id)

\* Mutant: what is completed is published.
CompletePrefix(completed) == completed # {}

\* indexes_complete
IndexesComplete(completed) == Cardinality(completed) = Expected

Complete ==
    LET completed == CompletedIndexes(resume.fragments, Expected)
    IN completed # Failed /\ IndexesComplete(completed)

\* _finish_resumable: publish a complete materialization by one rename, or raise,
\* or report the status of a staged call.
Finish ==
    LET run       == crew["own"]
        store     == Committed(run)
        publishes == Complete /\ run.call.finalize /\ store # Failed /\ output = Absent
    IN
    /\ pc = "finish"
    /\ output' = IF publishes THEN store ELSE output
    /\ pc' = IF publishes THEN "clean" ELSE "idle"
    /\ crew' = [crew EXCEPT !["own"] = NoRun]
    /\ UNCHANGED <<resume, parts, shot, inbox, other, cast>>

\* cleanup_materializer_resume_dir
Cleanup ==
    /\ pc = "clean"
    /\ resume' = NoDirectory /\ parts' = {} /\ pc' = "idle"
    /\ UNCHANGED <<output, shot, crew, inbox, other, cast>>

\* snapshot(): publish the completed dense prefix elsewhere.
Snapshot ==
    LET completed == CompletedIndexes(resume.fragments, Expected)
        n         == Cardinality(completed)
        store     == CommitFragments(resume.fragments, n, 0, ShardSize, resume.id)
    IN
    /\ pc = "idle" /\ cast.snapshots /\ resume.id # Absent /\ shot = Absent
    /\ completed \notin {Failed, {}} /\ completed = 0 .. n - 1
    /\ store # Failed
    /\ shot' = store
    /\ UNCHANGED <<resume, parts, output, pc, crew, inbox, other, cast>>

\* The caller dies, alone or with its processes.
Crash ==
    /\ pc # "idle" /\ cast.crashes > 0
    /\ cast' = [cast EXCEPT !.crashes = @ - 1]
    /\ \/ /\ LeftBehind
          /\ crew' = [crew EXCEPT !["own"] = NoRun]
       \/ /\ cast.orphans /\ crew["own"].parts /\ crew["orphan"] = NoRun
          /\ crew' = [own |-> NoRun, orphan |-> crew["own"]]
          /\ UNCHANGED parts
    /\ pc' = "idle" /\ inbox' = {}
    /\ UNCHANGED <<resume, output, shot, other>>

-----------------------------------------------------------------------------
(* DatasetWriter.write: parts in a directory of its own, no lock.          *)

\* write_dataset_parts looks whether the output is empty and starts workers.
OpenWriter(w) ==
    /\ other[w] = "idle" /\ cast.writers
    /\ other' = [other EXCEPT ![w] = IF output = Absent THEN "parts" ELSE "done"]
    /\ UNCHANGED <<resume, parts, output, shot, pc, crew, inbox, cast>>

\* DatasetPartWriter.write in every worker.
WriterParts(id) ==
    {[shard |-> r, shards |-> Devices,
      store |-> WrittenStore(Slice(FirstIndexes(Expected), r, Devices), id,
                             <<"part", r>>, ShardSize)] : r \in Ranks}

\* commit_store_parts publishes unless something is there by now; or a worker failed.
CloseWriter(w) ==
    /\ other[w] = "parts"
    /\ other' = [other EXCEPT ![w] = "done"]
    /\ \/ UNCHANGED output
       \/ \E id \in Ids : output = Absent /\ output' = CommitParts(WriterParts(id), id)
    /\ UNCHANGED <<resume, parts, shot, pc, crew, inbox, cast>>

-----------------------------------------------------------------------------
Run(g, rank) ==
    WriteFragment(g, rank) \/ Finished(g, rank) \/ ReadSlice(g, rank) \/ WritePart(g, rank)

Next ==
    \/ Start \/ GiveUp \/ AllDone \/ Finish \/ Cleanup \/ Crash \/ OrphansEnd \/ Snapshot
    \/ \E g \in Crews, r \in Ranks : Run(g, r) \/ WorkerFails(g, r) \/ WorkerKilled(g, r)
    \/ \E w \in Writers : OpenWriter(w) \/ CloseWriter(w)

Spec == Init /\ [][Next]_vars

\* The two steps that merge, without what they merge.
PartEnds(rank) ==
    /\ crew["own"].procs[rank].st = "merging"
    /\ \E st \in {"gone", "failed"} :
        crew' = [crew EXCEPT !["own"].procs[rank] = [NoWorker EXCEPT !.st = st, !.came = TRUE]]
FinishEnds == pc = "finish" /\ pc' \in {"clean", "idle"}

\* Processes get the processor and the caller calls again.  Of a worker whose
\* fragment exists, raising is the only step.
FairSpec ==
    /\ Spec
    /\ WF_vars(Start) /\ WF_vars(GiveUp) /\ WF_vars(AllDone) /\ WF_vars(Cleanup)
    /\ WF_pc(FinishEnds)
    /\ \A r \in Ranks :
        /\ WF_vars(WriteFragment("own", r) \/ WorkerFails("own", r) \/ Finished("own", r))
        /\ WF_vars(ReadSlice("own", r))
        /\ WF_crew(PartEnds(r))

-----------------------------------------------------------------------------
(* What must hold.                                                         *)

\* The dense store of the first n samples: every view has exactly the entries of
\* the samples that have it, each names its own payload, and the payload groups
\* cover every sample once, in ranges that follow one another.
WholeStore(store, n) ==
    /\ store.prov \in Ids
    /\ store.samples = [k \in 1 .. n |-> [index |-> k - 1, views |-> ViewsOf(k - 1)]]
    /\ DOMAIN store.views = UNION {ViewsOf(i) : i \in 0 .. n - 1}
    /\ \A v \in DOMAIN store.views :
        LET holders == SelectSeq([k \in 1 .. n |-> k - 1], LAMBDA i : v \in ViewsOf(i)) IN
        /\ Len(store.views[v]) = Len(holders)
        /\ \A k \in DOMAIN holders :
            store.views[v][k].index = holders[k] /\ store.views[v][k].key = holders[k]
    /\ PayloadsAreWhole(store)
    /\ CoversDense(PayloadGroups(store), n)
    /\ LET ranges == OrderedGroups(PayloadGroups(store), n) IN
        /\ ranges[1].start = 0 /\ ranges[Len(ranges)].stop = n
        /\ \A k \in 2 .. Len(ranges) :
            ranges[k].start = ranges[k - 1].stop /\ ranges[k].key # ranges[k - 1].key

\* Whatever fails, dies, is repeated or runs along: what write() publishes is the
\* whole materialization, and what snapshot() publishes a whole prefix of it.
OutputIsWhole ==
    /\ output # Absent => WholeStore(output, Expected)
    /\ shot # Absent => WholeStore(shot, Len(shot.samples))

\* As long as no orphan has interfered, parts and fragments that cover every sample
\* can always be merged: no complete materialization is refused.
FinishSucceeds ==
    pc = "finish" /\ Complete /\ crew["own"].call.finalize /\ ~cast.orphans
        => Committed(crew["own"]) # Failed

\* A worker computes nothing that is durable already, unless an orphan did it.
WorkIsReused ==
    [][cast.orphans \/
       \A f \in resume'.fragments \ resume.fragments, g \in resume.fragments :
            ToSet(f.indexes) \cap ToSet(g.indexes) = {}]_vars

\* Every call of write() returns or raises, whoever failed or was killed.
WritesEnd == pc # "idle" ~> pc = "idle"

\* Once failures and crashes stop, a caller that repeats the same call publishes,
\* whatever they left behind.
RetryPublishes ==
    (/\ cast.available = Expected
     /\ ~cast.orphans
     /\ \A c, d \in cast.calls : c.finalize /\ c.limit = Every /\ c.id = d.id)
        ~> output # Absent
=============================================================================
