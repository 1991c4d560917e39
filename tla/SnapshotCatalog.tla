-------------------------- MODULE SnapshotCatalog --------------------------
(***************************************************************************)
(* Online materialization: Materializer.produce calls that compute missing *)
(* samples into private fragments and publish the dense prefix of them as  *)
(* segments of catalog.json, and Materializer.open calls that read the     *)
(* catalog while a producer works.                                         *)
(*                                                                         *)
(* Producers exclude each other with a FileLock they do not wait for;      *)
(* consumers take no lock and rely on the catalog being replaced in one    *)
(* step, after the segments it names are on disk.  The source may have     *)
(* grown, shrunk or been sealed between two calls.  The file system        *)
(* outlives a crash; a call and its lock do not.                           *)
(***************************************************************************)
EXTENDS Integers, Sequences, FiniteSets

CONSTANTS
    Producers,   \* processes that call produce
    Consumers,   \* processes that call open
    Sizes,       \* values of max_new_samples
    Null,        \* "no producer", "no catalog", "no staging directory"
    MaxCount,    \* bound: samples of the largest source
    CallLimit,   \* bound: produce calls over a behaviour
    CrashLimit   \* bound: producer crashes over a behaviour

ASSUME SizesAssumption == Sizes \subseteq Nat \ {0}
ASSUME LimitsAssumption == MaxCount \in Nat /\ CallLimit \in Nat /\ CrashLimit \in Nat

VARIABLES
    durable,   \* indexes with a complete fragment in the staging directory
    staging,   \* the input sample_count resume.json records, or Bare
    segments,  \* the segment stores under snapshots/
    catalog,   \* the content of catalog.json
    stray,     \* a temporary file of a dead catalog write is in the root
    lock,      \* the producer that holds .producer.lock
    pc,        \* producer -> where its call stands
    call,      \* producer -> the local state of its call
    cpc,       \* consumer -> where its open stands
    held,      \* consumer -> the catalog it has read
    calls, crashes

disk == <<durable, staging, segments, catalog, stray>>
consumers == <<cpc, held>>
vars == <<durable, staging, segments, catalog, stray, lock, pc, call, cpc, held,
          calls, crashes>>

-----------------------------------------------------------------------------
Entries == [start : Nat, stop : Nat]
Catalogs == [entries : Seq(Entries), sealed : BOOLEAN]

ASSUME NullAssumption == Null \notin Producers /\ Null \notin Nat /\ Null \notin Catalogs

\* A staging directory without resume.json; no source is that long.
Bare == MaxCount + 1

EmptyCatalog == [entries |-> <<>>, sealed |-> FALSE]

\* SnapshotCatalog.sample_count
SampleCount(c) == IF c.entries = <<>> THEN 0 ELSE c.entries[Len(c.entries)].stop

Indexes(n) == 0 .. n - 1

\* The length of the gapless prefix of a set of completed indexes.
DenseStop(done) == Cardinality({i \in done : 0 .. i \subseteq done})

MissingInclusive(done, n, max) ==
    {i \in 0 .. n \ done : Cardinality({j \in 0 .. n \ done : j < i}) < max}

\* The first max samples of an n-sample source that are not completed.
Missing(done, n, max) ==
    {i \in Indexes(n) \ done : Cardinality({j \in Indexes(n) \ done : j < i}) < max}

\* A segment directory is named after the revision (the position), the start
\* and the stop of its entry.
Directory(k, e) == <<k, e.start, e.stop>>

Stored(entries) == \A k \in DOMAIN entries : Directory(k, entries[k]) \in segments

NoCall == [max |-> 0, count |-> 0, sealed |-> FALSE, completed |-> {}, recorded |-> {},
           todo |-> {}, written |-> {}, pub |-> EmptyCatalog, before |-> 0, back |-> "return"]

Init ==
    /\ durable = {}
    /\ staging = Null
    /\ segments = {}
    /\ catalog = Null
    /\ stray = FALSE
    /\ lock = Null
    /\ pc = [p \in Producers |-> "idle"]
    /\ call = [p \in Producers |-> NoCall]
    /\ cpc = [c \in Consumers |-> "closed"]
    /\ held = [c \in Consumers |-> Null]
    /\ calls = 0
    /\ crashes = 0

-----------------------------------------------------------------------------
(* The producer lease.                                                     *)

BeginUnlocked(p) ==
    /\ pc[p] = "idle" /\ calls < CallLimit
    /\ calls' = calls + 1
    /\ lock' = p
    /\ pc' = [pc EXCEPT ![p] = "source"]
    /\ \E max \in Sizes : call' = [call EXCEPT ![p] = [NoCall EXCEPT !.max = max]]
    /\ UNCHANGED <<disk, consumers, crashes>>

\* A producer that finds the lock taken raises at once and changes nothing.
Begin(p) ==
    /\ pc[p] = "idle" /\ calls < CallLimit
    /\ lock = Null
    /\ calls' = calls + 1
    /\ lock' = p
    /\ pc' = [pc EXCEPT ![p] = "source"]
    /\ \E max \in Sizes : call' = [call EXCEPT ![p] = [NoCall EXCEPT !.max = max]]
    /\ UNCHANGED <<disk, consumers, crashes>>

\* The call returns or raises: locals die, the lock is released.
End(p) ==
    /\ pc[p] \in {"return", "raise"}
    /\ lock' = IF lock = p THEN Null ELSE lock
    /\ pc' = [pc EXCEPT ![p] = "idle"]
    /\ call' = [call EXCEPT ![p] = NoCall]
    /\ UNCHANGED <<disk, consumers, calls, crashes>>

Goto(p, there) == pc' = [pc EXCEPT ![p] = there]

-----------------------------------------------------------------------------
(* Opening the source, the staging directory and the catalog.              *)

\* dataset_factory(): a source of some length, sealed or not.
OpenSource(p) ==
    /\ pc[p] = "source"
    /\ \E n \in 0 .. MaxCount, sealed \in BOOLEAN :
        call' = [call EXCEPT ![p].count = n, ![p].sealed = sealed]
    /\ Goto(p, "staging")
    /\ UNCHANGED <<disk, lock, consumers, calls, crashes>>

\* The staging directory is made, without a resume.json yet.
MakeStaging(p) ==
    /\ pc[p] = "staging" /\ staging = Null
    /\ staging' = Bare
    /\ Goto(p, "resume")
    /\ UNCHANGED <<durable, segments, catalog, stray, lock, call, consumers, calls, crashes>>

PrepareQuarantining(p) ==
    /\ pc[p] = "resume" \/ (pc[p] = "staging" /\ staging # Null)
    /\ staging' = call[p].count
    /\ durable' = IF pc[p] = "staging" /\ staging > call[p].count THEN {} ELSE durable
    /\ call' = [call EXCEPT ![p].completed = durable', ![p].recorded = durable']
    /\ Goto(p, "root")
    /\ UNCHANGED <<segments, catalog, stray, lock, consumers, calls, crashes>>

\* A source shorter than the one resume.json records is refused, and so is every
\* source when an earlier call left the directory without a resume.json; otherwise
\* resume.json records this one and the fragments on disk are read.
PrepareStaging(p) ==
    /\ pc[p] = "resume" \/ (pc[p] = "staging" /\ staging # Null)
    /\ IF pc[p] = "staging" /\ staging > call[p].count
       THEN Goto(p, "raise") /\ UNCHANGED <<staging, call>>
       ELSE /\ staging' = call[p].count
            /\ IF durable \subseteq Indexes(call[p].count)
               THEN /\ call' = [call EXCEPT ![p].completed = durable, ![p].recorded = durable]
                    /\ Goto(p, "root")
               ELSE Goto(p, "raise") /\ UNCHANGED call
    /\ UNCHANGED <<durable, segments, catalog, stray, lock, consumers, calls, crashes>>

\* A root without catalog.json must be empty; an empty catalog is written.
InitialiseRoot(p) ==
    /\ pc[p] = "root" /\ catalog = Null
    /\ IF stray
       THEN Goto(p, "raise") /\ UNCHANGED call
       ELSE /\ call' = [call EXCEPT ![p].pub = EmptyCatalog, ![p].back = "leftover"]
            /\ Goto(p, "write")
    /\ UNCHANGED <<disk, lock, consumers, calls, crashes>>

\* An existing catalog is validated against its segments and the fragments.
OpenCatalog(p) ==
    /\ pc[p] = "root" /\ catalog # Null
    /\ IF Stored(catalog.entries) /\ SampleCount(catalog) <= DenseStop(call[p].recorded)
       THEN /\ call' = [call EXCEPT ![p].pub = catalog, ![p].before = SampleCount(catalog)]
            /\ Goto(p, "leftover")
       ELSE Goto(p, "raise") /\ UNCHANGED call
    /\ UNCHANGED <<disk, lock, consumers, calls, crashes>>

-----------------------------------------------------------------------------
(* SnapshotPublisher.publish, in three file system steps.                  *)

Start(p) == SampleCount(call[p].pub)
Stop(p) == DenseStop(call[p].recorded)

DueInFull(p, force) == Stop(p) > Start(p) /\ Stop(p) - Start(p) >= call[p].max

\* Whether publish goes on: there is something new and, unless forced, it is
\* at least snapshot_samples, which produce sets to max_new_samples.
Due(p, force) == Stop(p) > Start(p) /\ (force \/ Stop(p) - Start(p) >= call[p].max)

PublishToSealed(p, done, back) ==
    Goto(p, "segment") /\ call' = [call EXCEPT ![p] = [done EXCEPT !.back = back]]

\* Go on to a segment, or raise on a sealed catalog; publish returns to back.
PublishTo(p, done, back) ==
    IF call[p].pub.sealed
    THEN Goto(p, "raise") /\ call' = [call EXCEPT ![p] = done]
    ELSE Goto(p, "segment") /\ call' = [call EXCEPT ![p] = [done EXCEPT !.back = back]]

NextEntry(p) == [start |-> Start(p), stop |-> Stop(p)]
NextDirectory(p) == Directory(Len(call[p].pub.entries) + 1, NextEntry(p))

\* A segment directory of that name is reused, else one is built from the
\* fragments and renamed into place; then the catalog in memory is extended.
CommitSegment(p) ==
    /\ pc[p] = "segment"
    /\ IF NextDirectory(p) \in segments \/ Start(p) .. Stop(p) - 1 \subseteq durable
       THEN /\ segments' = segments \cup {NextDirectory(p)}
            /\ call' = [call EXCEPT ![p].pub.entries = Append(@, NextEntry(p))]
            /\ Goto(p, "write")
       ELSE Goto(p, "raise") /\ UNCHANGED <<segments, call>>
    /\ UNCHANGED <<durable, staging, catalog, stray, lock, consumers, calls, crashes>>

\* write_catalog: a temporary file in the root ...
WriteCatalog(p) ==
    /\ pc[p] = "write"
    /\ Goto(p, "replace")
    /\ UNCHANGED <<disk, lock, call, consumers, calls, crashes>>

\* ... renamed over catalog.json.
ReplaceCatalog(p) ==
    /\ pc[p] = "replace"
    /\ catalog' = call[p].pub
    /\ Goto(p, call[p].back)
    /\ UNCHANGED <<durable, staging, segments, stray, lock, call, consumers, calls, crashes>>

\* publish(force=True) of what an earlier call left: if there was any, the
\* call ends after it, else it computes.
PublishLeftover(p) ==
    /\ pc[p] = "leftover"
    /\ IF Due(p, TRUE)
       THEN PublishTo(p, call[p], "wrapup")
       ELSE /\ Goto(p, "compute")
            /\ call' = [call EXCEPT ![p].todo =
                           Missing(call[p].completed, call[p].count, call[p].max)]
    /\ UNCHANGED <<disk, lock, consumers, calls, crashes>>

-----------------------------------------------------------------------------
(* Computing.  Fragments are written by background threads in any order;   *)
(* the producer's thread records them as their futures come back.  A       *)
(* fragment holds one sample here (commit_samples = 1).                    *)

WriteFragment(p) ==
    /\ pc[p] \in {"compute", "segment", "write", "replace"}
    /\ \E i \in call[p].todo :
        /\ durable' = durable \cup {i}
        /\ call' = [call EXCEPT ![p].todo = @ \ {i}, ![p].written = @ \cup {i}]
    /\ UNCHANGED <<staging, segments, catalog, stray, lock, pc, consumers, calls, crashes>>

\* SnapshotPublisher.record, the on_fragment_complete callback.
Record(p) ==
    /\ pc[p] = "compute"
    /\ \E i \in call[p].written :
        LET done == [call[p] EXCEPT !.written = @ \ {i}, !.recorded = @ \cup {i}]
            stop == DenseStop(done.recorded)
        IN IF stop > Start(p) /\ stop - Start(p) >= call[p].max
           THEN PublishTo(p, done, "compute")
           ELSE call' = [call EXCEPT ![p] = done] /\ UNCHANGED pc
    /\ UNCHANGED <<disk, lock, consumers, calls, crashes>>

\* Everything is written: the fragments are read again and the rest published.
Computed(p) ==
    /\ pc[p] = "compute" /\ call[p].todo = {} /\ call[p].written = {}
    /\ LET done == [call[p] EXCEPT !.completed = durable]
       IN IF Due(p, TRUE)
          THEN PublishTo(p, done, "wrapup")
          ELSE call' = [call EXCEPT ![p] = done] /\ Goto(p, "wrapup")
    /\ UNCHANGED <<disk, lock, consumers, calls, crashes>>

CompleteOncePublished(p) == Start(p) = Stop(p)

Complete(p) == Cardinality(call[p].completed) = call[p].count

\* seal() when the source is sealed and complete: publish what is left, then
\* write the catalog once more with its sealed flag.
WrapUp(p) ==
    /\ pc[p] = "wrapup"
    /\ IF ~Complete(p) \/ ~call[p].sealed \/ call[p].pub.sealed
       THEN Goto(p, "return") /\ UNCHANGED call
       ELSE IF Due(p, TRUE)
       THEN PublishTo(p, call[p], "wrapup")
       ELSE /\ Goto(p, IF Start(p) = Stop(p) THEN "write" ELSE "raise")
            /\ call' = [call EXCEPT ![p].pub.sealed = TRUE, ![p].back = "return"]
    /\ UNCHANGED <<disk, lock, consumers, calls, crashes>>

\* The provider or a write fails, also that of resume.json: writers are drained, the call raises, the
\* temporary file of a catalog write is unlinked.
Fail(p) ==
    /\ pc[p] \in {"resume", "compute", "segment", "write", "replace"}
    /\ Goto(p, "raise")
    /\ UNCHANGED <<disk, lock, call, consumers, calls, crashes>>

\* The process dies; the kernel drops its lock, a temporary file stays.
Crash(p) ==
    /\ pc[p] # "idle" /\ crashes < CrashLimit
    /\ crashes' = crashes + 1
    /\ stray' = (stray \/ pc[p] = "replace")
    /\ lock' = IF lock = p THEN Null ELSE lock
    /\ Goto(p, "idle")
    /\ call' = [call EXCEPT ![p] = NoCall]
    /\ UNCHANGED <<durable, staging, segments, catalog, consumers, calls>>

-----------------------------------------------------------------------------
(* Consumers: open_snapshot_dataset.  Segments are never removed, so their *)
(* validation is one step.                                                 *)

producing == <<lock, pc, call, calls, crashes>>

\* load_catalog, missing_ok.
LoadCatalog(c) ==
    /\ cpc[c] = "closed"
    /\ held' = [held EXCEPT ![c] = catalog]
    /\ cpc' = [cpc EXCEPT ![c] = IF catalog = Null THEN "listing" ELSE "opening"]
    /\ UNCHANGED <<disk, producing>>

\* What the listing of the root shows beside the lock file.
Unexpected == catalog # Null \/ stray \/ \E p \in Producers : pc[p] = "replace"

\* There was no catalog.json: the root has to be empty.
ListRoot(c) ==
    /\ cpc[c] = "listing"
    /\ cpc' = [cpc EXCEPT ![c] = IF Unexpected THEN "refused" ELSE "open"]
    /\ held' = [held EXCEPT ![c] = IF Unexpected THEN Null ELSE EmptyCatalog]
    /\ UNCHANGED <<disk, producing>>

OpenSegments(c) ==
    /\ cpc[c] = "opening"
    /\ cpc' = [cpc EXCEPT ![c] = IF Stored(held[c].entries) THEN "open" ELSE "refused"]
    /\ held' = [held EXCEPT ![c] = IF Stored(@.entries) THEN @ ELSE Null]
    /\ UNCHANGED <<disk, producing>>

CloseDataset(c) ==
    /\ cpc[c] \in {"open", "refused"}
    /\ cpc' = [cpc EXCEPT ![c] = "closed"]
    /\ held' = [held EXCEPT ![c] = Null]
    /\ UNCHANGED <<disk, producing>>

-----------------------------------------------------------------------------
Produce(p) ==
    \/ Begin(p) \/ OpenSource(p) \/ MakeStaging(p) \/ PrepareStaging(p)
    \/ InitialiseRoot(p) \/ OpenCatalog(p)
    \/ PublishLeftover(p) \/ CommitSegment(p) \/ WriteCatalog(p) \/ ReplaceCatalog(p)
    \/ WriteFragment(p) \/ Record(p) \/ Computed(p) \/ WrapUp(p)
    \/ End(p) \/ Fail(p) \/ Crash(p)

Consume(c) ==
    LoadCatalog(c) \/ ListRoot(c) \/ OpenSegments(c) \/ CloseDataset(c)

Next ==
    \/ \E p \in Producers : Produce(p)
    \/ \E c \in Consumers : Consume(c)

Spec == Init /\ [][Next]_vars

-----------------------------------------------------------------------------
(* Types and safety.                                                       *)

PublisherTypes ==
    [max : Nat, count : 0 .. MaxCount, sealed : BOOLEAN,
     completed : SUBSET Indexes(MaxCount), recorded : SUBSET Indexes(MaxCount),
     todo : SUBSET Indexes(MaxCount), written : SUBSET Indexes(MaxCount),
     pub : Catalogs, before : Nat, back : {"leftover", "compute", "wrapup", "return"}]

\* Every variable has its type.
TypeOK ==
    /\ durable \in SUBSET Indexes(MaxCount)
    /\ staging \in 0 .. Bare \cup {Null}
    /\ segments \in SUBSET (Nat \X Nat \X Nat)
    /\ catalog \in Catalogs \cup {Null}
    /\ stray \in BOOLEAN
    /\ lock \in Producers \cup {Null}
    /\ pc \in [Producers ->
           {"idle", "source", "staging", "resume", "root", "leftover", "compute", "segment",
            "write", "replace", "wrapup", "return", "raise"}]
    /\ call \in [Producers -> PublisherTypes]
    /\ cpc \in [Consumers -> {"closed", "listing", "opening", "open", "refused"}]
    /\ held \in [Consumers -> Catalogs \cup {Null}]
    /\ calls \in 0 .. CallLimit
    /\ crashes \in 0 .. CrashLimit

Published == IF catalog = Null THEN EmptyCatalog ELSE catalog

\* The segments of c are stored and adjoin, and all its samples have fragments.
Sound(c) ==
    /\ Stored(c.entries)
    /\ Indexes(SampleCount(c)) \subseteq durable
    /\ \A k \in DOMAIN c.entries :
        /\ c.entries[k].start = IF k = 1 THEN 0 ELSE c.entries[k - 1].stop
        /\ c.entries[k].start < c.entries[k].stop

\* Every sample the catalog counts is in a stored segment and still has its
\* fragment, and the entries adjoin: no call of a producer, crashed or failed
\* at any point, leaves a catalog that a later open or produce would reject.
CatalogIsBacked == Sound(Published)

\* a is b or an earlier state of b.
Extends(b, a) ==
    /\ Len(a.entries) <= Len(b.entries)
    /\ \A k \in DOMAIN a.entries : a.entries[k] = b.entries[k]
    /\ a.sealed => a = b

\* An open dataset stays a prefix of what is published: nothing it counts is
\* rewritten, renamed or withdrawn by later producers.
HeldIsPrefix ==
    \A c \in Consumers : held[c] # Null =>
        Extends(Published, held[c]) /\ (cpc[c] = "open" => Stored(held[c].entries))

\* No sample that has a fragment is computed again, by the same call, by a
\* later one or by a rival: a second fragment of an index is a fatal
\* "Duplicate resume index" for every later call.
NoRecompute == \A p \in Producers : call[p].todo \cap durable = {}

\* A call that returns has published something new, or all there is.
CallsAdvance ==
    \A p \in Producers : pc[p] = "return" =>
        \/ SampleCount(Published) > call[p].before
        \/ SampleCount(Published) = call[p].count

\* The catalog is sealed only by a producer whose source was sealed, with all
\* the samples of that source.
SealsCompleteInput ==
    [][Published'.sealed /\ ~Published.sealed =>
         \E p \in Producers :
            call[p].sealed /\ SampleCount(Published') = call[p].count]_vars

-----------------------------------------------------------------------------
(* The inductive invariant.                                                *)

\* Only the holder of the lock has a call under way.
OneProducer == \A p \in Producers : pc[p] # "idle" => lock = p

\* b is a with one more segment.
Grown(b, a) ==
    /\ ~a.sealed /\ ~b.sealed
    /\ Len(b.entries) = Len(a.entries) + 1
    /\ \A k \in DOMAIN a.entries : b.entries[k] = a.entries[k]
    /\ b.entries[Len(b.entries)].start = SampleCount(a)
    /\ b.entries[Len(b.entries)].stop > SampleCount(a)

\* b is a, declared final.
Finished(b, a) == b.entries = a.entries /\ b.sealed

\* Between its file system steps, the catalog in memory is the one on disk;
\* while it is written, it is one step ahead.
MemoryFollowsDisk ==
    \A p \in Producers :
        /\ pc[p] \in {"leftover", "compute", "segment", "wrapup", "return"} =>
               catalog # Null /\ call[p].pub = catalog
        /\ pc[p] = "segment" => ~call[p].pub.sealed /\ Stop(p) > Start(p)
        /\ pc[p] \in {"write", "replace"} =>
               \/ call[p].pub = Published
               \/ Grown(call[p].pub, Published)
               \/ Finished(call[p].pub, Published)

\* What is stored or about to be written is backed by fragments.
Backed ==
    /\ \A d \in segments : d[2] .. d[3] - 1 \subseteq durable
    /\ Sound(Published)
    /\ \A p \in Producers : pc[p] \in {"write", "replace"} => Sound(call[p].pub)

\* Until a call computes, nothing is to do and completed is what is durable.
BeforeCompute ==
    \A p \in Producers :
        LET opening == pc[p] \in {"write", "replace"} /\ call[p].back = "leftover" IN
        /\ pc[p] \in {"idle", "source", "staging", "resume", "root", "leftover"} \/ opening =>
               call[p].todo = {}
        /\ pc[p] \in {"root", "leftover"} \/ opening => call[p].completed = durable
        /\ pc[p] = "segment" => call[p].back # "leftover"

\* TypeOK and the safety invariants, strengthened to be inductive.
IInv ==
    /\ TypeOK
    /\ OneProducer
    /\ MemoryFollowsDisk
    /\ Backed
    /\ BeforeCompute
    /\ NoRecompute
    /\ HeldIsPrefix

-----------------------------------------------------------------------------
(* What SealsCompleteInput needs.                                          *)

Staged == {"root", "leftover", "compute", "segment", "write", "replace", "wrapup"}

\* Nothing is left to compute or to record, unless publish returns to the loop.
Settled(p) ==
    \/ pc[p] \in {"idle", "source", "staging", "resume", "root", "leftover", "wrapup"}
    \/ pc[p] \in {"segment", "write", "replace"} /\ call[p].back # "compute"

\* Fragments are of samples of the source as this call found it; each is recorded or
\* about to be; a catalog is declared final with all the samples of a sealed source.
CountsItsSource ==
    \A p \in Producers :
        /\ pc[p] \in Staged =>
            /\ durable \subseteq Indexes(call[p].count)
            /\ durable = call[p].recorded \cup call[p].written
            /\ call[p].todo \subseteq Indexes(call[p].count)
            /\ call[p].completed \subseteq durable
        /\ Settled(p) => call[p].todo = {} /\ call[p].written = {}
        /\ pc[p] \in {"write", "replace"} /\ call[p].pub.sealed /\ ~Published.sealed =>
            call[p].sealed /\ SampleCount(call[p].pub) = call[p].count

-----------------------------------------------------------------------------
(* Statements of the documentation the code does not keep.                 *)

\* online_materializing_view.md:133 and :196: every producer call appends at
\* most one snapshot.
OneSnapshotPerCall ==
    \A p \in Producers :
        Cardinality({k \in DOMAIN call[p].pub.entries :
                        call[p].pub.entries[k].start >= call[p].before}) <= 1

\* online_materializing_view.md:170: a missing catalog is an empty prefix; a
\* root that only its producers have written to is never refused.
MissingCatalogIsEmptyPrefix == \A c \in Consumers : cpc[c] # "refused"

-----------------------------------------------------------------------------
(* The catalog implements the published prefix of PublishedPrefix.         *)

Prefix == INSTANCE PublishedPrefix WITH
    Readers <- Consumers, Nothing <- Null,
    log <- Published.entries, final <- Published.sealed, held <- held

\* Every behaviour of producers and consumers is one of the abstract log: it
\* only grows, by adjoining segments, until it is final, and a consumer holds
\* the log of one moment.
ImplementsPrefix == Prefix!Spec
=============================================================================
