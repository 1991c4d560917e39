----------------------------- MODULE WriteSink -----------------------------
(***************************************************************************)
(* FragmentOutputSink over BackgroundWriteSink, used by one thread in a    *)
(* `with` block: outputs are gathered into jobs of commit_samples, jobs    *)
(* are written by a pool of threads, and everything the pool finishes is   *)
(* picked up, and reported to a callback, by the thread of the block.      *)
(*                                                                         *)
(* pool = 0 is the inline mode.  The ready queue is a set: between two     *)
(* jobs, which one was put first is decided by the pool and seen only by   *)
(* which one is taken first.                                               *)
(***************************************************************************)
EXTENDS Integers, FiniteSets

CONSTANTS
    Indexes,        \* range(expected)
    Completed,      \* indexes with a fragment before the block
    Batches,        \* the index sets one submit may carry
    CommitSamples,  \* outputs of a full job
    PoolSizes,      \* write_workers
    PendingLimit,   \* max_pending
    JobLimit        \* bound: jobs of a block, which never binds

Jobs == 1 .. JobLimit
None == 0

ASSUME SinkAssumption ==
    /\ IsFiniteSet(Indexes)
    /\ Completed \subseteq Indexes
    /\ Batches \subseteq SUBSET Indexes
    /\ CommitSamples \in Nat \ {0}
    /\ PoolSizes \subseteq Nat
    /\ PendingLimit \in Nat \ {0}
    /\ JobLimit \in Nat /\ JobLimit >= Cardinality(Indexes)

VARIABLES
    pool,      \* threads of the executor
    call,      \* the call the block is in
    pc,        \* where that call is
    batch,     \* the outputs of a submit, then of the job to be submitted
    raising,   \* the call will raise once it has cleaned up
    outputs,   \* _pending_outputs
    reserved,  \* _reserved_indexes
    state,     \* job -> the state of its future
    content,   \* job -> its indexes
    pending,   \* _pending
    ready,     \* _ready_queue
    error,     \* the job whose error is remembered, or None
    durable,   \* indexes written by this block
    reported   \* jobs the callback was told of

futures == <<state, content, durable>>
vars == <<pool, call, pc, batch, raising, outputs, reserved, state, content, pending, ready,
          error, durable, reported>>

Init ==
    /\ pool \in PoolSizes
    /\ call = "none" /\ pc = "idle"
    /\ batch = {}
    /\ raising = FALSE
    /\ outputs = {} /\ reserved = {}
    /\ state = [j \in Jobs |-> "new"]
    /\ content = [j \in Jobs |-> {}]
    /\ pending = {} /\ ready = {}
    /\ error = None
    /\ durable = {} /\ reported = {}

-----------------------------------------------------------------------------
(* The pool.                                                               *)

StartJob(j) ==
    /\ state[j] = "queued"
    /\ \A i \in Jobs : state[i] = "queued" => j <= i
    /\ Cardinality({i \in Jobs : state[i] = "running"}) < pool
    /\ state' = [state EXCEPT ![j] = "running"]
    /\ UNCHANGED <<pool, call, pc, batch, raising, outputs, reserved, content, pending, ready,
                   error, durable, reported>>

\* The future's callback, _mark_ready, runs with its completion.
MarkReady(j) == ready' = ready \cup {j}

Written(j) ==
    /\ state[j] = "running"
    /\ state' = [state EXCEPT ![j] = "written"]
    /\ durable' = durable \cup content[j]
    /\ MarkReady(j)
    /\ UNCHANGED <<pool, call, pc, batch, raising, outputs, reserved, content, pending, error,
                   reported>>

WriteFailsUnmarked(j) ==
    /\ state[j] = "running"
    /\ state' = [state EXCEPT ![j] = "failed"]
    /\ UNCHANGED <<pool, call, pc, batch, raising, outputs, reserved, content, pending, error,
                   ready, durable, reported>>

WriteFails(j) ==
    /\ state[j] = "running"
    /\ state' = [state EXCEPT ![j] = "failed"]
    /\ MarkReady(j)
    /\ UNCHANGED <<pool, call, pc, batch, raising, outputs, reserved, content, pending, error,
                   durable, reported>>

Pool(j) == StartJob(j) \/ Written(j) \/ WriteFails(j)

-----------------------------------------------------------------------------
(* Calls of the block.                                                     *)

\* The exception leaves the call: submit ends the block, the others still flush
\* the pool, and close shuts it down.
RaiseCall ==
    /\ raising' = TRUE
    /\ pc' = CASE call = "submit" -> "abort"
               [] call = "flush" -> IF pc = "flush" THEN "abort" ELSE "flush"
               [] call = "close" -> IF pc = "flush" THEN "shutdown" ELSE "flush"

Submit ==
    /\ pc = "idle"
    /\ \E b \in Batches : batch' = b
    /\ call' = "submit" /\ pc' = "check"
    /\ UNCHANGED <<pool, raising, outputs, reserved, futures, pending, ready, error, reported>>

Flush ==
    /\ pc = "idle"
    /\ call' = "flush" /\ pc' = "emit"
    /\ UNCHANGED <<pool, batch, raising, outputs, reserved, futures, pending, ready, error,
                   reported>>

\* The block ends, or raises: its reader or its provider failed.
ExitBlock ==
    /\ pc = "idle"
    /\ call' = "close" /\ pc' = "emit"
    /\ UNCHANGED <<pool, batch, raising, outputs, reserved, futures, pending, ready, error,
                   reported>>

BlockRaises ==
    /\ pc = "idle"
    /\ call' = "abort" /\ pc' = "abort"
    /\ raising' = TRUE
    /\ UNCHANGED <<pool, batch, outputs, reserved, futures, pending, ready, error, reported>>

\* Where the thread takes finished jobs: while it polls, while the pool is full,
\* and until nothing is pending.
Takes ==
    \/ pc \in {"check", "poll"}
    \/ pc = "full" /\ error = None /\ Cardinality(pending) >= PendingLimit
    \/ pc = "flush"

\* _complete of one job.
Complete(j) ==
    /\ Takes
    /\ j \in ready
    /\ ready' = ready \ {j}
    /\ pending' = pending \ {j}
    /\ \/ /\ state[j] = "failed"
          /\ error' = IF error = None THEN j ELSE error
          /\ UNCHANGED <<pc, raising, reported>>
       \/ /\ state[j] = "written"
          /\ reported' = reported \cup {j}
          /\ UNCHANGED <<pc, raising, error>>
       \/ /\ state[j] = "written"
          /\ RaiseCall  \* the callback raised
          /\ UNCHANGED <<error, reported>>
    /\ UNCHANGED <<pool, call, batch, outputs, reserved, futures>>

NewUnreserved == batch \ Completed

\* Duplicates and what was durable before are skipped.
New == batch \ (Completed \cup reserved)

\* raise_if_failed at the start of submit, and the outputs taken over.
Checked ==
    /\ pc = "check" /\ ready = {}
    /\ IF error # None
       THEN RaiseCall /\ UNCHANGED <<outputs, reserved>>
       ELSE /\ outputs' = outputs \cup New
            /\ reserved' = reserved \cup New
            /\ pc' = "emit"
            /\ UNCHANGED raising
    /\ UNCHANGED <<pool, call, batch, futures, pending, ready, error, reported>>

\* submit makes full jobs, flush and close one of what is left.
Emit ==
    /\ pc = "emit"
    /\ \/ /\ call = "submit" /\ Cardinality(outputs) >= CommitSamples
          /\ batch' \in {s \in SUBSET outputs : Cardinality(s) = CommitSamples}
          /\ pc' = "poll"
       \/ /\ call = "submit" /\ Cardinality(outputs) < CommitSamples
          /\ pc' = "idle"
          /\ UNCHANGED batch
       \/ /\ call # "submit" /\ outputs # {}
          /\ batch' = outputs
          /\ pc' = "poll"
       \/ /\ call # "submit" /\ outputs = {}
          /\ pc' = "flush"
          /\ UNCHANGED batch
    /\ UNCHANGED <<pool, call, raising, outputs, reserved, futures, pending, ready, error,
                   reported>>

\* raise_if_failed of BackgroundWriteSink.submit.
Polled ==
    /\ pc = "poll" /\ ready = {}
    /\ IF error # None
       THEN RaiseCall
       ELSE pc' = (IF pool = 0 THEN "inline" ELSE "full") /\ UNCHANGED raising
    /\ UNCHANGED <<pool, call, batch, outputs, reserved, futures, pending, ready, error, reported>>

\* The error of a job taken while the pool was full.
FullRaises ==
    /\ pc = "full" /\ error # None
    /\ RaiseCall
    /\ UNCHANGED <<pool, call, batch, outputs, reserved, futures, pending, ready, error, reported>>

NextJob(j) == state[j] = "new" /\ \A i \in Jobs : i < j => state[i] # "new"

EnqueueUnbounded ==
    /\ pc = "full" /\ error = None
    /\ \E j \in Jobs :
        /\ NextJob(j)
        /\ state' = [state EXCEPT ![j] = "queued"]
        /\ content' = [content EXCEPT ![j] = batch]
        /\ pending' = pending \cup {j}
    /\ outputs' = outputs \ batch
    /\ pc' = IF call = "submit" THEN "emit" ELSE "flush"
    /\ UNCHANGED <<pool, call, batch, raising, reserved, ready, error, durable, reported>>

Enqueue ==
    /\ pc = "full" /\ error = None /\ Cardinality(pending) < PendingLimit
    /\ \E j \in Jobs :
        /\ NextJob(j)
        /\ state' = [state EXCEPT ![j] = "queued"]
        /\ content' = [content EXCEPT ![j] = batch]
        /\ pending' = pending \cup {j}
    /\ outputs' = outputs \ batch
    /\ pc' = IF call = "submit" THEN "emit" ELSE "flush"
    /\ UNCHANGED <<pool, call, batch, raising, reserved, ready, error, durable, reported>>

\* write_workers = 0: the job is written by the block's own thread.
WriteInline ==
    /\ pc = "inline"
    /\ \E j \in Jobs :
        /\ NextJob(j)
        /\ content' = [content EXCEPT ![j] = batch]
        /\ \/ /\ state' = [state EXCEPT ![j] = "written"]
              /\ durable' = durable \cup batch
              /\ reported' = reported \cup {j}
              /\ outputs' = outputs \ batch
              /\ pc' = IF call = "submit" THEN "emit" ELSE "flush"
              /\ UNCHANGED <<raising, error>>
           \/ /\ state' = [state EXCEPT ![j] = "written"]
              /\ durable' = durable \cup batch
              /\ RaiseCall  \* the callback raised
              /\ UNCHANGED <<outputs, error, reported>>
           \/ /\ state' = [state EXCEPT ![j] = "failed"]
              /\ error' = IF error = None THEN j ELSE error
              /\ RaiseCall
              /\ UNCHANGED <<outputs, durable, reported>>
    /\ UNCHANGED <<pool, call, batch, reserved, pending, ready>>

\* The remembered error, or the one that kept the last job from being submitted.
Flushed ==
    /\ pc = "flush" /\ pending = {} /\ ready = {}
    /\ IF error # None \/ raising
       THEN RaiseCall
       ELSE pc' = (IF call = "flush" THEN "idle" ELSE "shutdown") /\ UNCHANGED raising
    /\ UNCHANGED <<pool, call, batch, outputs, reserved, futures, pending, ready, error, reported>>

Unfinished == {j \in Jobs : state[j] \in {"queued", "running"}}

ShutdownAtOnce ==
    /\ pc = "shutdown"
    /\ pc' = IF raising THEN "failed" ELSE "closed"
    /\ UNCHANGED <<pool, call, batch, raising, outputs, reserved, futures, pending, ready, error,
                   reported>>

\* executor.shutdown() of close waits for the jobs that a raising flush left.
Shutdown ==
    /\ pc = "shutdown" /\ Unfinished = {}
    /\ pc' = IF raising THEN "failed" ELSE "closed"
    /\ UNCHANGED <<pool, call, batch, raising, outputs, reserved, futures, pending, ready, error,
                   reported>>

\* abort drops what is pending, cancels what has not started ...
Abort ==
    /\ pc = "abort"
    /\ outputs' = {}
    /\ pending' = {}
    /\ state' = [j \in Jobs |-> IF state[j] = "queued" THEN "cancelled" ELSE state[j]]
    /\ pc' = "aborting"
    /\ UNCHANGED <<pool, call, batch, raising, reserved, content, ready, error, durable, reported>>

\* ... and waits for what has.
Aborted ==
    /\ pc = "aborting" /\ Unfinished = {}
    /\ pc' = "failed"
    /\ UNCHANGED <<pool, call, batch, raising, outputs, reserved, futures, pending, ready, error,
                   reported>>

-----------------------------------------------------------------------------
Step ==
    \/ Checked \/ Emit \/ Polled \/ FullRaises \/ Enqueue \/ WriteInline \/ Flushed \/ Shutdown
    \/ Abort \/ Aborted
    \/ \E j \in Jobs : Complete(j)

Next ==
    \/ Submit \/ Flush \/ ExitBlock \/ BlockRaises \/ Step
    \/ \E j \in Jobs : Pool(j)

Spec == Init /\ [][Next]_vars

\* A started call goes on, writes end, and the pool takes queued jobs; nothing
\* makes the block call.
FairSpec == Spec /\ WF_vars(Step) /\ \A j \in Jobs : WF_vars(Pool(j))

-----------------------------------------------------------------------------
\* Every variable has its type, and no more jobs are pending than max_pending.
TypeOK ==
    /\ pool \in PoolSizes
    /\ call \in {"none", "submit", "flush", "close", "abort"}
    /\ pc \in {"idle", "check", "emit", "poll", "full", "inline", "flush", "shutdown", "abort",
               "aborting", "closed", "failed"}
    /\ batch \subseteq Indexes /\ outputs \subseteq Indexes /\ reserved \subseteq Indexes
    /\ raising \in BOOLEAN
    /\ state \in [Jobs -> {"new", "queued", "running", "written", "failed", "cancelled"}]
    /\ content \in [Jobs -> SUBSET Indexes]
    /\ pending \subseteq Jobs /\ Cardinality(pending) <= PendingLimit
    /\ ready \subseteq Jobs /\ reported \subseteq Jobs
    /\ error \in Jobs \cup {None}
    /\ durable \subseteq Indexes

\* No index is written to two fragments, nor to one beside what was durable before:
\* later runs reject overlapping fragments.
EachOnce ==
    \A j \in Jobs :
        /\ content[j] \cap Completed = {}
        /\ \A k \in Jobs : j # k => content[j] \cap content[k] = {}

Contract == INSTANCE DurableSet WITH
    accepted <- reserved,
    stored <- durable,
    reported <- UNION {content[j] : j \in reported},
    result <- IF pc \in {"closed", "failed"} THEN pc ELSE "open"

\* A block that ends without an exception has made all it accepted durable and has
\* told the callback; nothing is reported before it is durable, and no thread still
\* writes once the block has ended.
ImplementsDurableSet == Contract!Spec

\* submit under backpressure, flush, close and abort end, whatever writes fail.
EveryCallEnds == pc \notin {"idle", "closed", "failed"} ~> pc \in {"idle", "closed", "failed"}

-----------------------------------------------------------------------------
(* The inductive invariant of the proofs.                                  *)

\* Which call is where; what raises is on its way out of the block.
CallIsPlaced ==
    /\ pc = "check" => call = "submit"
    /\ pc \in {"emit", "poll", "full", "inline"} => call \in {"submit", "flush", "close"}
    /\ pc = "flush" => call \in {"flush", "close"}
    /\ pc = "shutdown" => call = "close"
    /\ pc = "closed" => ~raising
    /\ raising => pc \in {"flush", "shutdown", "abort", "aborting", "failed"}
    /\ pc \in {"abort", "aborting", "failed"} => raising

\* Jobs carry accepted outputs, and only written ones count.
JobsAreAccepted ==
    /\ outputs \subseteq reserved
    /\ reserved \cap Completed = {}
    /\ durable = UNION {content[j] : j \in {i \in Jobs : state[i] = "written"}}
    /\ \A j \in Jobs :
        /\ state[j] = "new" => content[j] = {}
        /\ content[j] \subseteq reserved
        /\ j \in reported => state[j] = "written"

\* Until something raises, an accepted output is in exactly one place.
NothingIsDropped ==
    ~raising =>
        /\ reserved = outputs \cup UNION {content[j] : j \in Jobs}
        /\ \A j \in Jobs : content[j] \cap outputs = {}
        /\ pc \in {"poll", "full", "inline"} => batch \subseteq outputs
        /\ pc \in {"poll", "full", "inline"} /\ call # "submit" => batch = outputs
        /\ pc \in {"flush", "shutdown", "closed"} => outputs = {}

\* Until something raises, every job is pending until it is reported or its error
\* is remembered.
JobsArePending ==
    ~raising =>
        /\ \A j \in Jobs :
            /\ state[j] \in {"queued", "running"} => j \in pending
            /\ state[j] = "written" => j \in pending \cup reported
            /\ state[j] = "failed" => j \in pending \/ error # None
            /\ state[j] # "cancelled"
        /\ pc \in {"shutdown", "closed"} => pending = {} /\ error = None

\* The block has ended only when the pool is idle.
QuietAfterEnd == pc \in {"closed", "failed"} => Unfinished = {}

\* Inductive.
IInv ==
    /\ TypeOK
    /\ EachOnce
    /\ CallIsPlaced
    /\ JobsAreAccepted
    /\ NothingIsDropped
    /\ JobsArePending
    /\ QuietAfterEnd
=============================================================================
