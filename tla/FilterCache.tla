---------------------------- MODULE FilterCache ----------------------------
(***************************************************************************)
(* The on-disk cache of one filter rule over one dataset identity:         *)
(* ensure_filter and cleanup_filter_generations called by any number of    *)
(* processes on the same cache path.                                       *)
(*                                                                         *)
(* A build judges the samples that have no resume fragment yet, replays    *)
(* the fragments into a private directory, renames it to a new immutable   *)
(* generation, repoints current.json and only then removes generations no  *)
(* reader has leased.  Builders and cleaners serialise on one FileLock;    *)
(* readers take no lock: they pin a generation with a shared flock on its  *)
(* .lease file, which a remover must hold exclusively.                     *)
(*                                                                         *)
(* The file system (generation directories, their .lease files, the        *)
(* pointer, the resume directory) outlives a crash; file locks and the     *)
(* local variables of a call do not.                                       *)
(***************************************************************************)
EXTENDS Integers, FiniteSets

CONSTANTS
    Procs,        \* callers: threads or processes sharing the cache path
    Gens,         \* generation ids uuid4 may draw
    Requests,     \* the calls a caller may make
    Null,         \* "no generation", "no process", "no resume.json"
    CallLimit,    \* bound: calls started over a behaviour
    CrashLimit,   \* bound: crashes over a behaviour
    LockTimesOut  \* whether a wait for the FileLock may reach its timeout

ASSUME NullAssumption ==
    /\ Null \notin Gens
    /\ Null \notin Procs
    /\ Null \notin [count : Nat, metrics : BOOLEAN]
ASSUME RequestsAssumption ==
    Requests \subseteq [op : {"ensure", "cleanup"}, count : Nat,
                        metrics : BOOLEAN, rebuild : BOOLEAN]
ASSUME LimitsAssumption ==
    CallLimit \in Nat /\ CrashLimit \in Nat /\ LockTimesOut \in BOOLEAN

VARIABLES
    dir,      \* generation -> "absent", "whole", "torn" (rmtree under way) or "gone"
    lease,    \* generations whose directory holds a .lease file
    rule,     \* generation -> the variant its rule.json and metrics record
    content,  \* generation -> the judgements replayed into it
    pointer,  \* the generation current.json names
    resume,   \* the resume directory: its resume.json and its fragments
    lock,     \* the holder of the FileLock
    sh,       \* caller -> generation it holds a shared flock on
    ex,       \* caller -> generation it holds an exclusive flock on
    pc,       \* caller -> where its call stands
    req,      \* caller -> the call it makes
    seen,     \* caller -> the generation it last took from current.json
    victim,   \* caller -> the generation it is about to remove
    queue,    \* caller -> directories its sweep has still to visit
    todo,     \* caller -> indexes its build has still to judge
    calls, crashes

disk  == <<dir, lease, rule, content, pointer>>
flocks == <<sh, ex>>
local == <<req, seen, victim, queue, todo>>
vars  == <<dir, lease, rule, content, pointer, resume, lock, sh, ex, pc,
           req, seen, victim, queue, todo, calls, crashes>>

-----------------------------------------------------------------------------
(* A variant is what a build depends on and a cache path does not fix: the *)
(* sample count of the dataset and whether metrics are stored.             *)

Variants == [count : Nat, metrics : BOOLEAN]

VariantWithoutMetrics(r) == [count |-> r.count]

Variant(r) == [count |-> r.count, metrics |-> r.metrics]

Indexes(v) == 0 .. v.count - 1

\* Every sample judged once, all of them under v.
Exactly(v) == Indexes(v) \X {v}

Durable == {f[1] : f \in resume.frags}

\* What replaying the fragments gives a new generation.
Replayed == resume.frags

EmptyResume == [key |-> Null, frags |-> {}]

\* What rmtree may have left of the resume directory r part way through.
Remnants(r) == [key : {r.key, Null}, frags : SUBSET r.frags]

\* The directory entries an iterdir of generations/ returns.
Present == {g \in Gens : dir[g] \in {"whole", "torn"}}

\* not_ready_reason(...) is None: every file the manifest lists is there, the
\* recorded metadata is the expected one, metrics are stored if asked for.
Ready(g, r) ==
    /\ dir[g] = "whole"
    /\ rule[g].count = r.count
    /\ r.metrics => rule[g].metrics

Init ==
    /\ dir = [g \in Gens |-> "absent"]
    /\ lease = {}
    /\ rule = [g \in Gens |-> Null]
    /\ content = [g \in Gens |-> {}]
    /\ pointer = Null
    /\ resume = EmptyResume
    /\ lock = Null
    /\ sh = [p \in Procs |-> Null]
    /\ ex = [p \in Procs |-> Null]
    /\ pc = [p \in Procs |-> "idle"]
    /\ req = [p \in Procs |-> Null]
    /\ seen = [p \in Procs |-> Null]
    /\ victim = [p \in Procs |-> Null]
    /\ queue = [p \in Procs |-> {}]
    /\ todo = [p \in Procs |-> {}]
    /\ calls = 0 /\ crashes = 0

Goto(p, label) == pc' = [pc EXCEPT ![p] = label]

\* A lookup without the lock that misses queues for it; one under it builds.
Miss(p) == Goto(p, IF lock = p THEN "prepare" ELSE "lock")

-----------------------------------------------------------------------------
(* Entering a call, and the FileLock.                                      *)

Start(p) ==
    /\ pc[p] = "idle"
    /\ calls < CallLimit
    /\ \E r \in Requests :
        /\ req' = [req EXCEPT ![p] = r]
        /\ Goto(p, IF r.op = "cleanup" \/ r.rebuild THEN "lock" ELSE "read")
    /\ calls' = calls + 1
    /\ UNCHANGED <<disk, resume, lock, flocks, seen, victim, queue, todo, crashes>>

AcquireUnlocked(p) ==
    /\ pc[p] = "lock"
    /\ lock' = p
    /\ Goto(p, IF req[p].op = "cleanup" THEN "scan"
               ELSE IF req[p].rebuild THEN "discard" ELSE "read")
    /\ UNCHANGED <<disk, resume, flocks, local, calls, crashes>>

\* Mutant: no second look under the lock.
AcquireToBuild(p) ==
    /\ pc[p] = "lock"
    /\ lock = Null
    /\ lock' = p
    /\ Goto(p, IF req[p].op = "cleanup" THEN "scan"
               ELSE IF req[p].rebuild THEN "discard" ELSE "prepare")
    /\ UNCHANGED <<disk, resume, flocks, local, calls, crashes>>

Acquire(p) ==
    /\ pc[p] = "lock"
    /\ lock = Null
    /\ lock' = p
    /\ Goto(p, IF req[p].op = "cleanup" THEN "scan"
               ELSE IF req[p].rebuild THEN "discard" ELSE "read")
    /\ UNCHANGED <<disk, resume, flocks, local, calls, crashes>>

\* FileLock.__enter__ polls until wait_timeout, then raises TimeoutError.
GiveUp(p) ==
    /\ LockTimesOut
    /\ pc[p] = "lock"
    /\ lock # Null
    /\ Goto(p, "idle")
    /\ UNCHANGED <<disk, resume, lock, flocks, local, calls, crashes>>

\* Leaving the with block; a call that has a lease returns it to its caller.
Unlock(p) ==
    /\ pc[p] = "unlock"
    /\ lock' = Null
    /\ Goto(p, IF sh[p] = Null THEN "idle" ELSE "using")
    /\ UNCHANGED <<disk, resume, flocks, local, calls, crashes>>

\* The caller closes its FilterCache.
Close(p) ==
    /\ pc[p] = "using"
    /\ sh' = [sh EXCEPT ![p] = Null]
    /\ Goto(p, "idle")
    /\ UNCHANGED <<disk, resume, lock, ex, local, calls, crashes>>

-----------------------------------------------------------------------------
(* ready_filter_generation: lease the current generation, then validate it. *)

ReadPointer(p) ==
    /\ pc[p] = "read"
    /\ IF pointer = Null
       THEN Miss(p) /\ UNCHANGED seen
       ELSE Goto(p, "open") /\ seen' = [seen EXCEPT ![p] = pointer]
    /\ UNCHANGED <<disk, resume, lock, flocks, req, victim, queue, todo, calls, crashes>>

OpenLease(p) ==
    /\ pc[p] = "open"
    /\ Goto(p, IF seen[p] \in lease THEN "flock" ELSE "reread")
    /\ UNCHANGED <<disk, resume, lock, flocks, local, calls, crashes>>

\* flock(LOCK_SH) blocks while a remover holds the file exclusively.
FlockShared(p) ==
    /\ pc[p] = "flock"
    /\ \A q \in Procs : ex[q] # seen[p]
    /\ sh' = [sh EXCEPT ![p] = seen[p]]
    /\ Goto(p, "verify")
    /\ UNCHANGED <<disk, resume, lock, ex, local, calls, crashes>>

\* The opened file must still be the one the directory names.
VerifyLease(p) ==
    /\ pc[p] = "verify"
    /\ IF seen[p] \in lease
       THEN Goto(p, "check") /\ UNCHANGED sh
       ELSE Goto(p, "reread") /\ sh' = [sh EXCEPT ![p] = Null]
    /\ UNCHANGED <<disk, resume, lock, ex, local, calls, crashes>>

\* lease_current_filter_generation retries only if the pointer moved on.
Reread(p) ==
    /\ pc[p] = "reread"
    /\ IF pointer \in {Null, seen[p]} THEN Miss(p) ELSE Goto(p, "read")
    /\ UNCHANGED <<disk, resume, lock, flocks, local, calls, crashes>>

CheckReady(p) ==
    /\ pc[p] = "check"
    /\ IF Ready(seen[p], req[p])
       THEN Goto(p, IF lock = p THEN "unlock" ELSE "using") /\ UNCHANGED sh
       ELSE Miss(p) /\ sh' = [sh EXCEPT ![p] = Null]
    /\ UNCHANGED <<disk, resume, lock, ex, local, calls, crashes>>

-----------------------------------------------------------------------------
(* Building a generation, under the lock.                                  *)

\* rebuild=True discards the resume directory (its rmtree takes two steps)
\* and then the pointer.
Discard(p) ==
    /\ pc[p] = "discard"
    /\ resume' \in Remnants(resume)
    /\ Goto(p, "discarding")
    /\ UNCHANGED <<disk, lock, flocks, local, calls, crashes>>

Discarded(p) ==
    /\ pc[p] = "discarding"
    /\ resume' = EmptyResume
    /\ Goto(p, "unlink")
    /\ UNCHANGED <<disk, lock, flocks, local, calls, crashes>>

UnlinkPointer(p) ==
    /\ pc[p] = "unlink"
    /\ pointer' = Null
    /\ Goto(p, "prepare")
    /\ UNCHANGED <<dir, lease, rule, content, resume, lock, flocks, local, calls, crashes>>

\* A resume directory that is reused whatever variant it was written for.
PrepareAnyVariant(p) ==
    /\ pc[p] = "prepare"
    /\ todo' = [todo EXCEPT ![p] = Indexes(Variant(req[p])) \ Durable]
    /\ resume' = [resume EXCEPT !.key = Variant(req[p])]
    /\ Goto(p, "collect")
    /\ UNCHANGED <<disk, lock, flocks, req, seen, victim, queue, calls, crashes>>

\* prepare_filter_resume_dir: fragments of another variant are wiped, those of
\* this one are kept and their indexes are not judged again.
Prepare(p) ==
    /\ pc[p] = "prepare"
    /\ IF resume.key = Variant(req[p])
       THEN /\ todo' = [todo EXCEPT ![p] = Indexes(Variant(req[p])) \ Durable]
            /\ Goto(p, "collect")
            /\ UNCHANGED resume
       ELSE /\ resume' \in Remnants(resume)
            /\ Goto(p, "preparing")
            /\ UNCHANGED todo
    /\ UNCHANGED <<disk, lock, flocks, req, seen, victim, queue, calls, crashes>>

Prepared(p) ==
    /\ pc[p] = "preparing"
    /\ resume' = [key |-> Variant(req[p]), frags |-> {}]
    /\ todo' = [todo EXCEPT ![p] = Indexes(Variant(req[p]))]
    /\ Goto(p, "collect")
    /\ UNCHANGED <<disk, lock, flocks, req, seen, victim, queue, calls, crashes>>

\* One fragment: a chunk of judged samples made durable by one rename.
Collect(p) ==
    /\ pc[p] = "collect"
    /\ \E chunk \in SUBSET todo[p] \ {{}} :
        /\ resume' = [resume EXCEPT !.frags = @ \cup (chunk \X {Variant(req[p])})]
        /\ todo' = [todo EXCEPT ![p] = @ \ chunk]
    /\ UNCHANGED <<disk, lock, flocks, pc, req, seen, victim, queue, calls, crashes>>

BuildFailsCleaning(p) ==
    /\ pc[p] \in {"collect", "point"}
    /\ resume' = EmptyResume
    /\ Goto(p, "unlock")
    /\ UNCHANGED <<disk, lock, flocks, local, calls, crashes>>

\* The dataset, the rule, the replay or the pointer write raises; durable
\* fragments stay, and so does a generation that was renamed but not named.
BuildFails(p) ==
    /\ pc[p] \in {"collect", "point"}
    /\ Goto(p, "unlock")
    /\ UNCHANGED <<disk, resume, lock, flocks, local, calls, crashes>>

\* All indexes are covered: the replayed fragments are renamed into place
\* under a fresh id, .lease included.
PublishGeneration(p) ==
    /\ pc[p] = "collect"
    /\ todo[p] = {}
    /\ Durable = Indexes(Variant(req[p]))
    /\ \E g \in Gens :
        /\ dir[g] = "absent"
        /\ dir' = [dir EXCEPT ![g] = "whole"]
        /\ lease' = lease \cup {g}
        /\ rule' = [rule EXCEPT ![g] = Variant(req[p])]
        /\ content' = [content EXCEPT ![g] = Replayed]
        /\ seen' = [seen EXCEPT ![p] = g]
    /\ Goto(p, "point")
    /\ UNCHANGED <<pointer, resume, lock, flocks, req, victim, queue, todo, calls, crashes>>

WritePointer(p) ==
    /\ pc[p] = "point"
    /\ pointer' = seen[p]
    /\ Goto(p, "pin")
    /\ UNCHANGED <<dir, lease, rule, content, resume, lock, flocks, local, calls, crashes>>

\* lease_filter_generation on the generation just published: one step, since
\* only a holder of the FileLock could remove it.
PinPublished(p) ==
    /\ pc[p] = "pin"
    /\ seen[p] \in lease
    /\ sh' = [sh EXCEPT ![p] = seen[p]]
    /\ Goto(p, "tidy")
    /\ UNCHANGED <<disk, resume, lock, ex, local, calls, crashes>>

\* cleanup_filter_resume_dir after publication.
Tidy(p) ==
    /\ pc[p] = "tidy"
    /\ resume' \in Remnants(resume)
    /\ Goto(p, "tidying")
    /\ UNCHANGED <<disk, lock, flocks, local, calls, crashes>>

Tidied(p) ==
    /\ pc[p] = "tidying"
    /\ resume' = EmptyResume
    /\ Goto(p, "scan")
    /\ UNCHANGED <<disk, lock, flocks, local, calls, crashes>>

-----------------------------------------------------------------------------
(* cleanup_filter_generations_locked.                                      *)

\* The pointer is read once, the directory listed once; a missing pointer
\* raises FileNotFoundError.
Scan(p) ==
    /\ pc[p] = "scan"
    /\ IF pointer = Null
       THEN Goto(p, "unlock") /\ UNCHANGED <<seen, queue>>
       ELSE /\ seen' = [seen EXCEPT ![p] = pointer]
            /\ queue' = [queue EXCEPT ![p] = Present \ {pointer}]
            /\ Goto(p, "sweep")
    /\ UNCHANGED <<disk, resume, lock, flocks, req, victim, todo, calls, crashes>>

\* A directory that has lost its .lease file is left alone.
Sweep(p) ==
    /\ pc[p] = "sweep"
    /\ \E g \in queue[p] :
        IF g \in lease
        THEN /\ victim' = [victim EXCEPT ![p] = g]
             /\ Goto(p, "trylock")
             /\ UNCHANGED queue
        ELSE /\ queue' = [queue EXCEPT ![p] = @ \ {g}]
             /\ UNCHANGED <<victim, pc>>
    /\ UNCHANGED <<disk, resume, lock, flocks, req, seen, todo, calls, crashes>>

SweepDone(p) ==
    /\ pc[p] = "sweep"
    /\ queue[p] = {}
    /\ Goto(p, "unlock")
    /\ UNCHANGED <<disk, resume, lock, flocks, local, calls, crashes>>

FlockedByRemover(g) == \E q \in Procs : ex[q] = g

Flocked(g) == \E q \in Procs : sh[q] = g \/ ex[q] = g

TryExclusiveBlocking(p) ==
    /\ pc[p] = "trylock"
    /\ ~Flocked(victim[p])
    /\ ex' = [ex EXCEPT ![p] = victim[p]]
    /\ Goto(p, "recheck")
    /\ UNCHANGED <<disk, resume, lock, sh, req, seen, victim, queue, todo, calls, crashes>>

\* flock(LOCK_EX | LOCK_NB): a leased generation is skipped, never waited for.
TryExclusive(p) ==
    /\ pc[p] = "trylock"
    /\ IF Flocked(victim[p])
       THEN /\ queue' = [queue EXCEPT ![p] = @ \ {victim[p]}]
            /\ Goto(p, "sweep")
            /\ UNCHANGED ex
       ELSE /\ ex' = [ex EXCEPT ![p] = victim[p]]
            /\ Goto(p, "recheck")
            /\ UNCHANGED queue
    /\ UNCHANGED <<disk, resume, lock, sh, req, seen, victim, todo, calls, crashes>>

\* Same file, and still not the generation current.json named: rmtree starts.
\* It may unlink the .lease file before or after the others.
Tear(p) ==
    /\ pc[p] = "recheck"
    /\ victim[p] \in lease
    /\ victim[p] # seen[p]
    /\ dir' = [dir EXCEPT ![victim[p]] = "torn"]
    /\ lease' \in {lease, lease \ {victim[p]}}
    /\ Goto(p, "tearing")
    /\ UNCHANGED <<rule, content, pointer, resume, lock, flocks, local, calls, crashes>>

Torn(p) ==
    /\ pc[p] = "tearing"
    /\ dir' = [dir EXCEPT ![victim[p]] = "gone"]
    /\ lease' = lease \ {victim[p]}
    /\ ex' = [ex EXCEPT ![p] = Null]
    /\ queue' = [queue EXCEPT ![p] = @ \ {victim[p]}]
    /\ Goto(p, "sweep")
    /\ UNCHANGED <<rule, content, pointer, resume, lock, sh, req, seen, victim, todo,
                   calls, crashes>>

\* rmtree raises part way: write_cache closes the lease it took and re-raises,
\* although the generation stays published.
RemovalFails(p) ==
    /\ pc[p] \in {"discarding", "preparing", "tidying", "tearing"}
    /\ sh' = [sh EXCEPT ![p] = Null]
    /\ ex' = [ex EXCEPT ![p] = Null]
    /\ Goto(p, "unlock")
    /\ UNCHANGED <<disk, resume, lock, local, calls, crashes>>

-----------------------------------------------------------------------------
\* A killed process loses its flocks, its FileLock and its local state.
Crash(p) ==
    /\ pc[p] # "idle"
    /\ crashes < CrashLimit
    /\ crashes' = crashes + 1
    /\ lock' = IF lock = p THEN Null ELSE lock
    /\ sh' = [sh EXCEPT ![p] = Null]
    /\ ex' = [ex EXCEPT ![p] = Null]
    /\ Goto(p, "idle")
    /\ UNCHANGED <<disk, resume, local, calls>>

Lookup(p) ==
    \/ ReadPointer(p) \/ OpenLease(p) \/ FlockShared(p)
    \/ VerifyLease(p) \/ Reread(p) \/ CheckReady(p)

Build(p) ==
    \/ Discard(p) \/ Discarded(p) \/ UnlinkPointer(p)
    \/ Prepare(p) \/ Prepared(p) \/ Collect(p) \/ BuildFails(p)
    \/ PublishGeneration(p) \/ WritePointer(p) \/ PinPublished(p)
    \/ Tidy(p) \/ Tidied(p)

Cleanup(p) ==
    \/ Scan(p) \/ Sweep(p) \/ SweepDone(p) \/ TryExclusive(p)
    \/ Tear(p) \/ Torn(p) \/ RemovalFails(p)

\* The steps a call takes by itself once it was made.
Step(p) == Acquire(p) \/ GiveUp(p) \/ Unlock(p) \/ Lookup(p) \/ Build(p) \/ Cleanup(p)

Next == \E p \in Procs : Start(p) \/ Step(p) \/ Close(p) \/ Crash(p)

Spec == Init /\ [][Next]_vars

\* A running call goes on running; nobody has to call, close or crash.
FairSpec == Spec /\ \A p \in Procs : WF_vars(Step(p))

-----------------------------------------------------------------------------
Labels ==
    {"idle", "lock", "read", "open", "flock", "verify", "reread", "check",
     "discard", "discarding", "unlink", "prepare", "preparing", "collect",
     "point", "pin", "tidy", "tidying", "scan", "sweep", "trylock", "recheck",
     "tearing", "unlock", "using"}

\* Every variable has its type.
TypeOK ==
    /\ dir \in [Gens -> {"absent", "whole", "torn", "gone"}]
    /\ lease \in SUBSET Gens
    /\ rule \in [Gens -> Variants \cup {Null}]
    /\ content \in [Gens -> SUBSET (Nat \X Variants)]
    /\ pointer \in Gens \cup {Null}
    /\ resume \in [key : Variants \cup {Null}, frags : SUBSET (Nat \X Variants)]
    /\ lock \in Procs \cup {Null}
    /\ sh \in [Procs -> Gens \cup {Null}]
    /\ ex \in [Procs -> Gens \cup {Null}]
    /\ pc \in [Procs -> Labels]
    /\ req \in [Procs -> Requests \cup {Null}]
    /\ seen \in [Procs -> Gens \cup {Null}]
    /\ victim \in [Procs -> Gens \cup {Null}]
    /\ queue \in [Procs -> SUBSET Gens]
    /\ todo \in [Procs -> SUBSET Nat]
    /\ calls \in 0 .. CallLimit
    /\ crashes \in 0 .. CrashLimit

\* docs/filter_cache.md: leased generations are retained.  A generation a call
\* has returned to its caller keeps all its files, whatever builds, rebuilds,
\* cleanups and crashes happen while it is open.
LeasedStaysWhole ==
    \A p \in Procs : pc[p] = "using" => /\ sh[p] \in Gens
                                        /\ dir[sh[p]] = "whole"

\* The answer a caller holds is the one it asked for: made for its sample
\* count, with metrics if it wanted them, and judging each sample exactly once
\* under one variant, even when crashed builds left fragments of another.
AnswerIsExact ==
    \A p \in Procs : pc[p] = "using" =>
        /\ rule[sh[p]].count = req[p].count
        /\ req[p].metrics => rule[sh[p]].metrics
        /\ content[sh[p]] = Exactly(rule[sh[p]])

\* current.json never names a directory that is missing or being removed, so
\* a reader that misses has only a missing or outdated cache to blame.
CurrentIsWhole == pointer # Null => dir[pointer] = "whole" /\ pointer \in lease

\* No index is judged twice: not by a build that resumes another, which leaves out
\* what has a durable fragment, not by a second builder at the same time, and not
\* by one that waited for the lock while another published what it asks for.
NoRejudge ==
    \A p \in Procs : pc[p] = "collect" =>
        /\ todo[p] = Indexes(Variant(req[p])) \ Durable
        /\ pointer # Null => ~Ready(pointer, req[p])

\* Durable judgements are only discarded by a rebuild, by a request they cannot
\* serve, or once the generation current.json names holds all of them.
WorkIsKept ==
    [][ \/ resume.frags \subseteq resume'.frags
        \/ pointer # Null /\ resume.frags \subseteq content[pointer]
        \/ \E p \in Procs : /\ lock = p
                            /\ req[p].rebuild \/ resume.key # Variant(req[p])
      ]_vars

\* No call waits forever: not for the lock, not for a .lease file another
\* caller holds, not in the retry loop of a reader that chases the pointer,
\* even if callers keep their leases and nobody times out.
EveryCallReturns ==
    \A p \in Procs : pc[p] \notin {"idle", "using"} ~> pc[p] \in {"idle", "using"}

-----------------------------------------------------------------------------
(* The inductive invariant behind LeasedStaysWhole and CurrentIsWhole.     *)

\* Where a call is inside the with block of the FileLock.
UnderLock ==
    {"discard", "discarding", "unlink", "prepare", "preparing", "collect", "point",
     "pin", "tidy", "tidying", "scan", "sweep", "trylock", "recheck", "tearing",
     "unlock"}

Sweeping == {"sweep", "trylock", "recheck", "tearing"}

\* Where a call holds a validated lease, if it holds one.
Pinned == {"tidy", "tidying", "scan", "unlock", "using"} \cup Sweeping

CallHasRequest == \A p \in Procs : pc[p] # "idle" => req[p] \in Requests

LockIsOwned == \A p \in Procs : pc[p] \in UnderLock => lock = p

WholeHasLease == \A g \in Gens : dir[g] = "whole" => g \in lease

\* What a call read from current.json, or is about to write to it.
SeenIsCurrent ==
    \A p \in Procs :
        /\ pc[p] \in {"open", "flock", "verify", "check", "point", "pin"} \cup Sweeping
              => seen[p] \in Gens
        /\ pc[p] = "point" => dir[seen[p]] = "whole"
        /\ pc[p] \in {"pin"} \cup Sweeping => pointer = seen[p]

\* An exclusive flock is held exactly while a superseded generation is removed.
RemoverHoldsVictim ==
    \A p \in Procs :
        /\ ex[p] # Null <=> pc[p] \in {"recheck", "tearing"}
        /\ pc[p] \in {"trylock", "recheck", "tearing"} => victim[p] \in Gens
        /\ pc[p] \in {"recheck", "tearing"} => ex[p] = victim[p]
        /\ pc[p] = "tearing" => victim[p] # seen[p]

FlockExcludes == \A p, q \in Procs : ex[p] # Null => sh[q] # ex[p]

SharedIsPinned ==
    \A p \in Procs :
        /\ pc[p] \in {"verify", "check"} => sh[p] = seen[p]
        /\ pc[p] \in Pinned /\ sh[p] # Null => dir[sh[p]] = "whole"
        /\ pc[p] = "using" => sh[p] # Null
        /\ pc[p] \notin Pinned \cup {"verify", "check"} => sh[p] = Null

IInv ==
    /\ TypeOK
    /\ CallHasRequest
    /\ LockIsOwned
    /\ WholeHasLease
    /\ CurrentIsWhole
    /\ SeenIsCurrent
    /\ RemoverHoldsVictim
    /\ FlockExcludes
    /\ SharedIsPinned

-----------------------------------------------------------------------------
(* What AnswerIsExact and NoRejudge need on top of IInv.                   *)

\* Fragments beside a readable resume.json were judged under its variant.
FragmentsMatchKey == resume.key # Null => resume.frags \subseteq Exactly(resume.key)

BuildIsKeyed ==
    \A p \in Procs : pc[p] = "collect" =>
        /\ resume.key = Variant(req[p])
        /\ todo[p] = Indexes(Variant(req[p])) \ Durable

\* A call that has the lock looks at the generation that is current and builds when
\* there is none that serves it.
BuildIsDue ==
    \A p \in Procs :
        /\ lock = p => pc[p] # "reread"
        /\ lock = p /\ pc[p] \in {"open", "flock", "verify", "check"} => seen[p] = pointer
        /\ pc[p] \in {"prepare", "preparing", "collect"} /\ pointer # Null =>
               ~Ready(pointer, req[p])

WholeIsExact ==
    \A g \in Gens : dir[g] = "whole" => /\ rule[g] \in Variants
                                        /\ content[g] = Exactly(rule[g])

Answers(g, r) == rule[g].count = r.count /\ (r.metrics => rule[g].metrics)

LeaseAnswers ==
    \A p \in Procs :
        /\ pc[p] \in {"point", "pin"} => Answers(seen[p], req[p])
        /\ pc[p] \in Pinned /\ sh[p] # Null => Answers(sh[p], req[p])

ExactInv == FragmentsMatchKey /\ BuildIsKeyed /\ BuildIsDue /\ WholeIsExact /\ LeaseAnswers

-----------------------------------------------------------------------------
(* What WorkIsKept needs.                                                  *)

\* Whoever is about to remove fragments may: it was told to rebuild, they are of
\* another variant, or the generation it publishes holds them.
RemovalIsDue ==
    \A p \in Procs :
        /\ pc[p] \in {"discard", "discarding"} => req[p].rebuild
        /\ pc[p] = "preparing" => resume.key # Variant(req[p])
        /\ pc[p] = "point" => resume.frags \subseteq content[seen[p]]
        /\ pc[p] \in {"pin", "tidy", "tidying"} =>
               pointer \in Gens /\ resume.frags \subseteq content[pointer]
=============================================================================
