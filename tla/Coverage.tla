------------------------------ MODULE Coverage ------------------------------
(***************************************************************************)
(* CoverageCoordinator: threads that need a value per index, or only need  *)
(* every index covered, share the work.  The first claim of an index owns  *)
(* it; later claims wait for that attempt.  A value is retained only while *)
(* somebody who asked for it has not taken it, so a completed index that   *)
(* is asked for again is computed again.  The first error is sticky.       *)
(*                                                                         *)
(* Every operation runs under one Condition.  A claim_batch holds it over  *)
(* several claims, hence the monitor variable; the others are one step.    *)
(* Condition.wait parks a thread until a notify_all.                       *)
(***************************************************************************)
EXTENDS Integers, Sequences, FiniteSets

CONSTANTS
    Threads,
    Indexes,       \* range(expected)
    Completed0,    \* indexes durable before this process started
    Batches,       \* the index sequences a thread may claim
    Nobody,        \* no thread holds the Condition
    AttemptLimit,  \* bound: attempts created over a behaviour
    CallLimit      \* bound: calls made over a behaviour

ASSUME IndexesAssumption ==
    /\ IsFiniteSet(Indexes)
    /\ Completed0 \subseteq Indexes
    /\ Batches \subseteq Seq(Indexes)
ASSUME NobodyAssumption == Nobody \notin Threads
ASSUME LimitsAssumption == AttemptLimit \in Nat /\ CallLimit \in Nat

VARIABLES
    completed,  \* indexes covered
    inflight,   \* index -> its running attempt, or None
    available,  \* index -> the attempt that retains its value, or None
    active,     \* _active_owners
    error,      \* the sticky error, or None
    closed,
    att,        \* attempt -> its record
    created,    \* attempts created so far
    monitor,    \* the thread inside claim_batch, or Nobody
    parked,     \* threads inside Condition.wait
    pc,         \* thread -> the call it is in
    ask,        \* thread -> indexes of its batch still to be claimed
    require,    \* thread -> whether it needs values
    leases,     \* thread -> the leases of its batch
    at,         \* thread -> the lease it waits for
    outcome,    \* thread -> how its last call ended
    calls

attempts == <<att, created>>
coord == <<completed, inflight, available, active, error, closed>>
batch == <<ask, require, leases, at>>
vars == <<completed, inflight, available, active, error, closed, att, created,
          monitor, parked, pc, ask, require, leases, at, outcome, calls>>

Attempts == 1 .. AttemptLimit
None == 0
Aborted == -1   \* CoverageAbortedError; any other error is named by its attempt

Attempt == [index : Indexes, status : {"running", "completed", "failed"},
            value : BOOLEAN, waiters : Nat, cause : Attempts \cup {None, Aborted}]

NewAttempt(i) ==
    [index |-> i, status |-> "running", value |-> FALSE, waiters |-> 0, cause |-> None]

\* attempt = None: the lease of an index that was covered and needs no value.
\* open: an owned lease its thread has neither completed nor failed.
\* local: the value is kept in the lease itself.
Lease == [index : Indexes, attempt : Attempts \cup {None}, open : BOOLEAN,
          local : BOOLEAN]

Init ==
    /\ completed = Completed0
    /\ inflight = [i \in Indexes |-> None]
    /\ available = [i \in Indexes |-> None]
    /\ active = 0
    /\ error = None
    /\ closed = FALSE
    /\ att = <<>>
    /\ created = 0
    /\ monitor = Nobody
    /\ parked = {}
    /\ pc = [t \in Threads |-> "idle"]
    /\ ask = [t \in Threads |-> <<>>]
    /\ require = [t \in Threads |-> FALSE]
    /\ leases = [t \in Threads |-> <<>>]
    /\ at = [t \in Threads |-> 1]
    /\ outcome = [t \in Threads |-> [kind |-> "none", cause |-> None]]
    /\ calls = 0

-----------------------------------------------------------------------------
Call(t) == pc[t] = "idle" /\ monitor = Nobody /\ calls < CallLimit /\ calls' = calls + 1

End(t, kind, cause) ==
    /\ pc' = [pc EXCEPT ![t] = "idle"]
    /\ outcome' = [outcome EXCEPT ![t] = [kind |-> kind, cause |-> cause]]

NotifyOne ==
    IF parked = {} THEN UNCHANGED parked ELSE \E t \in parked : parked' = parked \ {t}

NotifyAll == parked' = {}

Park(t) == parked' = parked \cup {t}

\* claim and claim_batch: refused after an error or a close.
ClaimBatch(t) ==
    /\ Call(t)
    /\ IF error # None \/ closed
       THEN /\ End(t, "refused", error)
            /\ UNCHANGED <<monitor, batch>>
       ELSE \E indexes \in Batches, value \in BOOLEAN :
            /\ monitor' = t
            /\ pc' = [pc EXCEPT ![t] = "claim"]
            /\ ask' = [ask EXCEPT ![t] = indexes]
            /\ require' = [require EXCEPT ![t] = value]
            /\ leases' = [leases EXCEPT ![t] = <<>>]
            /\ at' = [at EXCEPT ![t] = 1]
            /\ UNCHANGED outcome
    /\ UNCHANGED <<coord, attempts, parked>>

Claiming(t) == pc[t] = "claim" /\ ask[t] # <<>>

\* The next claim of the batch returns a lease on attempt a.
Take(t, a, owner) ==
    /\ leases' = [leases EXCEPT ![t] =
                    Append(@, [index |-> Head(ask[t]), attempt |-> a, open |-> owner,
                               local |-> FALSE])]
    /\ ask' = [ask EXCEPT ![t] = Tail(@)]
    /\ UNCHANGED <<completed, error, closed, monitor, parked, pc, require, at, outcome, calls>>

AddValueWaiter(a) == att' = [att EXCEPT ![a].waiters = @ + 1]

JoinInflight(t) ==
    /\ Claiming(t)
    /\ LET a == inflight[Head(ask[t])] IN
        /\ a # None
        /\ IF require[t] THEN AddValueWaiter(a) ELSE UNCHANGED att
        /\ Take(t, a, FALSE)
    /\ UNCHANGED <<inflight, available, active, created>>

SkipCovered(t) ==
    /\ Claiming(t)
    /\ inflight[Head(ask[t])] = None
    /\ Head(ask[t]) \in completed /\ ~require[t]
    /\ Take(t, None, FALSE)
    /\ UNCHANGED <<inflight, available, active, attempts>>

JoinAvailableUncounted(t) ==
    /\ Claiming(t)
    /\ inflight[Head(ask[t])] = None
    /\ Head(ask[t]) \in completed /\ require[t]
    /\ available[Head(ask[t])] # None
    /\ Take(t, available[Head(ask[t])], FALSE)
    /\ UNCHANGED <<inflight, available, active, attempts>>

JoinAvailable(t) ==
    /\ Claiming(t)
    /\ inflight[Head(ask[t])] = None
    /\ Head(ask[t]) \in completed /\ require[t]
    /\ LET a == available[Head(ask[t])] IN
        /\ a # None
        /\ AddValueWaiter(a)
        /\ Take(t, a, FALSE)
    /\ UNCHANGED <<inflight, available, active, created>>

Own(t) ==
    /\ Claiming(t)
    /\ LET i == Head(ask[t]) IN
        /\ inflight[i] = None
        /\ i \in completed => require[t] /\ available[i] = None
        /\ created < AttemptLimit
        /\ created' = created + 1
        /\ att' = Append(att, NewAttempt(i))
        /\ inflight' = [inflight EXCEPT ![i] = created']
        /\ active' = active + 1
        /\ Take(t, created', TRUE)
    /\ UNCHANGED available

Claimed(t) ==
    /\ pc[t] = "claim"
    /\ ask[t] = <<>>
    /\ monitor' = Nobody
    /\ pc' = [pc EXCEPT ![t] = "hold"]
    /\ UNCHANGED <<coord, attempts, parked, batch, outcome, calls>>

-----------------------------------------------------------------------------
(* Owners.  The work between claim and complete runs outside the monitor.  *)

Owned(t) == {k \in 1 .. Len(leases[t]) : leases[t][k].open}

\* A lease that does not notice an abort.
StillOwnerUnchecked(l) == l.open

\* _owned_attempt_locked: the attempt is still running and still the one in
\* flight for its index.
StillOwner(l) == att[l.attempt].status = "running" /\ inflight[l.index] = l.attempt

\* The value of an attempt is kept for those that wait for it.
Finished(a) == [a EXCEPT !.status = "completed", !.value = a.waiters # 0]

CompleteAfterError(l) ==
    /\ inflight' = [inflight EXCEPT ![l.index] = None]
    /\ active' = active - 1
    /\ completed' = completed \cup {l.index}
    /\ att' = [att EXCEPT ![l.attempt] = Finished(@)]
    /\ available' = IF att[l.attempt].waiters # 0
                    THEN [available EXCEPT ![l.index] = l.attempt]
                    ELSE available
    /\ NotifyAll
    /\ UNCHANGED <<error, closed, created>>

\* The effect of _complete on the coordinator.
CompleteAttempt(l) ==
    /\ inflight' = [inflight EXCEPT ![l.index] = None]
    /\ active' = active - 1
    /\ IF error = None
       THEN /\ completed' = completed \cup {l.index}
            /\ att' = [att EXCEPT ![l.attempt] = Finished(@)]
            /\ available' = IF att[l.attempt].waiters # 0
                            THEN [available EXCEPT ![l.index] = l.attempt]
                            ELSE available
       ELSE /\ att' = [att EXCEPT ![l.attempt].status = "completed"]
            /\ UNCHANGED <<completed, available>>
    /\ NotifyAll
    /\ UNCHANGED <<error, closed, created>>

Complete(t) ==
    /\ pc[t] = "hold" /\ monitor = Nobody
    /\ \E k \in Owned(t) :
        /\ StillOwner(leases[t][k])
        /\ CompleteAttempt(leases[t][k])
        /\ leases' = [leases EXCEPT ![t][k] = [@ EXCEPT !.open = FALSE, !.local = require[t]]]
    /\ UNCHANGED <<monitor, pc, ask, require, at, outcome, calls>>

Failed(a, cause) == [a EXCEPT !.status = "failed", !.cause = cause]

FailAttemptUncounted(l) ==
    /\ att' = [att EXCEPT ![l.attempt] = Failed(@, l.attempt)]
    /\ inflight' = [inflight EXCEPT ![l.index] = None]
    /\ error' = IF error = None THEN l.attempt ELSE error
    /\ NotifyAll
    /\ UNCHANGED <<completed, available, active, closed, created>>

\* The effect of _fail on the coordinator.
FailAttempt(l) ==
    /\ att' = [att EXCEPT ![l.attempt] = Failed(@, l.attempt)]
    /\ inflight' = [inflight EXCEPT ![l.index] = None]
    /\ active' = active - 1
    /\ error' = IF error = None THEN l.attempt ELSE error
    /\ NotifyAll
    /\ UNCHANGED <<completed, available, closed, created>>

\* The work of one index raised; its thread goes on to its other leases.
Fail(t) ==
    /\ pc[t] = "hold" /\ monitor = Nobody
    /\ \E k \in Owned(t) :
        /\ StillOwner(leases[t][k])
        /\ FailAttempt(leases[t][k])
        /\ leases' = [leases EXCEPT ![t][k].open = FALSE]
    /\ UNCHANGED <<monitor, pc, ask, require, at, outcome, calls>>

\* Settling a lease an abort has invalidated raises "no longer active".
LoseOwnership(t) ==
    /\ pc[t] = "hold" /\ monitor = Nobody
    /\ \E k \in Owned(t) : ~StillOwner(leases[t][k])
    /\ leases' = [leases EXCEPT ![t] = <<>>]
    /\ End(t, "inactive", error)
    /\ UNCHANGED <<coord, attempts, monitor, parked, ask, require, at, calls>>

-----------------------------------------------------------------------------
(* CoverageLease.wait, lease by lease, once the thread owns nothing.       *)

Waiting(t) ==
    /\ pc[t] = "hold" /\ monitor = Nobody /\ t \notin parked
    /\ Owned(t) = {} /\ at[t] <= Len(leases[t])

Current(t) == leases[t][at[t]]

MustWait(l) == l.attempt # None /\ att[l.attempt].status = "running" /\ error = None

WaitParks(t) ==
    /\ Waiting(t)
    /\ MustWait(Current(t))
    /\ Park(t)
    /\ UNCHANGED <<coord, attempts, monitor, pc, batch, outcome, calls>>

\* No value wanted, or the owner's own value.
WaitReturns(t) ==
    /\ Waiting(t)
    /\ LET l == Current(t) IN
        /\ l.attempt # None => att[l.attempt].status = "completed"
        /\ require[t] => l.local
    /\ at' = [at EXCEPT ![t] = @ + 1]
    /\ UNCHANGED <<coord, attempts, monitor, parked, pc, ask, require, leases, outcome, calls>>

WaitTakesLastValue(t) ==
    /\ Waiting(t)
    /\ LET l == Current(t)
           a == l.attempt
       IN
        /\ a # None
        /\ att[a].status = "completed" /\ require[t] /\ ~l.local /\ att[a].value
        /\ att' = [att EXCEPT ![a].waiters = @ - 1, ![a].value = FALSE]
        /\ available' = IF available[l.index] = a
                        THEN [available EXCEPT ![l.index] = None]
                        ELSE available
        /\ leases' = [leases EXCEPT ![t][at[t]].local = TRUE]
    /\ at' = [at EXCEPT ![t] = @ + 1]
    /\ UNCHANGED <<completed, inflight, active, error, closed, created, monitor, parked, pc,
                   ask, require, outcome, calls>>

\* The last value waiter of an attempt releases the value.
WaitTakesValue(t) ==
    /\ Waiting(t)
    /\ LET l == Current(t)
           a == l.attempt
           left == att[a].waiters - 1
       IN
        /\ a # None
        /\ att[a].status = "completed" /\ require[t] /\ ~l.local /\ att[a].value
        /\ att' = [att EXCEPT ![a] = [@ EXCEPT !.waiters = left, !.value = left # 0]]
        /\ available' = IF left = 0 /\ available[l.index] = a
                        THEN [available EXCEPT ![l.index] = None]
                        ELSE available
        /\ leases' = [leases EXCEPT ![t][at[t]].local = TRUE]
    /\ at' = [at EXCEPT ![t] = @ + 1]
    /\ UNCHANGED <<completed, inflight, active, error, closed, created, monitor, parked, pc,
                   ask, require, outcome, calls>>

\* A failed attempt raises its own error, a running one the sticky error, and
\* a completed one without a value raises "no longer available".
WaitRaises(t) ==
    /\ Waiting(t)
    /\ LET l == Current(t)
           a == att[l.attempt]
       IN
        /\ l.attempt # None
        /\ ~MustWait(l)
        /\ \/ a.status = "failed" /\ End(t, "raised", a.cause)
           \/ a.status = "running" /\ End(t, "raised", error)
           \/ /\ a.status = "completed" /\ require[t] /\ ~l.local /\ ~a.value
              /\ End(t, "unavailable", None)
    /\ leases' = [leases EXCEPT ![t] = <<>>]
    /\ UNCHANGED <<coord, attempts, monitor, parked, ask, require, at, calls>>

BatchReturns(t) ==
    /\ pc[t] = "hold"
    /\ Owned(t) = {} /\ at[t] > Len(leases[t])
    /\ leases' = [leases EXCEPT ![t] = <<>>]
    /\ End(t, "returned", None)
    /\ UNCHANGED <<coord, attempts, monitor, parked, ask, require, at, calls>>

-----------------------------------------------------------------------------
(* wait_complete, close and abort.                                         *)

WaitComplete(t) ==
    /\ Call(t)
    /\ pc' = [pc EXCEPT ![t] = "waitall"]
    /\ UNCHANGED <<coord, attempts, monitor, parked, batch, outcome>>

WaitCompleteStep(t) ==
    /\ pc[t] = "waitall" /\ monitor = Nobody /\ t \notin parked
    /\ \/ /\ completed = Indexes
          /\ End(t, IF error = None THEN "returned" ELSE "raised", error)
          /\ UNCHANGED parked
       \/ /\ completed # Indexes /\ error # None
          /\ End(t, "raised", error)
          /\ UNCHANGED parked
       \/ /\ completed # Indexes /\ error = None /\ closed /\ active = 0
          /\ End(t, "incomplete", None)
          /\ UNCHANGED parked
       \/ /\ completed # Indexes /\ error = None /\ ~(closed /\ active = 0)
          /\ Park(t)
          /\ UNCHANGED <<pc, outcome>>
    /\ UNCHANGED <<coord, attempts, monitor, batch, calls>>

\* close sets the flag and waits in one hold of the monitor; CloseStep is the
\* loop after a wake-up.
Close(t) ==
    /\ Call(t)
    /\ closed' = TRUE
    /\ IF active # 0
       THEN /\ parked' = {t}
            /\ pc' = [pc EXCEPT ![t] = "close"]
            /\ UNCHANGED outcome
       ELSE /\ NotifyAll
            /\ End(t, IF error = None THEN "returned" ELSE "raised", error)
    /\ UNCHANGED <<completed, inflight, available, active, error, attempts, monitor, batch>>

CloseStep(t) ==
    /\ pc[t] = "close" /\ monitor = Nobody /\ t \notin parked
    /\ IF active # 0
       THEN Park(t) /\ UNCHANGED <<pc, outcome>>
       ELSE /\ End(t, IF error = None THEN "returned" ELSE "raised", error)
            /\ UNCHANGED parked
    /\ UNCHANGED <<coord, attempts, monitor, batch, calls>>

Abandoned(a, cause) == [a EXCEPT !.status = "failed", !.value = FALSE, !.cause = cause]

\* The effect of abort on the coordinator.
AbortAll(cause) ==
    /\ error' = IF error = None THEN cause ELSE error
    /\ closed' = TRUE
    /\ att' = [a \in DOMAIN att |->
                 IF inflight[att[a].index] = a
                 THEN Abandoned(att[a], error')
                 ELSE att[a]]
    /\ inflight' = [i \in Indexes |-> None]
    /\ active' = 0
    /\ NotifyAll
    /\ UNCHANGED <<completed, available, created>>

Abort(t) ==
    /\ Call(t)
    /\ AbortAll(Aborted)
    /\ End(t, "returned", None)
    /\ UNCHANGED <<monitor, batch>>

-----------------------------------------------------------------------------
\* The steps of a call that was made; Complete and Fail end an owner's work.
Step(t) ==
    \/ JoinInflight(t) \/ SkipCovered(t) \/ JoinAvailable(t) \/ Own(t) \/ Claimed(t)
    \/ Complete(t) \/ Fail(t) \/ LoseOwnership(t)
    \/ WaitParks(t) \/ WaitReturns(t) \/ WaitTakesValue(t) \/ WaitRaises(t)
    \/ BatchReturns(t) \/ WaitCompleteStep(t) \/ CloseStep(t)

Next ==
    \E t \in Threads :
        ClaimBatch(t) \/ WaitComplete(t) \/ Close(t) \/ Abort(t) \/ Step(t)

Spec == Init /\ [][Next]_vars

\* Threads run and the work of an owner ends; nobody has to make a call.
FairSpec == Spec /\ \A t \in Threads : WF_vars(Step(t))

-----------------------------------------------------------------------------
\* Every variable has its type.
TypeOK ==
    /\ completed \in SUBSET Indexes
    /\ inflight \in [Indexes -> Attempts \cup {None}]
    /\ available \in [Indexes -> Attempts \cup {None}]
    /\ active \in Nat
    /\ error \in Attempts \cup {None, Aborted}
    /\ closed \in BOOLEAN
    /\ created \in 0 .. AttemptLimit
    /\ att \in [1 .. created -> Attempt]
    /\ monitor \in Threads \cup {Nobody}
    /\ parked \in SUBSET Threads
    /\ pc \in [Threads -> {"idle", "claim", "hold", "waitall", "close"}]
    /\ ask \in [Threads -> Seq(Indexes)]
    /\ require \in [Threads -> BOOLEAN]
    /\ leases \in [Threads -> Seq(Lease)]
    /\ at \in [Threads -> Nat]
    /\ outcome \in [Threads ->
           [kind : {"none", "returned", "refused", "raised", "inactive", "unavailable",
                    "incomplete"},
            cause : Attempts \cup {None, Aborted}]]
    /\ calls \in 0 .. CallLimit

\* A lease is named by its thread and its place in the batch.
Taken == UNION {{t} \X DOMAIN leases[t] : t \in Threads}
LeaseOf(p) == leases[p[1]][p[2]]

OpenLeases(a) == {p \in Taken : LeaseOf(p).open /\ LeaseOf(p).attempt = a}

InFlight == {i \in Indexes : inflight[i] # None}

\* No index is worked on twice at once and close() counts every worker: the
\* attempts in flight are the running ones, one per index, each with exactly
\* one lease that may still complete it, and active_owners is their number.
OwnersAreCounted ==
    /\ active = Cardinality(InFlight)
    /\ \A a \in 1 .. created :
        att[a].status = "running" <=> inflight[att[a].index] = a
    /\ \A i \in Indexes : inflight[i] # None =>
        /\ att[inflight[i]].index = i
        /\ Cardinality(OpenLeases(inflight[i])) = 1

\* The leases that still have to take a value from attempt a.
Owed(a) ==
    {p \in Taken : /\ require[p[1]] /\ LeaseOf(p).attempt = a
                   /\ ~LeaseOf(p).open /\ ~LeaseOf(p).local}

\* While nothing has failed, value_waiters is the number of leases that still
\* want the value, and a value is in memory exactly as long as one does.
ValuesAreOwed ==
    error = None => \A a \in 1 .. created :
        /\ att[a].waiters = Cardinality(Owed(a))
        /\ att[a].status = "completed" =>
            /\ att[a].value <=> att[a].waiters # 0
            /\ att[a].value <=> available[att[a].index] = a

\* One worker for an index, and its value in memory for exactly those that wait
\* for it, however claims, waits, failures, close and abort interleave.
AttemptsAreExact == OwnersAreCounted /\ ValuesAreOwed

\* While nothing has failed, a caller that asked for a value gets it, however
\* its wait interleaves with the owner, other waiters and recomputations.
NoLostValue == \A t \in Threads : outcome[t].kind = "unavailable" => error # None

\* test_coverage.py:82, test_failure_is_global_and_sticky: after a failure every
\* waiter raises that failure (not that its value "is no longer available").
WaitersSeeTheFailure == \A t \in Threads : outcome[t].kind # "unavailable"

\* The first error stays, and nothing counts as covered after it.
FailureIsSticky == [][error # None => error' = error /\ completed' = completed]_vars

\* Every call ends: claims, waits for values, close(), and a wait_complete()
\* that has coverage or an error to report.  A lost wake-up would break it.
EveryCallEnds ==
    \A t \in Threads :
        (\/ pc[t] \in {"claim", "hold", "close"}
         \/ pc[t] = "waitall" /\ (completed = Indexes \/ error # None)) ~> pc[t] = "idle"
=============================================================================
