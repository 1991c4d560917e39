----------------------------- MODULE LiveFilter -----------------------------
(***************************************************************************)
(* FilterRule.open(): a background thread judges every sample of a         *)
(* universe while the returned view is read already.  Runs are chained:    *)
(* run r + 1 is opened over the view of run r and judges the same universe,*)
(* whose view then intersects the selections of both.  Threads read views  *)
(* and close runs and views.                                               *)
(***************************************************************************)
EXTENDS Selections

CONSTANTS
    Threads,     \* the threads that read and close
    MaxCalls,    \* bound: calls of a thread
    ChunkSize,   \* bound: decisions in a chunk
    FilterJobs   \* the chains of runs to check

\* A chain: the sample ids of the universe, the selections it starts with, the
\* runs, the ids of a universe that the last view is rebased to, or None, and the
\* calls its threads make.  A run has a ready generation or not, the labels its
\* rule may give to each sample, the labels that are selected, or None for all,
\* and a rule that may raise.  Runs with a ready generation come first: what open()
\* returns for one over a live view is no live view, and none is modelled.
JobIsChain(j) ==
    /\ Len(j.runs) \in Nat /\ DOMAIN j.runs = 1 .. Len(j.runs)
    /\ j.ids \in Seq(ToSet(j.ids))
    /\ j.upstream \in Seq([1 .. Len(j.ids) -> States])
    /\ j.target # None =>
        j.target \in Seq(ToSet(j.ids)) /\ Lineage(j.ids, j.target, FALSE) # None
    /\ \A r \in DOMAIN j.runs :
        /\ Len(j.runs[r].rule) = Len(j.ids) /\ {} \notin ToSet(j.runs[r].rule)
        /\ j.runs[r].ready => \A k \in DOMAIN j.ids : Cardinality(j.runs[r].rule[k]) = 1
        /\ j.runs[r].ready => \A q \in 1 .. r - 1 : j.runs[q].ready

ASSUME FilterJobsAssumption == \A j \in FilterJobs : JobIsChain(j)
ASSUME NoneAssumption == None \notin Nat

VARIABLES
    chain,      \* the chain of runs
    decided,    \* run -> the label of each sample, or None
    complete,   \* runs whose selection is complete
    failed,     \* runs with an error
    builder,    \* run -> "scan", "applied", "published", "finished", "raised" or "done"
    leased,      \* runs whose generation is leased
    source,     \* the dataset is open
    closed,     \* runs and views that are closed or being closed
    call,       \* thread -> the read it makes, or None
    parked,     \* thread -> the run whose condition it waits on, or None
    stack,      \* thread -> the calls of close() it is in
    begun,      \* thread -> calls made
    answers     \* what reads returned

lvars == <<chain, decided, complete, failed, builder, leased, source, closed, call,
           parked, stack, begun, answers>>
running == <<decided, complete, failed, builder>>
closing == <<leased, source, closed, stack>>
reading == <<call, parked, begun, answers>>

Runs == DOMAIN chain.runs
Positions == 1 .. Len(chain.ids)
LastRun == Len(chain.runs)

\* Views are numbered like their runs; one more is the last one rebased.
Rebased == LastRun + 1
Views == Runs \cup (IF chain.target = None THEN {} ELSE {Rebased})

LInit ==
    /\ chain \in FilterJobs
    /\ decided = [r \in Runs |-> [k \in Positions |->
                    IF chain.runs[r].ready THEN CHOOSE l \in chain.runs[r].rule[k] : TRUE
                    ELSE None]]
    /\ complete = {r \in Runs : chain.runs[r].ready}
    /\ failed = {}
    /\ builder = [r \in Runs |-> IF chain.runs[r].ready THEN "done" ELSE "scan"]
    /\ leased = {r \in Runs : chain.runs[r].ready}
    /\ source = TRUE
    /\ closed = {}
    /\ call = [t \in Threads |-> None]
    /\ parked = [t \in Threads |-> None]
    /\ stack = [t \in Threads |-> <<>>]
    /\ begun = [t \in Threads |-> 0]
    /\ answers = {}

-----------------------------------------------------------------------------
(* The background thread of a run.                                         *)

\* notify_all of the selection's condition
Woken(r) == [t \in Threads |-> IF parked[t] = r THEN None ELSE parked[t]]

\* publish: a decision stays what it is.
Agrees(r, chunk) == \A k \in DOMAIN chunk : decided[r][k] \in {None, chunk[k]}

Publish(r, chunk) ==
    /\ decided' = [decided EXCEPT ![r] = [k \in Positions |->
                        IF k \in DOMAIN chunk THEN chunk[k] ELSE @[k]]]
    /\ parked' = Woken(r)

\* Decisions that the rule may make for the samples at these positions.
ChunksOf(r, positions) ==
    {c \in [positions -> UNION {chain.runs[r].rule[k] : k \in positions}] :
        \A k \in positions : c[k] \in chain.runs[r].rule[k]}

\* _fail
Fail(r) ==
    /\ failed' = failed \cup {r}
    /\ parked' = Woken(r)
    /\ builder' = [builder EXCEPT ![r] = "done"]
    /\ leased' = leased \ {r}
    /\ UNCHANGED <<chain, decided, complete, source, closed, stack, call, begun, answers>>

\* publish meets a decision that changed: those before it in the chunk are made, and
\* nobody is told of them.
PublishConflicting(r, chunk) ==
    /\ \E before \in SUBSET {k \in DOMAIN chunk : decided[r][k] = None} :
        decided' = [decided EXCEPT ![r] = [k \in Positions |->
                        IF k \in before THEN chunk[k] ELSE @[k]]]
    /\ builder' = [builder EXCEPT ![r] = "raised"]
    /\ UNCHANGED <<chain, complete, failed, closing, reading>>

\* _observe_chunk: the scan, or a fragment that it replays, has decided on some
\* samples.
Observe(r) ==
    /\ builder[r] = "scan" /\ source
    /\ \E positions \in (SUBSET Positions) \ {{}} :
        /\ Cardinality(positions) <= ChunkSize
        /\ \E chunk \in ChunksOf(r, positions) :
            IF Agrees(r, chunk)
            THEN /\ Publish(r, chunk)
                 /\ UNCHANGED <<chain, complete, failed, builder, closing, call, begun, answers>>
            ELSE PublishConflicting(r, chunk)

\* apply_filter raises: the rule does, or the dataset was closed.
ApplyRaises(r) ==
    /\ builder[r] = "scan" /\ (chain.runs[r].breaks \/ ~source)
    /\ Fail(r)

\* apply_filter returns a leased generation, of its own or of another process.
ApplyReturns(r) ==
    /\ builder[r] = "scan"
    /\ builder' = [builder EXCEPT ![r] = "applied"]
    /\ leased' = leased \cup {r}
    /\ UNCHANGED <<chain, decided, complete, failed, source, closed, stack, reading>>

\* _publish_partitions
PublishAll(r) ==
    /\ builder[r] = "applied"
    /\ \E chunk \in ChunksOf(r, Positions) :
        IF Agrees(r, chunk)
        THEN /\ Publish(r, chunk)
             /\ builder' = [builder EXCEPT ![r] = "published"]
             /\ UNCHANGED <<chain, complete, failed, closing, call, begun, answers>>
        ELSE PublishConflicting(r, chunk)

\* What publish raised ends the thread.
EndRaised(r) == builder[r] = "raised" /\ Fail(r)

\* Mutant: the readers are not told.
FinishQuietly(r) ==
    /\ builder[r] = "published"
    /\ complete' = complete \cup {r}
    /\ builder' = [builder EXCEPT ![r] = "finished"]
    /\ UNCHANGED <<chain, decided, failed, closing, reading>>

\* finish
Finish(r) ==
    /\ builder[r] = "published"
    /\ IF None \in ToSet(decided[r]) THEN Fail(r)
       ELSE /\ complete' = complete \cup {r}
            /\ parked' = Woken(r)
            /\ builder' = [builder EXCEPT ![r] = "finished"]
            /\ UNCHANGED <<chain, decided, failed, closing, call, begun, answers>>

\* The generation that was built is given back; the thread ends.
ReturnLease(r) ==
    /\ builder[r] = "finished"
    /\ builder' = [builder EXCEPT ![r] = "done"]
    /\ leased' = leased \ {r}
    /\ UNCHANGED <<chain, decided, complete, failed, source, closed, stack, reading>>

Judge(r) ==
    \/ Observe(r) \/ ApplyRaises(r) \/ ApplyReturns(r) \/ PublishAll(r) \/ EndRaised(r)
    \/ Finish(r) \/ ReturnLease(r)

-----------------------------------------------------------------------------
(* Reading a view.                                                         *)

Upstream == Len(chain.upstream)

\* The selections of a view, in order: those of the source, then the runs.
SelectionsOf(v) == 1 .. Upstream + (IF v = Rebased THEN LastRun ELSE v)
RunOf(s) == s - Upstream
IsLive(s) == s > Upstream /\ ~chain.runs[RunOf(s)].ready

IdsOf(v) == IF v = Rebased THEN chain.target ELSE chain.ids

\* The position in the universe of the runs of position u of a view.
SourcePosition(v, u) ==
    IF v = Rebased THEN Lineage(chain.ids, chain.target, FALSE)[u + 1] ELSE u + 1

\* contains
SelectionState(v, s, u) ==
    IF s <= Upstream THEN chain.upstream[s][SourcePosition(v, u)]
    ELSE StateOf(decided[RunOf(s)][SourcePosition(v, u)], chain.runs[RunOf(s)].labels)

OutOfRange == -1

Begin(t, op, v, arg) ==
    /\ call[t] = None /\ stack[t] = <<>> /\ begun[t] < MaxCalls
    /\ begun' = [begun EXCEPT ![t] = @ + 1]
    /\ call' = [call EXCEPT ![t] =
                    [op |-> op, view |-> v, arg |-> arg, u |-> IF op = "has" THEN arg ELSE 0,
                     s |-> 1, found |-> 0, unknown |-> None,
                     phase |-> IF op = "len" THEN "complete" ELSE "look"]]
    /\ UNCHANGED <<chain, running, closing, parked, answers>>

\* view[k], len(view) and view.contains(u)
Read(t) ==
    \E v \in Views :
        \/ "at" \in chain.ops /\ \E k \in 0 .. Len(IdsOf(v)) - 1 : Begin(t, "at", v, k)
        \/ "len" \in chain.ops /\ Begin(t, "len", v, 0)
        \/ "has" \in chain.ops /\ \E u \in 0 .. Len(IdsOf(v)) - 1 : Begin(t, "has", v, u)

In(t, phase) == call[t] # None /\ call[t].phase = phase /\ parked[t] = None

Selected(t) == SelectionState(call[t].view, call[t].s, call[t].u)
MoreSelections(t) == call[t].s \in SelectionsOf(call[t].view)

Goes(t, changed) ==
    /\ call' = [call EXCEPT ![t] = changed]
    /\ UNCHANGED <<chain, running, closing, parked, begun, answers>>

Answer(t, value) ==
    /\ call' = [call EXCEPT ![t] = None]
    /\ answers' = answers \cup {[op |-> call[t].op, view |-> call[t].view, arg |-> call[t].arg,
                                 value |-> value]}
    /\ UNCHANGED <<chain, running, closing, parked, begun>>

Raise(t) ==
    /\ call' = [call EXCEPT ![t] = None]
    /\ UNCHANGED <<chain, running, closing, parked, begun, answers>>

\* The state of the sample at u is known: the next one, or the result.
Settle(t, state) ==
    LET c == call[t]
        found == c.found + (IF state = "yes" THEN 1 ELSE 0)
    IN IF c.op = "at" /\ state = "yes" /\ c.found = c.arg THEN Answer(t, c.u)
       ELSE IF c.u + 1 = Len(IdsOf(c.view))
       THEN Answer(t, IF c.op = "len" THEN found ELSE OutOfRange)
       ELSE Goes(t, [c EXCEPT !.u = @ + 1, !.s = 1, !.found = found, !.unknown = None,
                              !.phase = "look"])

\* The error of a run is raised before any decision of it is told.
Broken(t) == MoreSelections(t) /\ call[t].s > Upstream /\ RunOf(call[t].s) \in failed

\* One selection is asked whether it contains the sample.
Look(t) ==
    /\ In(t, "look") /\ MoreSelections(t)
    /\ LET c == call[t] IN
        IF Broken(t) THEN Raise(t)
        ELSE IF Selected(t) = "no" THEN (IF c.op = "has" THEN Answer(t, 0) ELSE Settle(t, "no"))
        ELSE Goes(t, [c EXCEPT !.s = @ + 1,
                               !.unknown = IF Selected(t) = "unknown" /\ @ = None THEN c.s ELSE @])

\* Mutant: a sample that is not decided yet is passed over.
LookedPast(t) ==
    /\ In(t, "look") /\ ~MoreSelections(t)
    /\ LET c == call[t] IN
        IF c.op = "has" THEN (IF c.unknown = None THEN Answer(t, 1) ELSE Raise(t))
        ELSE Settle(t, IF c.unknown = None THEN "yes" ELSE "no")

\* All were asked.  The live view waits for the first that does not know and asks
\* all of them again; a rebased one asks them one by one and waits for each;
\* len and contains do not wait.
Looked(t) ==
    /\ In(t, "look") /\ ~MoreSelections(t)
    /\ LET c == call[t] IN
        IF c.op = "has" THEN (IF c.unknown = None THEN Answer(t, 1) ELSE Raise(t))
        ELSE IF c.unknown = None THEN Settle(t, "yes")
        ELSE IF c.op = "len" THEN Raise(t)
        ELSE IF c.view = Rebased THEN Goes(t, [c EXCEPT !.s = 1, !.phase = "again"])
        ELSE IF ~IsLive(c.unknown) THEN Raise(t)
        ELSE Goes(t, [c EXCEPT !.s = c.unknown, !.phase = "wait"])

\* SelectionView.wait_decision
Again(t) ==
    /\ In(t, "again")
    /\ LET c == call[t] IN
        IF ~MoreSelections(t) THEN Settle(t, "yes")
        ELSE IF Broken(t) THEN Raise(t)
        ELSE IF Selected(t) = "no" THEN Settle(t, "no")
        ELSE IF Selected(t) = "yes" THEN Goes(t, [c EXCEPT !.s = @ + 1])
        ELSE IF ~IsLive(c.s) THEN Raise(t)
        ELSE Goes(t, [c EXCEPT !.phase = "wait"])

Park(t) ==
    /\ parked' = [parked EXCEPT ![t] = RunOf(call[t].s)]
    /\ UNCHANGED <<chain, running, closing, call, begun, answers>>

\* _LiveSelection.wait_decision
WaitDecision(t) ==
    /\ In(t, "wait")
    /\ LET c == call[t] IN
        IF Broken(t) THEN Raise(t)
        ELSE IF Selected(t) = "unknown" THEN
            (IF RunOf(c.s) \in complete THEN Raise(t) ELSE Park(t))
        ELSE IF c.view = Rebased THEN
            (IF Selected(t) = "no" THEN Settle(t, "no")
             ELSE Goes(t, [c EXCEPT !.s = @ + 1, !.phase = "again"]))
        ELSE Goes(t, [c EXCEPT !.s = 1, !.unknown = None, !.phase = "look"])

\* wait_complete of every selection in turn
WaitComplete(t) ==
    /\ In(t, "complete")
    /\ LET c == call[t] IN
        IF ~MoreSelections(t) THEN
            (IF IdsOf(c.view) = <<>> THEN Answer(t, 0)
             ELSE Goes(t, [c EXCEPT !.s = 1, !.phase = "look"]))
        ELSE IF Broken(t) THEN Raise(t)
        ELSE IF ~IsLive(c.s) \/ RunOf(c.s) \in complete THEN Goes(t, [c EXCEPT !.s = @ + 1])
        ELSE Park(t)

ReadStep(t) == Look(t) \/ Looked(t) \/ Again(t) \/ WaitDecision(t) \/ WaitComplete(t)

-----------------------------------------------------------------------------
(* Closing runs and views, which call each other.  An error is kept until  *)
(* the end and stops nothing.                                              *)

\* A frame of the call stack; left counts the owned selections still to be closed.
Frame(kind, id) == [kind |-> kind, id |-> id, at |-> "claim", left |-> 0]

\* The close() of a run or a view is called, here by a user.
CallClose(t, kind, id) ==
    /\ call[t] = None /\ stack[t] = <<>> /\ begun[t] < MaxCalls
    /\ begun' = [begun EXCEPT ![t] = @ + 1]
    /\ stack' = [stack EXCEPT ![t] = <<Frame(kind, id)>>]
    /\ UNCHANGED <<chain, running, leased, source, closed, call, parked, answers>>

CloseSomething(t) ==
    \/ \E r \in Runs : ("run" \in chain.ops \/ ("last" \in chain.ops /\ r = LastRun))
                        /\ CallClose(t, "run", r)
    \/ \E v \in Views : "view" \in chain.ops /\ CallClose(t, "view", v)

Top(t) == Head(stack[t])
At(t, kind, at) == stack[t] # <<>> /\ Top(t).kind = kind /\ Top(t).at = at
Key(t) == <<Top(t).kind, Top(t).id>>

\* The frame on top goes on, calls, or returns.
Moved(frame, at) == [frame EXCEPT !.at = at]
Leaving(frame, left) == [frame EXCEPT !.left = left]
Replace(t, frames) == stack' = [stack EXCEPT ![t] = frames \o Tail(@)]
Move(t, at) == Replace(t, <<Moved(Top(t), at)>>)
MoveAndCall(t, at, frame) == Replace(t, <<frame, Moved(Top(t), at)>>)
Return(t) == Replace(t, <<>>)

\* A run is claimed under its lock.
ClaimRun(t) ==
    /\ At(t, "run", "claim")
    /\ IF Key(t) \in closed THEN Return(t) /\ UNCHANGED closed
       ELSE closed' = closed \cup {Key(t)} /\ Move(t, "join")
    /\ UNCHANGED <<chain, running, leased, source, reading>>

\* Mutant: an error of the run leaves close at once.
JoinOrRaise(t) ==
    /\ At(t, "run", "join") /\ builder[Top(t).id] = "done"
    /\ IF Top(t).id \in failed THEN Return(t) ELSE Move(t, "lease")
    /\ UNCHANGED <<chain, running, leased, source, closed, reading>>

\* wait
Join(t) ==
    /\ At(t, "run", "join") /\ builder[Top(t).id] = "done"
    /\ Move(t, "lease")
    /\ UNCHANGED <<chain, running, leased, source, closed, reading>>

CloseLease(t) ==
    /\ At(t, "run", "lease")
    /\ leased' = leased \ {Top(t).id}
    /\ MoveAndCall(t, "end", Frame("view", Top(t).id))
    /\ UNCHANGED <<chain, running, source, closed, reading>>

\* A view is claimed without a lock: two threads may both find it open.
ClaimView(t) ==
    /\ At(t, "view", "claim")
    /\ IF Key(t) \in closed THEN Return(t) ELSE Move(t, "claimed")
    /\ UNCHANGED <<chain, running, leased, source, closed, reading>>

\* The universe of the view is closed; the one it is rebased to is another one.
CloseUniverse(t) ==
    /\ At(t, "view", "claimed")
    /\ closed' = closed \cup {Key(t)}
    /\ source' = (source /\ Top(t).id = Rebased)
    /\ Replace(t, <<Leaving(Moved(Top(t), "selections"),
                            IF Top(t).id = Rebased THEN 0 ELSE Top(t).id)>>)
    /\ UNCHANGED <<chain, running, leased, reading>>

\* The owned selections, the last one first; then what the view was rebased from.
CloseSelections(t) ==
    /\ At(t, "view", "selections")
    /\ IF Top(t).left > 0
       THEN Replace(t, <<Frame("run", Top(t).left), Leaving(Top(t), Top(t).left - 1)>>)
       ELSE IF Top(t).id = Rebased THEN MoveAndCall(t, "end", Frame("view", LastRun))
       ELSE Return(t)
    /\ UNCHANGED <<chain, running, leased, source, closed, reading>>

Ends(t) ==
    /\ stack[t] # <<>> /\ Top(t).at = "end"
    /\ Return(t)
    /\ UNCHANGED <<chain, running, leased, source, closed, reading>>

CloseStep(t) ==
    \/ ClaimRun(t) \/ Join(t) \/ CloseLease(t) \/ ClaimView(t) \/ CloseUniverse(t)
    \/ CloseSelections(t) \/ Ends(t)

-----------------------------------------------------------------------------
LNext ==
    \/ \E r \in Runs : Judge(r)
    \/ \E t \in Threads : Read(t) \/ ReadStep(t) \/ CloseSomething(t) \/ CloseStep(t)

LSpec == LInit /\ [][LNext]_lvars

\* The background threads and the calls go on.
LFairness ==
    /\ \A r \in 1 .. 2 : WF_lvars(r \in Runs /\ (ApplyRaises(r) \/ ApplyReturns(r) \/ PublishAll(r)
                                      \/ EndRaised(r) \/ Finish(r) \/ ReturnLease(r)))
    /\ \A t \in Threads : WF_lvars(ReadStep(t)) /\ WF_lvars(CloseStep(t))

-----------------------------------------------------------------------------
(* What must hold.                                                         *)

\* The positions that all selections of a view contain.
ChosenPositions(v) ==
    {u \in 0 .. Len(IdsOf(v)) - 1 :
        Meet({SelectionState(v, s, u) : s \in SelectionsOf(v)}) = "yes"}

\* What a read returns on a view that is complete: whether the sample is chosen,
\* how many are, or the one with as many chosen before it as were asked for.
IsFinal(a) ==
    LET chosen == ChosenPositions(a.view)
    IN CASE a.op = "has" -> a.value = (IF a.arg \in chosen THEN 1 ELSE 0)
         [] a.op = "len" -> a.value = Cardinality(chosen)
         [] a.op = "at" ->
                IF a.arg < Cardinality(chosen)
                THEN a.value \in chosen /\ Cardinality({u \in chosen : u < a.value}) = a.arg
                ELSE a.value = OutOfRange

\* Whatever was answered while runs were scanning is what the complete views answer.
AnswersHold ==
    \A a \in answers :
        (\A s \in SelectionsOf(a.view) : IsLive(s) => RunOf(s) \in complete)
            => IsFinal(a)

\* When every close() has returned, the runs that were closed and those below them
\* have ended and hold no generation, and the source is closed, whatever failed.
CloseIsThorough ==
    (\A t \in Threads : stack[t] = <<>>) =>
        \A r \in Runs : <<"run", r>> \in closed =>
            /\ ~source
            /\ \A q \in 1 .. r : <<"run", q>> \in closed /\ builder[q] = "done" /\ q \notin leased

\* No read and no close() waits for ever.
EveryReadReturns ==
    \A t \in Threads : (call[t] # None \/ stack[t] # <<>>) ~> (call[t] = None /\ stack[t] = <<>>)
=============================================================================
