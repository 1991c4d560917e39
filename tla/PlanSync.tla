----------------------------- MODULE PlanSync -----------------------------
(***************************************************************************)
(* Training with one dataloader per rank: every iteration refreshes the    *)
(* dataset, plans the batches of the rank and agrees with the other ranks  *)
(* on how many of them are taken.  Whatever the ranks exchange - lengths,  *)
(* batch counts, the gradients of a training step - is a collective of one *)
(* process group: each rank posts its call and waits until all have.  Calls*)
(* are paired by their order and nothing else.                             *)
(***************************************************************************)
EXTENDS SampleOrder, BatchPlan

CONSTANTS
    World,       \* the number of ranks
    GroupSize,   \* _DEFAULT_SHUFFLE_GROUP_SAMPLES
    PlanWindow,  \* distributed_plan_window
    MaxLength,   \* bound: samples the source ever has
    MaxEpochs,   \* bound: iterations of a rank
    MaxFailures, \* bound: errors of cost functions and refreshes
    Jobs,        \* the trainings to check
    Unset

ASSUME SyncAssumption == World \in Nat \ {0} /\ PlanWindow \in Nat \ {0}

Ranks == 0 .. World - 1

\* A training: how it is read ("loader" or "iterate", with DataLoader workers),
\* mode, drop_tail, whether the source grows, how costs are given, shuffle,
\* max_batch_samples, and the samples selected of the dataset, or Unset.
JobType ==
    [use : {"loader", "iterate"}, workers : Nat \ {0}, mode : {"epoch", "window"},
     drop : BOOLEAN, grows : BOOLEAN, costs : {"lazy", "materialized", "fixed"},
     shuffle : BOOLEAN, samples : Nat, selected : {Unset} \cup Seq(Nat), length : 0 .. MaxLength]

ASSUME JobsAssumption == \A j \in Jobs : j \in JobType

VARIABLES
    job,        \* the training
    published,  \* how many samples the source has
    pc,         \* rank -> where its loop over the batches is
    epoch,      \* rank -> iterations begun
    visible,    \* rank -> the length of its dataset object
    covered,    \* rank -> how many samples its costs cover
    length,     \* rank -> _planning_length of the iteration
    planner,    \* rank -> the batch planner
    planned,    \* rank -> all batches planned in this iteration
    upto,       \* rank -> how many of them are to be taken
    taken,      \* rank -> how many were taken
    posted,     \* rank -> the collective it waits in, or Unset
    counts,     \* rank -> the batch counts it was told
    error,      \* rank -> planning raised and is to be reported
    stranded    \* ranks that left without a word to the others

vars == <<job, published, pc, epoch, visible, covered, length, planner, planned, upto, taken,
          posted, counts, error, stranded>>
plan == <<length, planner, planned, upto, taken>>

Init ==
    /\ job \in Jobs
    /\ published = job.length
    /\ pc = [r \in Ranks |-> "idle"]
    /\ epoch = [r \in Ranks |-> 0]
    /\ visible = [r \in Ranks |-> job.length]
    /\ covered = [r \in Ranks |-> job.length]
    /\ length = [r \in Ranks |-> 0]
    /\ planner = [r \in Ranks |-> NewPlanner(<<>>)]
    /\ planned = [r \in Ranks |-> <<>>]
    /\ upto = [r \in Ranks |-> 0]
    /\ taken = [r \in Ranks |-> 0]
    /\ posted = [r \in Ranks |-> Unset]
    /\ counts = [r \in Ranks |-> <<>>]
    /\ error = [r \in Ranks |-> FALSE]
    /\ stranded = {}

-----------------------------------------------------------------------------
(* The source and the exchange.                                            *)

GrowSource ==
    /\ job.grows /\ published < MaxLength
    /\ published' = published + 1
    /\ UNCHANGED <<job, pc, epoch, visible, covered, plan, posted, counts, error, stranded>>

Posts(r, op, value) == posted' = [posted EXCEPT ![r] = [op |-> op, value |-> value]]

Smallest(values) == CHOOSE v \in values : \A w \in values : v <= w

\* Every rank has called the same collective: all of them return.
Exchange(op) ==
    /\ \A r \in Ranks : posted[r] # Unset /\ posted[r].op = op
    /\ posted' = [r \in Ranks |-> Unset]

ExchangeLengths ==
    /\ Exchange("length")
    /\ length' = [r \in Ranks |-> Smallest({posted[s].value : s \in Ranks})]
    /\ pc' = [r \in Ranks |-> "order"]
    /\ UNCHANGED <<job, published, epoch, visible, covered, planner, planned, upto, taken,
                   counts, error, stranded>>

\* plan_counts
ExchangeCounts ==
    /\ Exchange("counts")
    /\ counts' = [r \in Ranks |-> [s \in Ranks |-> posted[s].value]]
    /\ pc' = [r \in Ranks |-> "decide"]
    /\ UNCHANGED <<job, published, epoch, visible, covered, plan, error, stranded>>

ExchangeGradients ==
    /\ Exchange("train")
    /\ taken' = [r \in Ranks |-> taken[r] + 1]
    /\ pc' = [r \in Ranks |-> "yield"]
    /\ UNCHANGED <<job, published, epoch, visible, covered, length, planner, planned, upto,
                   counts, error, stranded>>

-----------------------------------------------------------------------------
(* Before the plan.                                                        *)

CanFail == Cardinality(stranded \cup {r \in Ranks : error[r]}) < MaxFailures

\* The rank leaves while the others know nothing of it.
Strand(r) ==
    /\ stranded' = stranded \cup {r}
    /\ pc' = [pc EXCEPT ![r] = "failed"]
    /\ UNCHANGED <<job, published, epoch, visible, covered, plan, posted, counts, error>>

\* _BatchSampler.__iter__: refresh and _advance_costs.
BeginEpoch(r) ==
    /\ pc[r] = "idle" /\ job.use = "loader" /\ epoch[r] < MaxEpochs
    /\ job.costs = "fixed" => covered[r] = published
    /\ visible' = [visible EXCEPT ![r] = published]
    /\ covered' = [covered EXCEPT ![r] = published]
    /\ epoch' = [epoch EXCEPT ![r] = @ + 1]
    /\ planned' = [planned EXCEPT ![r] = <<>>]
    /\ upto' = [upto EXCEPT ![r] = 0]
    /\ taken' = [taken EXCEPT ![r] = 0]
    /\ pc' = [pc EXCEPT ![r] = "start"]
    /\ UNCHANGED <<job, published, length, planner, posted, counts, error, stranded>>

\* refresh or _advance_costs raises: fixed costs do when the dataset has grown,
\* materialized ones when they are computed for what is new.
BeginRaises(r) ==
    /\ pc[r] = "idle" /\ job.use = "loader" /\ epoch[r] < MaxEpochs
    /\ job.grows /\ covered[r] # published
    /\ job.costs = "fixed" \/ CanFail
    /\ Strand(r)

\* Mutant: no agreement on the length.
MeasureAlone(r) ==
    /\ pc[r] = "start" /\ ~error[r]
    /\ length' = [length EXCEPT ![r] = visible[r]]
    /\ pc' = [pc EXCEPT ![r] = "order"]
    /\ UNCHANGED <<job, published, epoch, visible, covered, planner, planned, upto, taken,
                   posted, counts, error, stranded>>

\* _planning_length, after the costs were materialized if they are to be.
Measure(r) ==
    /\ pc[r] = "start" /\ ~error[r]
    /\ IF job.grows
       THEN /\ Posts(r, "length", visible[r])
            /\ pc' = [pc EXCEPT ![r] = "wait"]
            /\ UNCHANGED length
       ELSE /\ length' = [length EXCEPT ![r] = visible[r]]
            /\ pc' = [pc EXCEPT ![r] = "order"]
            /\ UNCHANGED posted
    /\ UNCHANGED <<job, published, epoch, visible, covered, planner, planned, upto, taken,
                   counts, error, stranded>>

\* The rank's index groups: _shuffle of the dataset, or of a selection of it.
IndexGroupsOf(r) ==
    IF job.selected = Unset
    THEN MapStyleShare(length[r], GroupSize, job.shuffle, epoch[r], World, r)
    ELSE SelectedShare(IF job.shuffle
                       THEN Shuffle(IndexGroups(length[r], GroupSize), epoch[r])
                       ELSE <<Span(0, length[r])>>,
                       job.selected, World, r)

Order(r) ==
    /\ pc[r] = "order"
    /\ planner' = [planner EXCEPT ![r] = NewPlanner(IndexGroupsOf(r))]
    /\ pc' = [pc EXCEPT ![r] = "plan"]
    /\ UNCHANGED <<job, published, epoch, visible, covered, length, planned, upto, taken,
                   posted, counts, error, stranded>>

-----------------------------------------------------------------------------
(* The plan.                                                               *)

Filled(r) == FillWindow(planner[r], job.samples)

\* Batches planned since the last exchange.
Local(r) == Len(planned[r]) - taken[r]

WantsPlans(r) ==
    /\ pc[r] = "plan" /\ ~error[r] /\ ~PlannerDone(planner[r])
    /\ job.mode = "window" => Local(r) < PlanWindow

\* One turn of _plans.
PlanBatch(r) ==
    /\ WantsPlans(r) /\ ~CannotPlan(Filled(r))
    /\ LET records == SelectCandidate(Filled(r).pending, job.samples) IN
        /\ planned' = [planned EXCEPT ![r] = Append(@, BatchOf(records))]
        /\ planner' = [planner EXCEPT ![r] = AfterBatch(Filled(r), records)]
    /\ UNCHANGED <<job, published, pc, epoch, visible, covered, length, upto, taken,
                   posted, counts, error, stranded>>

\* Mutant: the error leaves the iterator at once in either mode.
PlanRaisesAtOnce(r) ==
    /\ pc[r] \in {"start", "plan"} /\ ~error[r]
    /\ \/ WantsPlans(r) /\ (CannotPlan(Filled(r)) \/ (job.costs = "lazy" /\ CanFail))
       \/ pc[r] = "start" /\ ~error[r] /\ job.costs = "materialized" /\ epoch[r] = 1 /\ CanFail
    /\ pc' = [pc EXCEPT ![r] = "failed"]
    /\ UNCHANGED <<job, published, epoch, visible, covered, plan, posted, counts, error,
                   stranded>>

\* Planning raises: for a sample that cannot be planned, or because a cost
\* function does, also while costs are materialized.  "epoch" keeps the error for
\* after the exchange, "window" does not.
PlanRaises(r) ==
    /\ \/ WantsPlans(r) /\ (CannotPlan(Filled(r)) \/ (job.costs = "lazy" /\ CanFail))
       \/ pc[r] = "start" /\ ~error[r] /\ job.costs = "materialized" /\ epoch[r] = 1 /\ CanFail
    /\ IF job.mode = "window" THEN Strand(r)
       ELSE /\ error' = [error EXCEPT ![r] = TRUE]
            /\ UNCHANGED <<job, published, pc, epoch, visible, covered, plan, posted, counts,
                           stranded>>

\* The rank is done planning, for this window or for good, and posts its count.
PostCount(r) ==
    /\ pc[r] \in {"start", "plan"}
    /\ error[r] \/ (pc[r] = "plan" /\ ~WantsPlans(r))
    /\ Posts(r, "counts", IF error[r] THEN -1 ELSE Local(r))
    /\ pc' = [pc EXCEPT ![r] = "wait"]
    /\ UNCHANGED <<job, published, epoch, visible, covered, plan, counts, error, stranded>>

-----------------------------------------------------------------------------
(* After the exchange of counts.                                           *)

All(r) == {counts[r][s] : s \in Ranks}

\* A count of -1, an empty rank among others, or a tail that may not be dropped.
Refuses(r) ==
    \/ -1 \in All(r)
    \/ taken[r] = 0 /\ Smallest(All(r)) = 0 /\ All(r) # {0}
    \/ ~job.drop /\ Cardinality(All(r)) > 1

RefusePlans(r) ==
    /\ pc[r] = "decide" /\ Refuses(r)
    /\ pc' = [pc EXCEPT ![r] = "failed"]
    /\ UNCHANGED <<job, published, epoch, visible, covered, plan, posted, counts, error,
                   stranded>>

\* Mutant: each rank keeps what it has.
KeepAll(r) ==
    /\ pc[r] = "decide" /\ ~Refuses(r)
    /\ upto' = [upto EXCEPT ![r] = taken[r] + counts[r][r]]
    /\ pc' = [pc EXCEPT ![r] = "yield"]
    /\ UNCHANGED <<job, published, epoch, visible, covered, length, planner, planned, taken,
                   posted, counts, error, stranded>>

\* local[:kept]
Keep(r) ==
    /\ pc[r] = "decide" /\ ~Refuses(r)
    /\ upto' = [upto EXCEPT ![r] = taken[r] + Smallest(All(r))]
    /\ pc' = [pc EXCEPT ![r] = "yield"]
    /\ UNCHANGED <<job, published, epoch, visible, covered, length, planner, planned, taken,
                   posted, counts, error, stranded>>

\* The trainer takes a batch and makes a step with it.
Train(r) ==
    /\ pc[r] = "yield" /\ taken[r] < upto[r]
    /\ Posts(r, "train", planned[r][taken[r] + 1])
    /\ pc' = [pc EXCEPT ![r] = "wait"]
    /\ UNCHANGED <<job, published, epoch, visible, covered, plan, counts, error, stranded>>

\* The iterator ends; only a full window is followed by another.
EndOrNextWindow(r) ==
    /\ pc[r] = "yield" /\ taken[r] = upto[r]
    /\ pc' = [pc EXCEPT ![r] =
                IF job.use = "loader" /\ job.mode = "window" /\ Smallest(All(r)) = PlanWindow
                THEN "plan" ELSE "idle"]
    /\ UNCHANGED <<job, published, epoch, visible, covered, plan, posted, counts, error,
                   stranded>>

\* iter_runtime_shard: the samples of the rank's workers, without any exchange.
RankRows(r) ==
    SetToSortSeq(UNION {RuntimeRows(visible[r], World, r, job.workers, w) :
                          w \in 0 .. job.workers - 1}, <)

Iterate(r) ==
    /\ pc[r] = "idle" /\ job.use = "iterate" /\ epoch[r] < MaxEpochs
    /\ planned' = [planned EXCEPT ![r] = [k \in DOMAIN RankRows(r) |-> <<RankRows(r)[k]>>]]
    /\ upto' = [upto EXCEPT ![r] = Len(RankRows(r))]
    /\ length' = [length EXCEPT ![r] = visible[r]]
    /\ taken' = [taken EXCEPT ![r] = 0]
    /\ epoch' = [epoch EXCEPT ![r] = @ + 1]
    /\ pc' = [pc EXCEPT ![r] = "yield"]
    /\ UNCHANGED <<job, published, visible, covered, planner, posted, counts, error, stranded>>

Step(r) ==
    \/ BeginEpoch(r) \/ BeginRaises(r) \/ Measure(r) \/ Order(r) \/ PlanBatch(r) \/ PlanRaises(r)
    \/ PostCount(r) \/ RefusePlans(r) \/ Keep(r) \/ Train(r) \/ EndOrNextWindow(r) \/ Iterate(r)

Next ==
    \/ GrowSource
    \/ ExchangeLengths \/ ExchangeCounts \/ ExchangeGradients
    \/ \E r \in Ranks : Step(r)

Spec == Init /\ [][Next]_vars

\* A rank has something to do: a step of its own is enabled.
Ready(r) ==
    pc[r] \notin {"wait", "failed"} /\ ~(pc[r] = "idle" /\ epoch[r] = MaxEpochs)

Moves(r) == <<pc[r], planned[r], error[r]>>' # <<pc[r], planned[r], error[r]>>

\* A rank that can go on does (the weak fairness of Step(r), spelt out because
\* what it enables is costly to evaluate), and a collective that all have called
\* returns.
RanksGoOn ==
    /\ WF_vars(ExchangeLengths) /\ WF_vars(ExchangeCounts) /\ WF_vars(ExchangeGradients)
    /\ \A r \in Ranks : []<>~Ready(r) \/ []<><<Moves(r)>>_vars

FairSpec == Spec /\ RanksGoOn

-----------------------------------------------------------------------------
(* What must hold.                                                         *)

\* The collectives of the ranks pair up: never does one rank train while another
\* counts batches, or count while another compares lengths.
CollectivesMatch ==
    \A r, s \in Ranks :
        posted[r] # Unset /\ posted[s] # Unset => posted[r].op = posted[s].op

\* No rank is left waiting: every rank ends all its iterations or raises, unless
\* some rank raised where the code has no exchange to tell the others in: when it
\* refreshes its dataset and costs, and when it plans in mode "window".
EveryRankLeaves ==
    <>(\/ stranded # {}
       \/ \A r \in Ranks : pc[r] = "failed" \/ (pc[r] = "idle" /\ epoch[r] = MaxEpochs))

\* What the ranks plan in an iteration, the tails they drop included, is every
\* sample of the length they agreed on, once, in shares that differ by one at most.
EvenPartition ==
    LET Samples(r) == FlattenSeq(planned[r])
        Agreed == IF job.use = "iterate" THEN (length[0] \div World) * World
                  ELSE IF job.selected = Unset THEN length[0]
                  ELSE Len(SelectSeq(job.selected, LAMBDA i : i < length[0]))
        Planned(r) ==
            /\ epoch[r] = epoch[0]
            /\ pc[r] \in {"decide", "yield"} /\ ~error[r]
            /\ job.use = "loader" => PlannerDone(planner[r])
    IN (\A r \in Ranks : Planned(r))
        => /\ \A r \in Ranks : IsInjective(Samples(r))
           /\ \A r, s \in Ranks :
                /\ r # s => ToSet(Samples(r)) \cap ToSet(Samples(s)) = {}
                /\ Len(Samples(r)) <= Len(Samples(s)) + 1
           /\ UNION {ToSet(Samples(r)) : r \in Ranks} = 0 .. Agreed - 1

\* The batch that the planner cuts from a window, which it finds by binary searches,
\* is the best of all ranges of the cost order that fit the budget and the count: the
\* fullest within the limit of padding, or else the one that is padded least.
BatchesAreBest ==
    \A r \in Ranks :
        WantsPlans(r) /\ ~CannotPlan(Filled(r)) =>
            SelectCandidate(Filled(r).pending, job.samples)
                = ReferenceCandidate(ByCost(Filled(r).pending), job.samples)

CostOf(records) == FoldSet(LAMBDA r, sum : sum + Cost(r.index), 0, records)

\* README.md: within a window the planner "greedily adds the fitting sample that makes
\* the batch as full as possible".  So no sample is left out that the batch had room
\* for.  It does not hold: see the README.
BatchesAreFull ==
    \A r \in Ranks :
        WantsPlans(r) /\ ~CannotPlan(Filled(r)) =>
            LET batch == SelectCandidate(Filled(r).pending, job.samples)
            IN \/ job.samples # Unbounded /\ Cardinality(batch) = job.samples
               \/ \A left \in Filled(r).pending \ batch :
                       CostOf(batch) + Cost(left.index) > Budget
=============================================================================
