--------------------------- MODULE Datasets_proof ---------------------------
(***************************************************************************)
(* Proofs about what feeds a training.  The collectives of the ranks pair  *)
(* up, for any number of ranks, any window, shuffle, costs and trainings:  *)
(* whatever the ranks do between two exchanges leads all that still run to *)
(* the same next one.  Tabular and Hub sources, for any files, users and   *)
(* rewrites: parts hold the rows of one state of their file, each row read *)
(* is the one of its number, a share of a scan has its rows each once and  *)
(* in order, and all processes number the files of a repository the same.  *)
(***************************************************************************)
EXTENDS PlanSync, HubFiles, FiniteSetTheorems, SequenceTheorems, WellFoundedInduction, TLAPS

\* An error of a rank that materializes its costs is told with the batch counts; when
\* the source grows the others compare lengths by then (see the README).
CostsAreTold ==
    job.grows /\ job.costs = "materialized" => job.mode = "window"

OverRanks(f) == f = [r \in Ranks |-> f[r]]

SyncTypeOK ==
    /\ pc \in [Ranks -> {"idle", "start", "order", "plan", "wait", "decide", "yield", "failed"}]
    /\ epoch \in [Ranks -> Nat]
    /\ taken \in [Ranks -> Nat]
    /\ error \in [Ranks -> BOOLEAN]
    /\ OverRanks(upto) /\ OverRanks(posted) /\ OverRanks(counts)

PostedWaits == \A r \in Ranks : posted[r] # Unset => pc[r] = "wait"

\* Reading without a loader has no collective but the training step.
IterateTrains ==
    job.use = "iterate" =>
        \A r \in Ranks : /\ pc[r] \in {"idle", "yield", "wait"}
                         /\ pc[r] = "wait" => posted[r].op = "train"

\* An error that is kept for the others reaches them with the counts.
Tells(r) ==
    /\ pc[r] \in {"start", "plan", "wait", "decide", "failed"}
    /\ pc[r] = "start" => ~job.grows
    /\ pc[r] = "wait" => posted[r].op = "counts" /\ posted[r].value = -1
    /\ pc[r] = "decide" => Refuses(r)

ErrorsAreTold ==
    \A r \in Ranks : error[r] => Tells(r)

CountsAgree == \A r, s \in Ranks : counts[r] = counts[s]

\* Ranks of one epoch made the same number of steps; one that is ahead made none yet.
TakenAgree ==
    \A r, s \in Ranks :
        /\ epoch[r] = epoch[s] => taken[r] = taken[s]
        /\ epoch[r] < epoch[s] => taken[s] = 0

Training(r) == pc[r] \in {"decide", "yield"} \/ (pc[r] = "wait" /\ posted[r].op = "train")

\* The number of steps after which the rank counts or ends.
Goal(r) == IF pc[r] = "decide" THEN taken[r] + Smallest(All(r)) ELSE upto[r]

GoalsAgree ==
    \A r, s \in Ranks :
        Training(r) /\ Training(s) /\ epoch[r] = epoch[s] => Goal(r) = Goal(s)

FirstOp == IF job.grows THEN "length" ELSE "counts"

WindowIsFull(r) == job.mode = "window" /\ Smallest(All(r)) = PlanWindow

\* A rank with n steps to make goes to collective op of epoch e.
GoesOn(r, n, op, e) ==
    \/ taken[r] < n /\ op = "train" /\ e = epoch[r]
    \/ ~(taken[r] < n) /\ WindowIsFull(r) /\ op = "counts" /\ e = epoch[r]
    \/ ~(taken[r] < n) /\ ~WindowIsFull(r) /\ op = FirstOp /\ e = epoch[r] + 1

\* The next collective rank r takes part in is op, in its epoch e.
Expects(r, op, e) ==
    \/ pc[r] = "idle" /\ op = FirstOp /\ e = epoch[r] + 1
    \/ pc[r] = "start" /\ op = FirstOp /\ e = epoch[r]
    \/ pc[r] \in {"order", "plan"} /\ op = "counts" /\ e = epoch[r]
    \/ pc[r] = "wait" /\ op = posted[r].op /\ e = epoch[r]
    \/ pc[r] \in {"decide", "yield"} /\ GoesOn(r, Goal(r), op, e)

Running(r) == pc[r] # "failed" /\ ~(pc[r] = "decide" /\ Refuses(r))

\* All ranks that still run go to the same collective.
OneCollective == \E op, e : \A r \in Ranks : Running(r) => Expects(r, op, e)

\* The parts that are about reading with a loader.
LoaderInv ==
    /\ ErrorsAreTold
    /\ CountsAgree
    /\ TakenAgree
    /\ GoalsAgree
    /\ OneCollective

SyncInv ==
    /\ job \in Jobs
    /\ SyncTypeOK
    /\ PostedWaits
    /\ IterateTrains
    /\ job.use = "loader" /\ CostsAreTold => LoaderInv

-----------------------------------------------------------------------------
\* What a step leaves alone of rank s.
Unmoved(s) ==
    /\ pc'[s] = pc[s] /\ epoch'[s] = epoch[s] /\ taken'[s] = taken[s]
    /\ upto'[s] = upto[s] /\ posted'[s] = posted[s] /\ counts'[s] = counts[s]
    /\ error'[s] = error[s]

LEMMA SameSmallest ==
    ASSUME NEW s \in Ranks, counts'[s] = counts[s]
    PROVE  All(s)' = All(s) /\ Smallest(All(s))' = Smallest(All(s))
<1>1. All(s)' = All(s)
    BY DEF All
<1>2. Smallest(All(s))' = Smallest(All(s))
    BY <1>1 DEF Smallest
<1> QED BY <1>1, <1>2

LEMMA SameRank ==
    ASSUME NEW s \in Ranks, Unmoved(s), job' = job
    PROVE  /\ Goal(s)' = Goal(s)
           /\ Training(s)' <=> Training(s)
           /\ Refuses(s)' <=> Refuses(s)
           /\ Running(s)' <=> Running(s)
           /\ WindowIsFull(s)' <=> WindowIsFull(s)
<1>1. All(s)' = All(s) /\ Smallest(All(s))' = Smallest(All(s))
    BY SameSmallest DEF Unmoved
<1>2. Goal(s)' = Goal(s)
    BY <1>1 DEF Goal, Unmoved
<1>3. Training(s)' <=> Training(s)
    BY DEF Training, Unmoved
<1>4. Refuses(s)' <=> Refuses(s)
    BY <1>1 DEF Refuses, Unmoved
<1>5. Running(s)' <=> Running(s)
    BY <1>4 DEF Running, Unmoved
<1>6. WindowIsFull(s)' <=> WindowIsFull(s)
    BY <1>1 DEF WindowIsFull, Unmoved
<1> QED BY <1>2, <1>3, <1>4, <1>5, <1>6

LEMMA SameExpects ==
    ASSUME NEW s \in Ranks, Unmoved(s), job' = job, NEW op, NEW e
    PROVE  Expects(s, op, e)' <=> Expects(s, op, e)
<1>1. /\ Goal(s)' = Goal(s)
      /\ WindowIsFull(s)' <=> WindowIsFull(s)
    BY SameRank
<1>2. FirstOp' = FirstOp
    BY DEF FirstOp
<1>3. GoesOn(s, Goal(s), op, e)' <=> GoesOn(s, Goal(s), op, e)
    BY <1>1, <1>2 DEF GoesOn, Unmoved
<1> QED BY <1>2, <1>3 DEF Expects, Unmoved

\* A step of one rank that neither begins an iteration nor makes a training step.
LEMMA LocalStep ==
    ASSUME SyncTypeOK, LoaderInv, NEW r \in Ranks, job' = job,
           \A s \in Ranks : s # r => Unmoved(s),
           epoch'[r] = epoch[r], taken'[r] = taken[r], counts'[r] = counts[r],
           Training(r)' => Training(r) /\ Goal(r)' = Goal(r),
           error'[r] => Tells(r)',
           Running(r)' => Running(r),
           \A op, e : Running(r)' /\ Expects(r, op, e) => Expects(r, op, e)'
    PROVE  LoaderInv'
<1>1. ErrorsAreTold'
    <2> SUFFICES ASSUME NEW s \in Ranks, error'[s] PROVE Tells(s)'
        BY DEF ErrorsAreTold
    <2>1. CASE s = r
        BY <2>1
    <2>2. CASE s # r
        <3>1. Unmoved(s) /\ (Refuses(s)' <=> Refuses(s))
            BY <2>2, SameRank
        <3>2. error[s] /\ Tells(s)
            BY <3>1 DEF Unmoved, LoaderInv, ErrorsAreTold
        <3> QED BY <3>1, <3>2 DEF Unmoved, Tells
    <2> QED BY <2>1, <2>2
<1>2. CountsAgree'
    <2>1. \A s \in Ranks : counts'[s] = counts[s]
        BY DEF Unmoved
    <2> QED BY <2>1 DEF LoaderInv, CountsAgree
<1>3. TakenAgree'
    <2>1. \A s \in Ranks : epoch'[s] = epoch[s] /\ taken'[s] = taken[s]
        BY DEF Unmoved
    <2> QED BY <2>1 DEF LoaderInv, TakenAgree
<1>4. GoalsAgree'
    <2>1. \A s \in Ranks : /\ epoch'[s] = epoch[s]
                           /\ Training(s)' => Training(s) /\ Goal(s)' = Goal(s)
        BY SameRank DEF Unmoved
    <2> QED BY <2>1 DEF LoaderInv, GoalsAgree
<1>5. OneCollective'
    <2>1. PICK op, e : \A s \in Ranks : Running(s) => Expects(s, op, e)
        BY DEF LoaderInv, OneCollective
    <2>2. ASSUME NEW s \in Ranks, Running(s)' PROVE Expects(s, op, e)'
        <3>1. CASE s = r
            BY <2>1, <2>2, <3>1
        <3>2. CASE s # r
            <4>1. Running(s) /\ (Expects(s, op, e)' <=> Expects(s, op, e))
                BY <2>2, <3>2, SameRank, SameExpects
            <4> QED BY <2>1, <4>1
        <3> QED BY <3>1, <3>2
    <2> QED BY <2>2 DEF OneCollective
<1> QED BY <1>1, <1>2, <1>3, <1>4, <1>5 DEF LoaderInv

\* The steps a rank makes between two exchanges, but for the first one.
LEMMA LocalActions ==
    ASSUME SyncTypeOK, job.use = "loader", CostsAreTold, LoaderInv, NEW r \in Ranks,
           \/ BeginRaises(r) \/ Measure(r) \/ Order(r) \/ PlanBatch(r) \/ PlanRaises(r)
           \/ PostCount(r) \/ RefusePlans(r) \/ Keep(r) \/ Train(r) \/ EndOrNextWindow(r)
    PROVE  LoaderInv'
<1>1. ErrorsAreTold /\ (error[r] => Tells(r))
    BY DEF LoaderInv, ErrorsAreTold
<1>2. CASE BeginRaises(r)
    <2>1. /\ job' = job /\ pc'[r] = "failed"
          /\ \A s \in Ranks : s # r => Unmoved(s)
          /\ epoch' = epoch /\ taken' = taken /\ counts' = counts
        BY <1>2 DEF BeginRaises, Strand, plan, SyncTypeOK, Unmoved
    <2>2. ~Training(r)' /\ ~Running(r)' /\ Tells(r)'
        BY <2>1 DEF Training, Running, Tells
    <2> QED BY <2>1, <2>2, LocalStep
<1>3. CASE Measure(r) /\ job.grows
    <2>1. /\ job' = job /\ pc[r] = "start" /\ pc'[r] = "wait"
          /\ \A s \in Ranks : s # r => Unmoved(s)
          /\ epoch' = epoch /\ taken' = taken /\ counts' = counts
          /\ ~error[r] /\ error' = error /\ posted'[r].op = "length"
        BY <1>3 DEF Measure, Posts, SyncTypeOK, OverRanks, Unmoved
    <2>2. ~Training(r)' /\ Running(r)
        BY <2>1 DEF Training, Running
    <2>3. \A op, e : Expects(r, op, e) => Expects(r, op, e)'
        BY <1>3, <2>1 DEF Expects, FirstOp
    <2> QED BY <2>1, <2>2, <2>3, LocalStep
<1>4. CASE Measure(r) /\ ~job.grows
    <2>1. /\ job' = job /\ pc[r] = "start" /\ pc'[r] = "order"
          /\ \A s \in Ranks : s # r => Unmoved(s)
          /\ epoch' = epoch /\ taken' = taken /\ counts' = counts
          /\ ~error[r] /\ error' = error
        BY <1>4 DEF Measure, SyncTypeOK, Unmoved
    <2>2. ~Training(r)' /\ Running(r)
        BY <2>1 DEF Training, Running
    <2>3. \A op, e : Expects(r, op, e) => Expects(r, op, e)'
        BY <1>4, <2>1 DEF Expects, FirstOp
    <2> QED BY <2>1, <2>2, <2>3, LocalStep
<1>5. CASE Order(r)
    <2>1. /\ job' = job /\ pc[r] = "order" /\ pc'[r] = "plan"
          /\ \A s \in Ranks : s # r => Unmoved(s)
          /\ epoch' = epoch /\ taken' = taken /\ counts' = counts /\ error' = error
        BY <1>5 DEF Order, SyncTypeOK, Unmoved
    <2>2. ~Training(r)' /\ Running(r) /\ ~error[r]
        BY <1>1, <2>1 DEF Training, Running, Tells
    <2>3. \A op, e : Expects(r, op, e) => Expects(r, op, e)'
        BY <2>1 DEF Expects
    <2> QED BY <2>1, <2>2, <2>3, LocalStep
<1>6. CASE PlanBatch(r)
    <2>1. /\ job' = job /\ pc' = pc /\ upto' = upto /\ posted' = posted
          /\ epoch' = epoch /\ taken' = taken /\ counts' = counts /\ error' = error
        BY <1>6 DEF PlanBatch
    <2>2. \A s \in Ranks : Unmoved(s)
        BY <2>1 DEF Unmoved
    <2>3. \A op, e : Expects(r, op, e) => Expects(r, op, e)'
        BY <2>1, <2>2, SameExpects
    <2>4. /\ Training(r)' => Training(r) /\ Goal(r)' = Goal(r)
          /\ Running(r)' => Running(r)
          /\ Refuses(r)' <=> Refuses(r)
        BY <2>1, <2>2, SameRank
    <2>5. error'[r] => Tells(r)'
        BY <1>1, <2>1, <2>4 DEF Tells
    <2> QED BY <2>1, <2>2, <2>3, <2>4, <2>5, LocalStep
<1>7. CASE PlanRaises(r) /\ job.mode = "window"
    <2>1. /\ job' = job /\ pc'[r] = "failed"
          /\ \A s \in Ranks : s # r => Unmoved(s)
          /\ epoch' = epoch /\ taken' = taken /\ counts' = counts
        BY <1>7 DEF PlanRaises, Strand, plan, SyncTypeOK, Unmoved
    <2>2. ~Training(r)' /\ ~Running(r)' /\ Tells(r)'
        BY <2>1 DEF Training, Running, Tells
    <2> QED BY <2>1, <2>2, LocalStep
<1>8. CASE PlanRaises(r) /\ job.mode # "window"
    <2>1. /\ job' = job /\ pc' = pc /\ pc[r] \in {"start", "plan"}
          /\ \A s \in Ranks : s # r => Unmoved(s)
          /\ epoch' = epoch /\ taken' = taken /\ counts' = counts
          /\ pc[r] = "start" => job.costs = "materialized"
        BY <1>8 DEF PlanRaises, WantsPlans, plan, SyncTypeOK, Unmoved
    <2>2. ~Training(r)' /\ Running(r)
        BY <2>1 DEF Training, Running
    <2>3. \A op, e : Expects(r, op, e) => Expects(r, op, e)'
        BY <2>1 DEF Expects, FirstOp
    <2>4. Tells(r)'
        BY <1>8, <2>1 DEF Tells, CostsAreTold
    <2> QED BY <2>1, <2>2, <2>3, <2>4, LocalStep
<1>9. CASE PostCount(r)
    <2>1. /\ job' = job /\ pc[r] \in {"start", "plan"} /\ pc'[r] = "wait"
          /\ \A s \in Ranks : s # r => Unmoved(s)
          /\ epoch' = epoch /\ taken' = taken /\ counts' = counts /\ error' = error
          /\ posted'[r].op = "counts" /\ error[r] => posted'[r].value = -1
          /\ posted'[r].op = "counts" /\ (pc[r] = "start" => error[r])
        BY <1>9 DEF PostCount, Posts, plan, SyncTypeOK, OverRanks, Unmoved
    <2>2. ~Training(r)' /\ Running(r)
        BY <2>1 DEF Training, Running
    <2>3. error[r] => Tells(r)'
        BY <2>1 DEF Tells
    <2>4. FirstOp = "counts" \/ pc[r] = "plan"
        BY <1>1, <2>1 DEF Tells, FirstOp
    <2>5. \A op, e : Expects(r, op, e) => Expects(r, op, e)'
        BY <2>1, <2>4 DEF Expects
    <2> QED BY <2>1, <2>2, <2>3, <2>5, LocalStep
<1>10. CASE RefusePlans(r)
    <2>1. /\ job' = job /\ pc'[r] = "failed"
          /\ \A s \in Ranks : s # r => Unmoved(s)
          /\ epoch' = epoch /\ taken' = taken /\ counts' = counts
        BY <1>10 DEF RefusePlans, plan, SyncTypeOK, Unmoved
    <2>2. ~Training(r)' /\ ~Running(r)' /\ Tells(r)'
        BY <2>1 DEF Training, Running, Tells
    <2> QED BY <2>1, <2>2, LocalStep
<1>11. CASE Keep(r)
    <2>1. /\ job' = job /\ pc[r] = "decide" /\ pc'[r] = "yield" /\ ~Refuses(r)
          /\ \A s \in Ranks : s # r => Unmoved(s)
          /\ epoch' = epoch /\ taken' = taken /\ counts' = counts /\ error' = error
          /\ upto'[r] = taken[r] + Smallest(All(r))
        BY <1>11 DEF Keep, SyncTypeOK, OverRanks, Unmoved
    <2>2. ~error[r] /\ Training(r) /\ Running(r)
        BY <1>1, <2>1 DEF Tells, Training, Running
    <2>3. /\ Goal(r)' = Goal(r)
          /\ Smallest(All(r))' = Smallest(All(r))
        BY <2>1, SameSmallest DEF Goal
    <2>4. /\ WindowIsFull(r)' <=> WindowIsFull(r)
          /\ FirstOp' = FirstOp
        BY <2>1, <2>3 DEF WindowIsFull, FirstOp
    <2>5. \A op, e : GoesOn(r, Goal(r), op, e) => GoesOn(r, Goal(r), op, e)'
        BY <2>1, <2>3, <2>4 DEF GoesOn
    <2>6. \A op, e : Expects(r, op, e) => Expects(r, op, e)'
        BY <2>1, <2>5 DEF Expects
    <2> QED BY <2>1, <2>2, <2>3, <2>6, LocalStep
<1>12. CASE Train(r)
    <2>1. /\ job' = job /\ pc[r] = "yield" /\ pc'[r] = "wait"
          /\ \A s \in Ranks : s # r => Unmoved(s)
          /\ epoch' = epoch /\ taken' = taken /\ counts' = counts /\ error' = error
          /\ upto' = upto /\ taken[r] < upto[r] /\ posted'[r].op = "train"
        BY <1>12 DEF Train, plan, Posts, SyncTypeOK, OverRanks, Unmoved
    <2>2. ~error[r] /\ Training(r) /\ Running(r)
        BY <1>1, <2>1 DEF Tells, Training, Running
    <2>3. Goal(r)' = Goal(r) /\ Goal(r) = upto[r]
        BY <2>1 DEF Goal
    <2>4. \A op, e : Expects(r, op, e) => Expects(r, op, e)'
        BY <2>1, <2>3 DEF Expects, GoesOn
    <2> QED BY <2>1, <2>2, <2>3, <2>4, LocalStep
<1>13. CASE EndOrNextWindow(r)
    <2>1. /\ job' = job /\ pc[r] = "yield"
          /\ pc'[r] = IF WindowIsFull(r) THEN "plan" ELSE "idle"
          /\ \A s \in Ranks : s # r => Unmoved(s)
          /\ epoch' = epoch /\ taken' = taken /\ counts' = counts /\ error' = error
          /\ upto' = upto /\ taken[r] = upto[r]
        BY <1>13 DEF EndOrNextWindow, plan, SyncTypeOK, Unmoved, WindowIsFull
    <2>2. ~error[r] /\ ~Training(r)' /\ Running(r)
        BY <1>1, <2>1 DEF Tells, Training, Running
    <2>3. Goal(r) = upto[r] /\ ~(taken[r] < upto[r])
        BY <2>1 DEF Goal, SyncTypeOK
    <2>4. \A op, e : Expects(r, op, e) => Expects(r, op, e)'
        BY <2>1, <2>3 DEF Expects, GoesOn, FirstOp
    <2> QED BY <2>1, <2>2, <2>3, <2>4, LocalStep
<1> QED BY <1>2, <1>3, <1>4, <1>5, <1>6, <1>7, <1>8, <1>9, <1>10, <1>11, <1>12, <1>13

\* A rank that begins an iteration has the steps of those that are ahead to make.
LEMMA BeginKeeps ==
    ASSUME SyncTypeOK, LoaderInv, NEW r \in Ranks, BeginEpoch(r)
    PROVE  LoaderInv'
<1>1. /\ job' = job /\ pc[r] = "idle" /\ pc'[r] = "start"
      /\ \A s \in Ranks : s # r => Unmoved(s)
      /\ counts' = counts /\ error' = error
      /\ epoch'[r] = epoch[r] + 1 /\ taken'[r] = 0
    BY DEF BeginEpoch, SyncTypeOK, Unmoved
<1>2. ErrorsAreTold'
    <2> SUFFICES ASSUME NEW s \in Ranks, error'[s] PROVE Tells(s)'
        BY DEF ErrorsAreTold
    <2>1. error[s] /\ Tells(s)
        BY <1>1 DEF LoaderInv, ErrorsAreTold
    <2>2. s # r
        BY <1>1, <2>1 DEF Tells
    <2>3. Unmoved(s) /\ (Refuses(s)' <=> Refuses(s))
        BY <1>1, <2>2, SameRank
    <2> QED BY <1>1, <2>1, <2>3 DEF Unmoved, Tells
<1>3. CountsAgree'
    BY <1>1 DEF LoaderInv, CountsAgree
<1>4. TakenAgree'
    <2>1. /\ \A s \in Ranks : epoch[s] \in Nat /\ taken[s] \in Nat
          /\ \A s \in Ranks : s # r => epoch'[s] = epoch[s] /\ taken'[s] = taken[s]
          /\ \A s \in Ranks : epoch[s] > epoch[r] => taken[s] = 0
        BY <1>1 DEF SyncTypeOK, Unmoved, LoaderInv, TakenAgree
    <2>2. \A s \in Ranks : /\ epoch'[s] = epoch'[r] => taken'[s] = taken'[r]
                           /\ epoch'[r] < epoch'[s] => taken'[s] = 0
        BY <1>1, <2>1
    <2> QED BY <1>1, <2>1, <2>2 DEF LoaderInv, TakenAgree
<1>5. GoalsAgree'
    <2>1. \A s \in Ranks : Training(s)' => /\ Training(s) /\ Goal(s)' = Goal(s)
                                           /\ epoch'[s] = epoch[s]
        <3> SUFFICES ASSUME NEW s \in Ranks, Training(s)'
                     PROVE  Training(s) /\ Goal(s)' = Goal(s) /\ epoch'[s] = epoch[s]
            OBVIOUS
        <3>1. s # r
            BY <1>1 DEF Training
        <3>2. Unmoved(s)
            BY <1>1, <3>1
        <3> QED BY <1>1, <3>2, SameRank DEF Unmoved
    <2> QED BY <2>1 DEF LoaderInv, GoalsAgree
<1>6. OneCollective'
    <2>1. PICK op, e : \A s \in Ranks : Running(s) => Expects(s, op, e)
        BY DEF LoaderInv, OneCollective
    <2>2. ASSUME NEW s \in Ranks, Running(s)' PROVE Expects(s, op, e)'
        <3>1. CASE s = r
            BY <1>1, <2>1, <2>2, <3>1 DEF Expects, Running, FirstOp
        <3>2. CASE s # r
            <4>1. Running(s) /\ (Expects(s, op, e)' <=> Expects(s, op, e))
                BY <1>1, <2>2, <3>2, SameRank, SameExpects
            <4> QED BY <2>1, <4>1
        <3> QED BY <3>1, <3>2
    <2> QED BY <2>2 DEF OneCollective
<1> QED BY <1>2, <1>3, <1>4, <1>5, <1>6 DEF LoaderInv

\* The ranks that have called a collective are all in the same epoch.
LEMMA ExchangeTogether ==
    ASSUME SyncAssumption, PostedWaits, NEW op, Exchange(op)
    PROVE  /\ 0 \in Ranks
           /\ \A r \in Ranks : pc[r] = "wait" /\ Running(r) /\ posted[r].op = op
           /\ OneCollective => \A r, s \in Ranks : epoch[r] = epoch[s]
<1>1. 0 \in Ranks
    BY DEF SyncAssumption, Ranks
<1>2. \A r \in Ranks : pc[r] = "wait" /\ Running(r) /\ posted[r].op = op
    BY DEF Exchange, PostedWaits, Running
<1>3. ASSUME OneCollective PROVE \A r, s \in Ranks : epoch[r] = epoch[s]
    <2>1. PICK o, e : \A r \in Ranks : Running(r) => Expects(r, o, e)
        BY <1>3 DEF OneCollective
    <2>2. \A r \in Ranks : epoch[r] = e
        BY <1>2, <2>1 DEF Expects
    <2> QED BY <2>2
<1> QED BY <1>1, <1>2, <1>3

LEMMA LengthsKeep ==
    ASSUME SyncAssumption, SyncTypeOK, PostedWaits, LoaderInv, ExchangeLengths
    PROVE  LoaderInv'
<1>1. /\ \A r \in Ranks : pc[r] = "wait" /\ posted[r].op = "length" /\ pc'[r] = "order"
      /\ \A r, s \in Ranks : epoch[r] = epoch[s]
      /\ epoch' = epoch /\ taken' = taken /\ counts' = counts /\ error' = error
      /\ 0 \in Ranks
    BY ExchangeTogether DEF ExchangeLengths, LoaderInv
<1>2. ErrorsAreTold'
    BY <1>1 DEF LoaderInv, ErrorsAreTold, Tells
<1>3. CountsAgree' /\ TakenAgree'
    BY <1>1 DEF LoaderInv, CountsAgree, TakenAgree
<1>4. GoalsAgree'
    BY <1>1 DEF GoalsAgree, Training
<1>5. OneCollective'
    <2>1. \A r \in Ranks : Expects(r, "counts", epoch[0])'
        BY <1>1 DEF Expects
    <2> QED BY <2>1 DEF OneCollective
<1> QED BY <1>2, <1>3, <1>4, <1>5 DEF LoaderInv

LEMMA CountsKeep ==
    ASSUME SyncAssumption, SyncTypeOK, PostedWaits, LoaderInv, ExchangeCounts
    PROVE  LoaderInv'
<1>1. /\ \A r \in Ranks : pc[r] = "wait" /\ Running(r) /\ pc'[r] = "decide"
      /\ \A r, s \in Ranks : epoch[r] = epoch[s]
      /\ \A r \in Ranks : counts'[r] = [s \in Ranks |-> posted[s].value]
      /\ epoch' = epoch /\ taken' = taken /\ error' = error /\ upto' = upto /\ job' = job
      /\ 0 \in Ranks
    BY ExchangeTogether DEF ExchangeCounts, LoaderInv, plan
<1>2. ErrorsAreTold'
    <2> SUFFICES ASSUME NEW r \in Ranks, error'[r] PROVE Tells(r)'
        BY DEF ErrorsAreTold
    <2>1. posted[r].value = -1
        BY <1>1 DEF LoaderInv, ErrorsAreTold, Tells
    <2>2. counts'[r][r] = -1
        BY <1>1, <2>1
    <2>3. -1 \in All(r)'
        BY <2>2 DEF All
    <2>4. Refuses(r)'
        BY <2>3 DEF Refuses
    <2> QED BY <1>1, <2>4 DEF Tells
<1>3. CountsAgree' /\ TakenAgree'
    BY <1>1 DEF LoaderInv, CountsAgree, TakenAgree
<1>4. \A r \in Ranks : All(r)' = All(0)' /\ Smallest(All(r))' = Smallest(All(0))'
    <2> SUFFICES ASSUME NEW r \in Ranks
                 PROVE  All(r)' = All(0)' /\ Smallest(All(r))' = Smallest(All(0))'
        OBVIOUS
    <2>1. counts'[r] = counts'[0]
        BY <1>1
    <2>2. All(r)' = All(0)'
        BY <2>1 DEF All
    <2>3. Smallest(All(r))' = Smallest(All(0))'
        BY <2>2 DEF Smallest
    <2> QED BY <2>2, <2>3
<1>5. \A r \in Ranks : /\ epoch'[r] = epoch'[0] /\ taken'[r] = taken'[0]
                       /\ Goal(r)' = Goal(0)'
    BY <1>1, <1>3, <1>4 DEF TakenAgree, Goal
<1>6. GoalsAgree'
    BY <1>5 DEF GoalsAgree
<1>7. OneCollective'
    <2>1. \A r \in Ranks : WindowIsFull(r)' <=> WindowIsFull(0)'
        BY <1>4 DEF WindowIsFull
    <2>2. \E op, e : GoesOn(0, Goal(0), op, e)'
        BY DEF GoesOn
    <2>3. PICK op, e : GoesOn(0, Goal(0), op, e)'
        BY <2>2
    <2>4. \A r \in Ranks : GoesOn(r, Goal(r), op, e)'
        BY <1>1, <1>5, <2>1, <2>3 DEF GoesOn, FirstOp
    <2>5. \A r \in Ranks : Expects(r, op, e)'
        BY <1>1, <2>4 DEF Expects
    <2> QED BY <2>5 DEF OneCollective
<1> QED BY <1>2, <1>3, <1>6, <1>7 DEF LoaderInv

LEMMA GradientsKeep ==
    ASSUME SyncAssumption, SyncTypeOK, PostedWaits, LoaderInv, ExchangeGradients
    PROVE  LoaderInv'
<1>1. /\ \A r \in Ranks : /\ pc[r] = "wait" /\ Running(r) /\ posted[r].op = "train"
                          /\ pc'[r] = "yield"
      /\ \A r, s \in Ranks : epoch[r] = epoch[s]
      /\ \A r \in Ranks : taken'[r] = taken[r] + 1
      /\ epoch' = epoch /\ counts' = counts /\ error' = error /\ upto' = upto /\ job' = job
      /\ 0 \in Ranks
    BY ExchangeTogether DEF ExchangeGradients, LoaderInv
<1>2. ErrorsAreTold'
    BY <1>1 DEF LoaderInv, ErrorsAreTold, Tells
<1>3. CountsAgree' /\ TakenAgree'
    <2>1. CountsAgree'
        BY <1>1 DEF LoaderInv, CountsAgree
    <2>2. \A r, s \in Ranks : epoch'[r] = epoch'[s] /\ taken'[r] = taken'[s]
        BY <1>1 DEF LoaderInv, TakenAgree
    <2>3. TakenAgree'
        BY <1>1, <2>2 DEF TakenAgree, SyncTypeOK
    <2> QED BY <2>1, <2>3
<1>4. \A r \in Ranks : upto[r] = upto[0]
    <2>1. \A r \in Ranks : Training(r) /\ Goal(r) = upto[r]
        BY <1>1 DEF Training, Goal
    <2> QED BY <1>1, <2>1 DEF LoaderInv, GoalsAgree
<1>5. \A r \in Ranks : /\ epoch'[r] = epoch'[0] /\ taken'[r] = taken'[0]
                       /\ Goal(r)' = Goal(0)'
    BY <1>1, <1>3, <1>4 DEF TakenAgree, Goal
<1>6. GoalsAgree'
    BY <1>5 DEF GoalsAgree
<1>7. OneCollective'
    <2>1. \A r \in Ranks : WindowIsFull(r)' <=> WindowIsFull(0)'
        <3> SUFFICES ASSUME NEW r \in Ranks PROVE WindowIsFull(r)' <=> WindowIsFull(0)'
            OBVIOUS
        <3>1. All(r)' = All(0)'
            BY <1>1, <1>3 DEF All, CountsAgree
        <3>2. Smallest(All(r))' = Smallest(All(0))'
            BY <3>1 DEF Smallest
        <3> QED BY <3>2 DEF WindowIsFull
    <2>2. \E op, e : GoesOn(0, Goal(0), op, e)'
        BY DEF GoesOn
    <2>3. PICK op, e : GoesOn(0, Goal(0), op, e)'
        BY <2>2
    <2>4. \A r \in Ranks : GoesOn(r, Goal(r), op, e)'
        BY <1>1, <1>5, <2>1, <2>3 DEF GoesOn, FirstOp
    <2>5. \A r \in Ranks : Expects(r, op, e)'
        BY <1>1, <2>4 DEF Expects
    <2> QED BY <2>5 DEF OneCollective
<1> QED BY <1>2, <1>3, <1>6, <1>7 DEF LoaderInv

-----------------------------------------------------------------------------
LEMMA TypesInit == Init => SyncTypeOK /\ PostedWaits /\ IterateTrains
<1> SUFFICES ASSUME Init PROVE SyncTypeOK /\ PostedWaits /\ IterateTrains
    OBVIOUS
<1>1. SyncTypeOK
    BY DEF Init, SyncTypeOK, OverRanks
<1>2. PostedWaits /\ IterateTrains
    BY DEF Init, PostedWaits, IterateTrains
<1> QED BY <1>1, <1>2

LEMMA LoaderInit ==
    ASSUME Init
    PROVE  LoaderInv
<1>1. \A r \in Ranks : /\ pc[r] = "idle" /\ epoch[r] = 0 /\ taken[r] = 0
                       /\ ~error[r] /\ counts[r] = <<>>
    BY DEF Init
<1>2. ErrorsAreTold /\ CountsAgree /\ TakenAgree
    BY <1>1 DEF ErrorsAreTold, CountsAgree, TakenAgree
<1>3. GoalsAgree
    BY <1>1 DEF GoalsAgree, Training
<1>4. OneCollective
    <2>1. \A r \in Ranks : Expects(r, FirstOp, 1)
        BY <1>1 DEF Expects
    <2> QED BY <2>1 DEF OneCollective
<1> QED BY <1>2, <1>3, <1>4 DEF LoaderInv

\* The types, who waits, and what is posted without a loader.
LEMMA TypesStep ==
    ASSUME SyncAssumption, JobsAssumption, job \in Jobs, SyncTypeOK, PostedWaits,
           IterateTrains, [Next]_vars
    PROVE  job' = job /\ SyncTypeOK' /\ PostedWaits' /\ IterateTrains'
<1> USE DEF SyncTypeOK, PostedWaits, IterateTrains
<1>1. CASE UNCHANGED vars
    BY <1>1 DEF vars, OverRanks
<1>2. CASE GrowSource
    BY <1>2 DEF GrowSource, plan, OverRanks
<1>3. CASE ExchangeLengths
    <2>1. 0 \in Ranks /\ pc[0] = "wait" /\ posted[0].op = "length"
        BY <1>3, ExchangeTogether DEF ExchangeLengths
    <2>2. job.use # "iterate"
        BY <2>1
    <2> QED BY <1>3, <2>2 DEF ExchangeLengths, Exchange, OverRanks
<1>4. CASE ExchangeCounts
    <2>1. 0 \in Ranks /\ pc[0] = "wait" /\ posted[0].op = "counts"
        BY <1>4, ExchangeTogether DEF ExchangeCounts
    <2>2. job.use # "iterate"
        BY <2>1
    <2> QED BY <1>4, <2>2 DEF ExchangeCounts, Exchange, OverRanks, plan
<1>5. CASE ExchangeGradients
    BY <1>5 DEF ExchangeGradients, Exchange, OverRanks
<1>6. ASSUME NEW r \in Ranks, Step(r)
      PROVE  job' = job /\ SyncTypeOK' /\ PostedWaits' /\ IterateTrains'
    <2>1. CASE BeginEpoch(r)
        <3>1. SyncTypeOK'
            <4>1. /\ pc' = [pc EXCEPT ![r] = "start"]
                  /\ epoch' = [epoch EXCEPT ![r] = @ + 1]
                  /\ taken' = [taken EXCEPT ![r] = 0]
                  /\ error' = error
                BY <2>1 DEF BeginEpoch
            <4>2. OverRanks(upto)' /\ OverRanks(posted)' /\ OverRanks(counts)'
                BY <2>1 DEF BeginEpoch, OverRanks
            <4> QED BY <4>1, <4>2
        <3>2. job.use # "iterate" /\ job' = job
            BY <2>1 DEF BeginEpoch
        <3>3. PostedWaits'
            BY <2>1 DEF BeginEpoch
        <3> QED BY <3>1, <3>2, <3>3
    <2>2. CASE BeginRaises(r)
        BY <2>2 DEF BeginRaises, Strand, plan, OverRanks
    <2>3. CASE Measure(r)
        BY <2>3 DEF Measure, Posts, OverRanks
    <2>4. CASE Order(r)
        BY <2>4 DEF Order, OverRanks
    <2>5. CASE PlanBatch(r)
        BY <2>5 DEF PlanBatch, OverRanks
    <2>6. CASE PlanRaises(r)
        BY <2>6 DEF PlanRaises, Strand, WantsPlans, plan, OverRanks
    <2>7. CASE PostCount(r)
        BY <2>7 DEF PostCount, Posts, plan, OverRanks
    <2>8. CASE RefusePlans(r)
        BY <2>8 DEF RefusePlans, plan, OverRanks
    <2>9. CASE Keep(r)
        BY <2>9 DEF Keep, OverRanks
    <2>10. CASE Train(r)
        BY <2>10 DEF Train, Posts, plan, OverRanks
    <2>11. CASE EndOrNextWindow(r)
        BY <2>11 DEF EndOrNextWindow, plan, OverRanks
    <2>12. CASE Iterate(r)
        <3>1. SyncTypeOK'
            <4>1. /\ pc' = [pc EXCEPT ![r] = "yield"]
                  /\ epoch' = [epoch EXCEPT ![r] = @ + 1]
                  /\ taken' = [taken EXCEPT ![r] = 0]
                  /\ error' = error
                BY <2>12 DEF Iterate
            <4>2. OverRanks(upto)' /\ OverRanks(posted)' /\ OverRanks(counts)'
                BY <2>12 DEF Iterate, OverRanks
            <4> QED BY <4>1, <4>2
        <3>2. PostedWaits' /\ IterateTrains' /\ job' = job
            BY <2>12 DEF Iterate
        <3> QED BY <3>1, <3>2
    <2> QED BY <1>6, <2>1, <2>2, <2>3, <2>4, <2>5, <2>6, <2>7, <2>8, <2>9, <2>10, <2>11,
               <2>12 DEF Step
<1> QED BY <1>1, <1>2, <1>3, <1>4, <1>5, <1>6 DEF Next

\* Every step keeps all ranks on the way to the same collective.
LEMMA LoaderStep ==
    ASSUME SyncAssumption, SyncTypeOK, PostedWaits, job.use = "loader", CostsAreTold,
           LoaderInv, [Next]_vars
    PROVE  LoaderInv'
<1>1. ASSUME UNCHANGED vars \/ GrowSource PROVE LoaderInv'
    <2>1. /\ job' = job /\ pc' = pc /\ epoch' = epoch /\ taken' = taken /\ upto' = upto
          /\ posted' = posted /\ counts' = counts /\ error' = error
        BY <1>1 DEF GrowSource, plan, vars
    <2>2. \A s \in Ranks : Unmoved(s)
        BY <2>1 DEF Unmoved
    <2>3. \A s \in Ranks : /\ Goal(s)' = Goal(s) /\ (Training(s)' => Training(s))
                           /\ (Running(s)' => Running(s))
                           /\ (Refuses(s)' <=> Refuses(s))
        BY <2>1, <2>2, SameRank
    <2>4. ErrorsAreTold'
        BY <2>1, <2>3 DEF LoaderInv, ErrorsAreTold, Tells
    <2>5. CountsAgree' /\ TakenAgree'
        BY <2>1 DEF LoaderInv, CountsAgree, TakenAgree
    <2>6. GoalsAgree'
        BY <2>1, <2>3 DEF LoaderInv, GoalsAgree
    <2>7. OneCollective'
        <3>1. PICK op, e : \A s \in Ranks : Running(s) => Expects(s, op, e)
            BY DEF LoaderInv, OneCollective
        <3>2. \A s \in Ranks : Expects(s, op, e) => Expects(s, op, e)'
            BY <2>1, <2>2, SameExpects
        <3>3. \A s \in Ranks : Running(s)' => Expects(s, op, e)'
            BY <2>3, <3>1, <3>2
        <3> QED BY <3>3 DEF OneCollective
    <2> QED BY <2>4, <2>5, <2>6, <2>7 DEF LoaderInv
<1>2. CASE ExchangeLengths
    BY <1>2, LengthsKeep
<1>3. CASE ExchangeCounts
    BY <1>3, CountsKeep
<1>4. CASE ExchangeGradients
    BY <1>4, GradientsKeep
<1>5. ASSUME NEW r \in Ranks, Step(r) PROVE LoaderInv'
    <2>1. ~Iterate(r)
        BY DEF Iterate
    <2>2. CASE BeginEpoch(r)
        BY <2>2, BeginKeeps
    <2> QED BY <1>5, <2>1, <2>2, LocalActions DEF Step
<1> QED BY <1>1, <1>2, <1>3, <1>4, <1>5 DEF Next

\* All ranks that still run are on the way to the same collective of the same epoch,
\* whatever they do between two exchanges: _plans, plan_counts, _planning_length and
\* the steps of the training are called in one order by all.
THEOREM SyncSafe == Spec => []SyncInv
<1>1. Init => SyncInv
    BY TypesInit, LoaderInit DEF SyncInv, Init
<1>2. SyncInv /\ [Next]_vars => SyncInv'
    <2> SUFFICES ASSUME SyncInv, [Next]_vars PROVE SyncInv'
        OBVIOUS
    <2>1. job' = job /\ job \in Jobs /\ SyncTypeOK' /\ PostedWaits' /\ IterateTrains'
        BY TypesStep, SyncAssumption, JobsAssumption DEF SyncInv
    <2>2. ASSUME job'.use = "loader", CostsAreTold' PROVE LoaderInv'
        <3>1. job.use = "loader" /\ CostsAreTold
            BY <2>1, <2>2 DEF CostsAreTold
        <3> QED BY <3>1, LoaderStep, SyncAssumption DEF SyncInv
    <2> QED BY <2>1, <2>2 DEF SyncInv
<1> QED BY <1>1, <1>2, PTL DEF Spec

\* The ranks that wait in a collective wait in the same one: a process group never pairs
\* the counts of one rank with the lengths or gradients of another.
THEOREM CollectivesSafe == Spec => [](CostsAreTold => CollectivesMatch)
<1>1. SyncInv => (CostsAreTold => CollectivesMatch)
    <2> SUFFICES ASSUME SyncInv, CostsAreTold, NEW r \in Ranks, NEW s \in Ranks,
                        posted[r] # Unset, posted[s] # Unset
                 PROVE  posted[r].op = posted[s].op
        BY DEF CollectivesMatch
    <2>1. pc[r] = "wait" /\ pc[s] = "wait"
        BY DEF SyncInv, PostedWaits
    <2>2. CASE job.use = "iterate"
        BY <2>1, <2>2 DEF SyncInv, IterateTrains
    <2>3. CASE job.use # "iterate"
        <3>1. job.use = "loader"
            BY <2>3, JobsAssumption DEF SyncInv, JobType
        <3>2. PICK op, e : \A q \in Ranks : Running(q) => Expects(q, op, e)
            BY <3>1 DEF SyncInv, LoaderInv, OneCollective
        <3>3. posted[r].op = op /\ posted[s].op = op
            BY <2>1, <3>2 DEF Running, Expects
        <3> QED BY <3>3
    <2> QED BY <2>2, <2>3
<1>2. Spec => []SyncInv
    BY SyncSafe
<1> QED BY <1>1, <1>2, PTL

-----------------------------------------------------------------------------
\* The file numbers of a Hub repository, sorted and each once.
Rising(s) == \A k \in 1 .. Len(s) - 1 : s[k] < s[k + 1]

\* A set of naturals has a least member.
LEMMA LeastNatural ==
    ASSUME NEW T \in SUBSET Nat, T # {}
    PROVE  \E n \in T : \A m \in T : n <= m
<1> DEFINE R == OpToRel(<, Nat)
<1>1. IsWellFoundedOn(R, Nat)
    BY NatLessThanWellFounded
<1>2. \E x \in T : \A y \in T : <<y, x>> \notin R
    BY <1>1, WFMin
<1>3. \A x, y \in Nat : x < y => <<x, y>> \in R
    BY DEF OpToRel
<1> HIDE DEF R
<1>4. PICK x \in T : \A y \in T : <<y, x>> \notin R
    BY <1>2
<1>5. \A y \in T : ~(y < x)
    BY <1>3, <1>4
<1> QED BY <1>5

\* A set of naturals that has 0 and every successor of a member has them all.
LEMMA AllNaturals ==
    ASSUME NEW T \in SUBSET Nat, 0 \in T, \A n \in T : n + 1 \in T
    PROVE  T = Nat
<1> SUFFICES ASSUME Nat \ T # {} PROVE FALSE
    OBVIOUS
<1>1. PICK n \in Nat \ T : \A m \in Nat \ T : n <= m
    BY LeastNatural
<1>2. n - 1 \in T
    BY <1>1
<1>3. (n - 1) + 1 \in T
    BY <1>2
<1> QED BY <1>1, <1>3

LEMMA GreatestExists ==
    ASSUME NEW n \in Nat, NEW S \in SUBSET (0 .. n), S # {}
    PROVE  Max(S) \in S /\ \A m \in S : m <= Max(S)
<1> DEFINE T == {m \in Nat : \A k \in S : k <= m}
<1>1. n \in T
    OBVIOUS
<1>2. PICK m \in T : \A k \in T : m <= k
    BY <1>1, LeastNatural
<1>3. m \in S
    <2> SUFFICES ASSUME m \notin S PROVE FALSE
        OBVIOUS
    <2>0. m \in Nat /\ \A k \in S : k <= m
        BY <1>2
    <2>1. \A k \in S : k \in Nat /\ k < m
        BY <2>0
    <2>2. m > 0
        <3>1. PICK k \in S : TRUE
            OBVIOUS
        <3> QED BY <2>0, <2>1, <3>1
    <2>3. m - 1 \in Nat /\ ~(m <= m - 1)
        BY <2>0, <2>2
    <2>4. \A k \in S : k <= m - 1
        BY <2>0, <2>1, <2>2
    <2>5. m - 1 \in T
        BY <2>3, <2>4
    <2> QED BY <1>2, <2>3, <2>5
<1>4. \E x \in S : \A y \in S : x >= y
    BY <1>2, <1>3
<1>5. Max(S) \in S /\ \A y \in S : Max(S) >= y
    BY <1>4 DEF Max
<1> QED BY <1>5

LEMMA SeqMade ==
    ASSUME NEW S, NEW n \in Nat, NEW f \in [1 .. n -> S]
    PROVE  f \in Seq(S)
BY SeqDef

LEMMA SeqMonotone ==
    ASSUME NEW S, NEW T, S \subseteq T, NEW s \in Seq(S)
    PROVE  s \in Seq(T)
<1>1. Len(s) \in Nat /\ s \in [1 .. Len(s) -> S]
    OBVIOUS
<1>2. s \in [1 .. Len(s) -> T]
    BY <1>1
<1> QED BY <1>1, <1>2, SeqMade

LEMMA LeastOfTwo ==
    ASSUME NEW a \in Int, NEW b \in Int
    PROVE  Min({a, b}) = IF a <= b THEN a ELSE b
<1>1. \E x \in {a, b} : \A y \in {a, b} : x <= y
    BY SMT
<1>2. Min({a, b}) \in {a, b} /\ \A y \in {a, b} : Min({a, b}) <= y
    BY <1>1 DEF Min
<1> QED BY <1>2

LEMMA GreatestOfTwo ==
    ASSUME NEW a \in Int, NEW b \in Int
    PROVE  Max({a, b}) = IF a >= b THEN a ELSE b
<1>1. \E x \in {a, b} : \A y \in {a, b} : x >= y
    BY SMT
<1>2. Max({a, b}) \in {a, b} /\ \A y \in {a, b} : Max({a, b}) >= y
    BY <1>1 DEF Max
<1> QED BY <1>2

LEMMA SliceOf ==
    ASSUME NEW S, NEW s \in Seq(S), NEW m \in 0 .. Len(s), NEW n \in m .. Len(s)
    PROVE  /\ SubSeq(s, m + 1, n) \in Seq(S)
           /\ Len(SubSeq(s, m + 1, n)) = n - m
           /\ DOMAIN SubSeq(s, m + 1, n) = 1 .. n - m
           /\ \A k \in 1 .. n - m : SubSeq(s, m + 1, n)[k] = s[m + k]
<1>1. Len(s) \in Nat /\ \A k \in 1 .. Len(s) : s[k] \in S
    OBVIOUS
<1>2. m \in Nat /\ n \in Nat /\ n - m \in Nat /\ m + 1 \in Int /\ n \in Int
    BY <1>1
<1>3. \A k \in m + 1 .. n : s[k] \in S
    BY <1>1, <1>2
<1> DEFINE t == SubSeq(s, m + 1, n)
<1>4. /\ t \in Seq(S) /\ Len(t) = (IF m + 1 <= n THEN n - (m + 1) + 1 ELSE 0)
      /\ \A i \in 1 .. n - (m + 1) + 1 : t[i] = s[(m + 1) + i - 1]
    BY <1>2, <1>3, SubSeqProperties
<1> HIDE DEF t
<1>5. \A k \in 1 .. n - m : k \in 1 .. n - (m + 1) + 1 /\ (m + 1) + k - 1 = m + k
    BY <1>2
<1>6. Len(t) = n - m
    BY <1>2, <1>4
<1>7. DOMAIN t = 1 .. n - m
    BY <1>4, <1>6
<1>8. \A k \in 1 .. n - m : t[k] = s[m + k]
    BY <1>4, <1>5
<1> QED BY <1>4, <1>6, <1>7, <1>8 DEF t

LEMMA Joined ==
    ASSUME NEW S, NEW s \in Seq(S), NEW t \in Seq(S)
    PROVE  /\ s \o t \in Seq(S) /\ Len(s \o t) = Len(s) + Len(t)
           /\ DOMAIN (s \o t) = 1 .. Len(s) + Len(t)
           /\ \A k \in 1 .. Len(s) : (s \o t)[k] = s[k]
           /\ \A k \in 1 .. Len(t) : (s \o t)[Len(s) + k] = t[k]
<1>1. Len(s) \in Nat /\ Len(t) \in Nat
    OBVIOUS
<1>2. /\ s \o t \in Seq(S) /\ Len(s \o t) = Len(s) + Len(t)
      /\ \A i \in 1 .. Len(s) + Len(t) :
            (s \o t)[i] = IF i <= Len(s) THEN s[i] ELSE t[i - Len(s)]
    BY ConcatProperties
<1>3. \A k \in 1 .. Len(s) : k \in 1 .. Len(s) + Len(t) /\ k <= Len(s)
    BY <1>1
<1>4. \A k \in 1 .. Len(t) : /\ Len(s) + k \in 1 .. Len(s) + Len(t)
                               /\ ~(Len(s) + k <= Len(s)) /\ (Len(s) + k) - Len(s) = k
    BY <1>1
<1>5. DOMAIN (s \o t) = 1 .. Len(s) + Len(t)
    BY <1>2
<1>6. \A k \in 1 .. Len(s) : (s \o t)[k] = s[k]
    BY <1>2, <1>3
<1>7. \A k \in 1 .. Len(t) : (s \o t)[Len(s) + k] = t[k]
    BY <1>2, <1>4
<1> QED BY <1>2, <1>5, <1>6, <1>7

-----------------------------------------------------------------------------
\* Two neighbours among the L - m items that follow the first m of L.
LEMMA WithinRest ==
    ASSUME NEW L \in Nat, NEW m \in 0 .. L, NEW k \in 1 .. (L - m) - 1
    PROVE  /\ k \in 1 .. L - m /\ k + 1 \in 1 .. L - m
           /\ m + k \in 1 .. L - 1 /\ m + (k + 1) = (m + k) + 1
OBVIOUS

\* What comes after the files that were read is sorted, and larger than the last of them.
LEMMA AfterRises ==
    ASSUME NEW files \in Seq(Nat), Rising(files), NEW read \in Seq(Nat)
    PROVE  /\ After(files, read) \in Seq(Nat) /\ Rising(After(files, read))
           /\ read # <<>> => \A k \in DOMAIN After(files, read) : read[Len(read)] < After(files, read)[k]
<1>1. CASE read = <<>>
    BY <1>1 DEF After
<1>2. CASE read # <<>>
    <2> DEFINE last == read[Len(read)]
               passed == {k \in DOMAIN files : files[k] <= last}
               n == Max(passed \cup {0})
               rest == SubSeq(files, n + 1, Len(files))
    <2>1. After(files, read) = rest
        BY <1>2 DEF After, Last
    <2>2. last \in Nat /\ Len(files) \in Nat /\ DOMAIN files = 1 .. Len(files)
          /\ \A k \in 1 .. Len(files) : files[k] \in Nat
        BY <1>2
    <2>3. n \in passed \cup {0} /\ \A m \in passed \cup {0} : m <= n
        <3> DEFINE S == passed \cup {0}
        <3>1. S \in SUBSET (0 .. Len(files)) /\ S # {} /\ n = Max(S)
            BY <2>2
        <3> HIDE DEF S, n
        <3>2. Max(S) \in S /\ \A m \in S : m <= Max(S)
            BY <2>2, <3>1, GreatestExists
        <3> QED BY <3>1, <3>2 DEF S
    <2>4. n \in 0 .. Len(files)
        BY <2>2, <2>3
    <2> HIDE DEF n, last
    <2>5. \A k \in DOMAIN files : last < files[k] \/ k <= n
        <3> SUFFICES ASSUME NEW k \in DOMAIN files, ~(last < files[k]) PROVE k <= n
            OBVIOUS
        <3>1. files[k] <= last
            BY <2>2
        <3>2. k \in passed
            BY <3>1
        <3> QED BY <2>3, <3>2
    <2>6. /\ rest \in Seq(Nat) /\ Len(rest) = Len(files) - n /\ DOMAIN rest = 1 .. Len(files) - n
          /\ \A k \in 1 .. Len(files) - n : rest[k] = files[n + k]
        <3>1. Len(files) \in n .. Len(files)
            BY <2>2, <2>4
        <3> HIDE DEF passed
        <3>2. /\ rest \in Seq(Nat) /\ Len(rest) = Len(files) - n
              /\ DOMAIN rest = 1 .. Len(files) - n
              /\ \A k \in 1 .. Len(files) - n : rest[k] = files[n + k]
            BY <2>4, <3>1, SliceOf
        <3> QED BY <3>2
    <2> HIDE DEF rest, passed
    <2>7. \A k \in 1 .. Len(files) - n : last < rest[k]
        <3> TAKE k \in 1 .. Len(files) - n
        <3>1. n + k \in DOMAIN files /\ ~(n + k <= n)
            BY <2>2, <2>4
        <3> QED BY <2>5, <2>6, <3>1
    <2>8. \A k \in 1 .. (Len(files) - n) - 1 : rest[k] < rest[k + 1]
        <3> TAKE k \in 1 .. (Len(files) - n) - 1
        <3>1. k \in 1 .. Len(files) - n /\ k + 1 \in 1 .. Len(files) - n
              /\ n + k \in 1 .. Len(files) - 1 /\ n + (k + 1) = (n + k) + 1
            <4> DEFINE size == Len(files)
            <4>1. size \in Nat /\ n \in 0 .. size /\ k \in 1 .. (size - n) - 1
                BY <2>2, <2>4
            <4> HIDE DEF size
            <4>2. /\ k \in 1 .. size - n /\ k + 1 \in 1 .. size - n
                  /\ n + k \in 1 .. size - 1 /\ n + (k + 1) = (n + k) + 1
                BY <4>1, WithinRest
            <4> QED BY <4>2 DEF size
        <3>2. rest[k] = files[n + k] /\ rest[k + 1] = files[(n + k) + 1]
            BY <2>6, <3>1
        <3>3. files[n + k] < files[(n + k) + 1]
            BY <3>1 DEF Rising
        <3> QED BY <3>2, <3>3
    <2> QED BY <2>1, <2>6, <2>7, <2>8 DEF Rising, last
<1> QED BY <1>1, <1>2

\* A sorted page after what was read keeps it sorted.
LEMMA JoinRises ==
    ASSUME NEW read \in Seq(Nat), Rising(read), NEW page \in Seq(Nat), Rising(page),
           read # <<>> => \A k \in DOMAIN page : read[Len(read)] < page[k]
    PROVE  Rising(read \o page)
<1>1. /\ Len(read) \in Nat /\ Len(page) \in Nat
      /\ DOMAIN page = 1 .. Len(page)
    OBVIOUS
<1>2. /\ Len(read \o page) = Len(read) + Len(page)
      /\ \A k \in 1 .. Len(read) : (read \o page)[k] = read[k]
      /\ \A k \in 1 .. Len(page) : (read \o page)[Len(read) + k] = page[k]
    BY Joined
<1> DEFINE all == read \o page
           L == Len(read)
           n == Len(page)
<1>3. Len(all) = L + n
      /\ (\A k \in 1 .. L : all[k] = read[k]) /\ (\A k \in 1 .. n : all[L + k] = page[k])
    BY <1>2
<1> HIDE DEF all
<1>4. ASSUME NEW k \in 1 .. (L + n) - 1 PROVE all[k] < all[k + 1]
    <2>1. CASE k < L
        <3>1. k \in 1 .. L - 1 /\ k \in 1 .. L /\ k + 1 \in 1 .. L
            BY <1>1, <2>1
        <3> QED BY <1>3, <3>1 DEF Rising
    <2>2. CASE k = L
        <3>1. k \in 1 .. L /\ 1 \in 1 .. n /\ 1 \in DOMAIN page /\ read # <<>>
            BY <1>1, <2>2
        <3>2. all[k] = read[L] /\ all[k + 1] = page[1]
            BY <1>3, <2>2, <3>1
        <3> QED BY <3>1, <3>2
    <2>3. CASE k > L
        <3>1. PICK j \in 1 .. n - 1 : k = L + j
            <4>1. k - L \in 1 .. n - 1 /\ k = L + (k - L)
                BY <1>1, <2>3
            <4> QED BY <4>1
        <3>2. j \in 1 .. n /\ j + 1 \in 1 .. n /\ k + 1 = L + (j + 1)
            BY <1>1, <3>1
        <3>3. all[k] = page[j] /\ all[k + 1] = page[j + 1]
            BY <1>3, <3>1, <3>2
        <3> QED BY <3>1, <3>3 DEF Rising
    <2> QED BY <1>1, <2>1, <2>2, <2>3
<1> QED BY <1>3, <1>4 DEF Rising, all

LEMMA PageRises ==
    ASSUME NEW rest \in Seq(Nat), Rising(rest), NEW n \in 0 .. Len(rest)
    PROVE  /\ SubSeq(rest, 1, n) \in Seq(Nat) /\ Rising(SubSeq(rest, 1, n))
           /\ \A k \in DOMAIN SubSeq(rest, 1, n) :
                k \in DOMAIN rest /\ SubSeq(rest, 1, n)[k] = rest[k]
<1>1. Len(rest) \in Nat /\ n \in Nat /\ 0 \in 0 .. Len(rest) /\ n \in 0 .. Len(rest) /\ 0 + 1 = 1
      /\ n - 0 = n /\ \A k \in 1 .. n : 0 + k = k
    OBVIOUS
<1>2. /\ SubSeq(rest, 0 + 1, n) \in Seq(Nat) /\ Len(SubSeq(rest, 0 + 1, n)) = n - 0
      /\ DOMAIN SubSeq(rest, 0 + 1, n) = 1 .. n - 0
      /\ \A k \in 1 .. n - 0 : SubSeq(rest, 0 + 1, n)[k] = rest[0 + k]
    BY <1>1, SliceOf
<1> DEFINE page == SubSeq(rest, 1, n)
<1>3. /\ page \in Seq(Nat) /\ Len(page) = n /\ DOMAIN page = 1 .. n
      /\ \A k \in 1 .. n : page[k] = rest[k]
    BY <1>1, <1>2
<1> HIDE DEF page
<1>4. \A k \in 1 .. n : k \in 1 .. Len(rest)
    BY <1>1
<1>5. \A k \in 1 .. n - 1 : page[k] < page[k + 1]
    <2> TAKE k \in 1 .. n - 1
    <2>1. k \in 1 .. n /\ k + 1 \in 1 .. n /\ k \in 1 .. Len(rest) - 1
        BY <1>1
    <2> QED BY <1>3, <2>1 DEF Rising
<1> QED BY <1>3, <1>4, <1>5 DEF Rising, page

-----------------------------------------------------------------------------
\* Who lists has the lock and no names, and there is no list: only it writes one.
HubInv ==
    /\ revision \in DOMAIN Revisions
    /\ listing = [h \in Hosts |-> listing[h]] /\ names = [h \in Hosts |-> names[h]]
    /\ \A h \in Hosts :
        /\ listing[h].pc \in {"idle", "read", "page", "check", "write", "replace"}
        /\ listing[h].pc = "idle" => listing[h] = Resting
        /\ listing[h].pc # "idle" => lister = h /\ names[h] = NoList
        /\ listing[h].pc \in {"page", "check", "write", "replace"} =>
              listed = NoList /\ listing[h].files \in Seq(Nat) /\ Rising(listing[h].files)
        /\ listing[h].pc = "replace" => draft = listing[h].files
    /\ \A h \in Hosts : names[h] # NoList => names[h] = listed
    /\ listed # NoList => Rising(listed)

LEMMA HubInit == HInit => HubInv
<1> SUFFICES ASSUME HInit PROVE HubInv
    OBVIOUS
<1>1. 1 \in DOMAIN Revisions
    <2>1. Revisions \in Seq(Seq(Nat)) /\ Revisions # <<>>
        BY HubFilesAssumption
    <2> QED BY <2>1
<1> QED BY <1>1 DEF HInit, HubInv, Resting

\* A step of host h that keeps the list, its lock aside.
LEMMA HubKeeps ==
    ASSUME HubInv, NEW h \in Hosts, NEW call, ListStep(h, call), lister = h, lister' = h,
           UNCHANGED <<listed, names>>, draft' = draft \/ listing[h].pc = "write",
           call.pc \in {"page", "check", "write", "replace"},
           listed = NoList, names[h] = NoList, call.files \in Seq(Nat), Rising(call.files),
           call.pc = "replace" => draft' = call.files
    PROVE  HubInv'
<1>1. /\ listing' = [listing EXCEPT ![h] = call] /\ listing = [g \in Hosts |-> listing[g]]
      /\ revision' = revision
    BY DEF ListStep, HubInv
<1>2. listing'[h] = call /\ (\A g \in Hosts \ {h} : listing'[g] = listing[g])
      /\ listing' = [g \in Hosts |-> listing'[g]]
    BY <1>1
<1>3. \A g \in Hosts \ {h} : listing[g].pc = "idle"
    BY DEF HubInv
<1> QED BY <1>1, <1>2, <1>3 DEF HubInv

\* A step of host h that lets the lock go.
LEMMA HubLeaves ==
    ASSUME HubInv, NEW h \in Hosts, ListStep(h, Resting), lister = h,
           names' = [names EXCEPT ![h] = names'[h]],
           listed = NoList \/ listed' = listed,
           listed' # NoList => Rising(listed'),
           names'[h] # NoList => names'[h] = listed'
    PROVE  HubInv'
<1>1. /\ listing' = [listing EXCEPT ![h] = Resting] /\ listing = [g \in Hosts |-> listing[g]]
      /\ names = [g \in Hosts |-> names[g]]
      /\ revision' = revision
    BY DEF ListStep, HubInv
<1>2. /\ listing'[h] = Resting /\ (\A g \in Hosts \ {h} : listing'[g] = listing[g])
      /\ listing' = [g \in Hosts |-> listing'[g]]
      /\ (\A g \in Hosts \ {h} : names'[g] = names[g]) /\ names' = [g \in Hosts |-> names'[g]]
    BY <1>1
<1>3. \A g \in Hosts : listing'[g] = Resting
    <2>1. \A g \in Hosts \ {h} : listing[g] = Resting
        BY DEF HubInv
    <2> QED BY <1>2, <2>1
<1>4. \A g \in Hosts : names'[g] # NoList => names'[g] = listed'
    <2>1. \A g \in Hosts : names[g] # NoList => names[g] = listed
        BY DEF HubInv
    <2> QED BY <1>2, <2>1
<1> QED BY <1>1, <1>2, <1>3, <1>4 DEF HubInv, Resting

LEMMA HubStep ==
    ASSUME HubInv, [HNext]_hvars
    PROVE  HubInv'
<1>1. CASE UNCHANGED hvars
    BY <1>1 DEF hvars, HubInv
<1>2. CASE Commit
    <2>1. revision + 1 \in DOMAIN Revisions
        <3>1. Revisions \in Seq(Seq(Nat)) /\ Len(Revisions) \in Nat
              /\ DOMAIN Revisions = 1 .. Len(Revisions)
            BY HubFilesAssumption
        <3> QED BY <1>2, <3>1 DEF Commit, HubInv
    <2> QED BY <1>2, <2>1 DEF Commit, HubInv
<1>3. ASSUME NEW h \in Hosts, BeginList(h) PROVE HubInv'
    <2>1. /\ listing' = [listing EXCEPT ![h] = [pc |-> "read"]]
          /\ listing = [g \in Hosts |-> listing[g]] /\ listing[h] = Resting
          /\ names[h] = NoList /\ lister = NoList /\ lister' = h
          /\ UNCHANGED <<revision, listed, draft, names>>
        BY <1>3 DEF BeginList, ListStep, HubInv
    <2>2. listing'[h] = [pc |-> "read"] /\ (\A g \in Hosts \ {h} : listing'[g] = listing[g])
          /\ listing' = [g \in Hosts |-> listing'[g]]
        BY <2>1
    <2>3. \A g \in Hosts : listing[g].pc = "idle"
        BY <2>1, HubFilesAssumption DEF HubInv
    <2> QED BY <2>1, <2>2, <2>3 DEF HubInv
<1>4. ASSUME NEW h \in Hosts, ReadList(h) PROVE HubInv'
    <2>1. /\ listing[h].pc = "read" /\ lister = h /\ names[h] = NoList
          /\ names = [g \in Hosts |-> names[g]] /\ UNCHANGED <<listed, draft>>
        BY <1>4 DEF ReadList, HubInv
    <2>2. CASE listed # NoList
        <3>1. ListStep(h, Resting) /\ names' = [names EXCEPT ![h] = listed]
            BY <1>4, <2>2 DEF ReadList, Have
        <3>2. names'[h] = listed /\ names' = [names EXCEPT ![h] = names'[h]]
            BY <2>1, <3>1
        <3>3. Rising(listed)
            BY <2>2 DEF HubInv
        <3> QED BY <2>1, <3>1, <3>2, <3>3, HubLeaves
    <2>3. CASE listed = NoList
        <3> DEFINE call == [pc |-> "page", files |-> <<>>]
        <3>1. ListStep(h, call) /\ UNCHANGED <<lister, names>>
            BY <1>4, <2>3 DEF ReadList
        <3>2. call.pc = "page" /\ call.files \in Seq(Nat) /\ Rising(call.files)
            BY DEF Rising
        <3> HIDE DEF call
        <3> QED BY <2>1, <2>3, <3>1, <3>2, HubKeeps
    <2> QED BY <2>2, <2>3
<1>5. ASSUME NEW h \in Hosts, NextPage(h) PROVE HubInv'
    <2> DEFINE read == listing[h].files
               rest == After(Revisions[revision], read)
               n == Min({Len(rest), PageSize})
               page == SubSeq(rest, 1, n)
               next == IF Len(rest) > PageSize THEN "page" ELSE "check"
               call == [pc |-> next, files |-> read \o page]
    <2>1. /\ listing[h].pc = "page" /\ lister = h /\ names[h] = NoList /\ listed = NoList
          /\ read \in Seq(Nat) /\ Rising(read)
        BY <1>5 DEF NextPage, HubInv
    <2>2. ListStep(h, call) /\ UNCHANGED <<listed, draft, lister, names>>
        BY <1>5 DEF NextPage
    <2>3. Revisions[revision] \in Seq(Nat) /\ Rising(Revisions[revision])
        BY HubFilesAssumption DEF HubInv, Rising
    <2>4. /\ rest \in Seq(Nat) /\ Rising(rest)
          /\ read # <<>> => \A k \in DOMAIN rest : read[Len(read)] < rest[k]
        <3> HIDE DEF read
        <3> QED BY <2>1, <2>3, AfterRises
    <2> HIDE DEF rest, read
    <2>5. n \in 0 .. Len(rest)
        <3>1. Len(rest) \in Nat /\ PageSize \in Nat
            BY <2>4, HubFilesAssumption
        <3>2. n = IF Len(rest) <= PageSize THEN Len(rest) ELSE PageSize
            BY <3>1, LeastOfTwo
        <3> QED BY <3>1, <3>2
    <2> HIDE DEF n
    <2>6. /\ page \in Seq(Nat) /\ Rising(page)
          /\ \A k \in DOMAIN page : k \in DOMAIN rest /\ page[k] = rest[k]
        BY <2>4, <2>5, PageRises
    <2> HIDE DEF page
    <2>7. read \o page \in Seq(Nat) /\ Rising(read \o page)
        BY <2>1, <2>4, <2>6, JoinRises
    <2>8. call.pc \in {"page", "check"} /\ call.files \in Seq(Nat) /\ Rising(call.files)
        BY <2>7
    <2> HIDE DEF call
    <2> QED BY <2>1, <2>2, <2>8, HubKeeps
<1>6. ASSUME NEW h \in Hosts, CheckList(h) PROVE HubInv'
    <2>1. /\ listing[h].pc = "check" /\ lister = h /\ names[h] = NoList /\ listed = NoList
          /\ listing[h].files \in Seq(Nat) /\ Rising(listing[h].files)
          /\ names = [g \in Hosts |-> names[g]]
          /\ UNCHANGED <<listed, draft, names>>
        BY <1>6 DEF CheckList, HubInv
    <2>2. CASE ListStep(h, [listing[h] EXCEPT !.pc = "write"]) /\ UNCHANGED lister
        <3> DEFINE call == [listing[h] EXCEPT !.pc = "write"]
        <3>1. call.files = listing[h].files /\ call.pc \in {"write", call.pc}
            OBVIOUS
        <3>2. call.pc = "write"
            BY <2>1
        <3> HIDE DEF call
        <3> QED BY <2>1, <2>2, <3>1, <3>2, HubKeeps DEF call
    <2>3. CASE ListStep(h, Resting)
        <3>1. names' = [names EXCEPT ![h] = names'[h]] /\ names'[h] = NoList
            BY <2>1
        <3> QED BY <2>1, <2>3, <3>1, HubLeaves
    <2> QED BY <1>6, <2>2, <2>3 DEF CheckList
<1>7. ASSUME NEW h \in Hosts, WriteDraft(h) PROVE HubInv'
    <2> DEFINE call == [listing[h] EXCEPT !.pc = "replace"]
    <2>1. /\ listing[h].pc = "write" /\ lister = h /\ names[h] = NoList /\ listed = NoList
          /\ listing[h].files \in Seq(Nat) /\ Rising(listing[h].files)
          /\ draft' = listing[h].files /\ UNCHANGED <<listed, lister, names>>
          /\ ListStep(h, call)
        BY <1>7 DEF WriteDraft, HubInv
    <2>2. call.files = listing[h].files /\ call.pc = "replace"
        BY <2>1
    <2> HIDE DEF call
    <2> QED BY <2>1, <2>2, HubKeeps
<1>8. ASSUME NEW h \in Hosts, ReplaceList(h) PROVE HubInv'
    <2>1. /\ listing[h].pc = "replace" /\ lister = h /\ listed = NoList
          /\ Rising(listing[h].files) /\ draft = listing[h].files
          /\ names = [g \in Hosts |-> names[g]]
          /\ listed' = draft /\ names' = [names EXCEPT ![h] = listing[h].files]
          /\ ListStep(h, Resting)
        BY <1>8 DEF ReplaceList, Have, HubInv
    <2>2. names'[h] = listing[h].files /\ names' = [names EXCEPT ![h] = names'[h]]
        BY <2>1
    <2> QED BY <2>1, <2>2, HubLeaves
<1>9. ASSUME NEW h \in Hosts, DieListing(h) PROVE HubInv'
    <2>1. /\ lister = h /\ names[h] = NoList /\ names = [g \in Hosts |-> names[g]]
          /\ listing' = [listing EXCEPT ![h] = Resting]
          /\ listing = [g \in Hosts |-> listing[g]]
          /\ UNCHANGED <<revision, listed, draft, names>>
        BY <1>9 DEF DieListing, HubInv
    <2>2. \A g \in Hosts \ {h} : listing[g] = Resting
        BY <2>1 DEF HubInv
    <2>3. \A g \in Hosts : listing'[g] = Resting
        BY <2>1, <2>2
    <2> QED BY <2>1, <2>3 DEF HubInv, Resting
<1>10. ASSUME NEW h \in Hosts, Restart(h) PROVE HubInv'
    <2>1. /\ names[h] # NoList /\ names = [g \in Hosts |-> names[g]]
          /\ names' = [names EXCEPT ![h] = NoList]
          /\ UNCHANGED <<revision, listed, draft, lister, listing>>
        BY <1>10 DEF Restart, HubInv
    <2>2. names'[h] = NoList /\ (\A g \in Hosts \ {h} : names'[g] = names[g])
          /\ names' = [g \in Hosts |-> names'[g]]
        BY <2>1
    <2> QED BY <2>1, <2>2 DEF HubInv
<1> QED BY <1>1, <1>2, <1>3, <1>4, <1>5, <1>6, <1>7, <1>8, <1>9, <1>10 DEF HNext

LEMMA HubAgrees == HubInv => ListsAgree
BY DEF HubInv, ListsAgree, Rising

-----------------------------------------------------------------------------
(* TabularParts: totals of counts, groups of rows and shares of them.      *)

\* The function that Totals defines, as far as the first m counts.
Adds(sizes, m, f) ==
    f = [n \in 0 .. m |-> IF n = 0 THEN 0 ELSE f[n - 1] + sizes[n]]

LEMMA TotalsChosen ==
    ASSUME NEW sizes
    PROVE  Totals(sizes) = CHOOSE f : Adds(sizes, Len(sizes), f)
BY DEF Totals, Adds

LEMMA AddsExtended ==
    ASSUME NEW sizes, NEW m \in Nat, NEW f, Adds(sizes, m, f)
    PROVE  \E g : Adds(sizes, m + 1, g)
<1> DEFINE g == [n \in 0 .. m + 1 |-> IF n = m + 1 THEN f[m] + sizes[m + 1] ELSE f[n]]
<1>1. \A n \in 0 .. m : f[n] = IF n = 0 THEN 0 ELSE f[n - 1] + sizes[n]
    BY DEF Adds
<1>2. \A n \in 0 .. m : g[n] = f[n]
    OBVIOUS
<1>3. g[m + 1] = f[m] + sizes[m + 1]
    OBVIOUS
<1> HIDE DEF g
<1>4. ASSUME NEW n \in 0 .. m + 1
      PROVE  g[n] = IF n = 0 THEN 0 ELSE g[n - 1] + sizes[n]
    <2>1. CASE n = m + 1
        <3>1. n # 0 /\ n - 1 = m /\ g[m] = f[m]
            BY <1>2, <2>1
        <3> QED BY <1>3, <2>1, <3>1
    <2>2. CASE n # m + 1 /\ n # 0
        <3>1. n \in 0 .. m /\ n - 1 \in 0 .. m
            BY <2>2
        <3>2. g[n] = f[n] /\ g[n - 1] = f[n - 1]
            BY <1>2, <3>1
        <3> QED BY <1>1, <2>2, <3>1, <3>2
    <2>3. CASE n = 0
        <3>1. n \in 0 .. m
            BY <2>3
        <3> QED BY <1>1, <1>2, <2>3, <3>1
    <2> QED BY <2>1, <2>2, <2>3
<1>5. g = [n \in 0 .. m + 1 |-> g[n]]
    BY DEF g
<1>6. Adds(sizes, m + 1, g)
    BY <1>4, <1>5 DEF Adds
<1> QED BY <1>6

LEMMA AddsExists ==
    ASSUME NEW sizes, NEW m \in Nat
    PROVE  \E f : Adds(sizes, m, f)
<1> DEFINE T == {n \in Nat : \E f : Adds(sizes, n, f)}
<1>1. 0 \in T
    <2>1. Adds(sizes, 0, [n \in 0 .. 0 |-> 0])
        BY DEF Adds
    <2> QED BY <2>1
<1>2. \A n \in T : n + 1 \in T
    BY AddsExtended
<1> HIDE DEF T
<1>3. T = Nat
    <2>1. T \subseteq Nat
        BY DEF T
    <2> QED BY <1>1, <1>2, <2>1, AllNaturals
<1> QED BY <1>3 DEF T

LEMMA TotalsAre ==
    ASSUME NEW sizes \in Seq(Nat)
    PROVE  /\ Totals(sizes)[0] = 0
           /\ \A n \in 1 .. Len(sizes) : Totals(sizes)[n] = Totals(sizes)[n - 1] + sizes[n]
           /\ \A n \in 0 .. Len(sizes) : Totals(sizes)[n] \in Nat
<1> DEFINE L == Len(sizes)
           f == Totals(sizes)
<1>1. L \in Nat /\ \A n \in 1 .. L : sizes[n] \in Nat
    OBVIOUS
<1>2. Adds(sizes, L, f)
    BY <1>1, AddsExists, TotalsChosen
<1> HIDE DEF f
<1>3. \A n \in 0 .. L : f[n] = IF n = 0 THEN 0 ELSE f[n - 1] + sizes[n]
    BY <1>2 DEF Adds
<1> HIDE DEF L
<1>4. f[0] = 0
    BY <1>1, <1>3
<1>5. \A n \in 1 .. L : f[n] = f[n - 1] + sizes[n]
    BY <1>1, <1>3
<1> DEFINE T == {n \in Nat : n <= L => f[n] \in Nat}
<1>6. 0 \in T
    BY <1>4
<1>7. ASSUME NEW n \in T PROVE n + 1 \in T
    <2>1. CASE n + 1 <= L
        <3>1. n \in Nat /\ n + 1 \in 1 .. L /\ (n + 1) - 1 = n /\ f[n] \in Nat
            BY <1>1, <2>1
        <3> QED BY <1>1, <1>5, <3>1
    <2>2. CASE ~(n + 1 <= L)
        BY <2>2
    <2> QED BY <2>1, <2>2
<1> HIDE DEF T
<1>8. T = Nat
    <2>1. T \subseteq Nat
        BY DEF T
    <2> QED BY <1>6, <1>7, <2>1, AllNaturals
<1>9. \A n \in 0 .. L : f[n] \in Nat
    BY <1>1, <1>8 DEF T
<1> QED BY <1>4, <1>5, <1>9 DEF f, L

LEMMA TotalsGrow ==
    ASSUME NEW sizes \in Seq(Nat), NEW m \in 0 .. Len(sizes), NEW n \in m .. Len(sizes)
    PROVE  Totals(sizes)[m] <= Totals(sizes)[n]
<1> DEFINE T == {k \in Nat : m + k <= Len(sizes) => Totals(sizes)[m] <= Totals(sizes)[m + k]}
<1>1. Len(sizes) \in Nat /\ m \in Nat /\ \A k \in 1 .. Len(sizes) : sizes[k] \in Nat
    OBVIOUS
<1>2. 0 \in T
    <2>1. m + 0 = m /\ Totals(sizes)[m] \in Nat
        BY <1>1, TotalsAre
    <2> QED BY <2>1
<1>3. ASSUME NEW k \in T PROVE k + 1 \in T
    <2>1. CASE m + (k + 1) <= Len(sizes)
        <3>1. k \in Nat /\ m + (k + 1) \in 1 .. Len(sizes) /\ (m + (k + 1)) - 1 = m + k
              /\ m + k <= Len(sizes) /\ m + k \in 0 .. Len(sizes)
            BY <1>1, <2>1
        <3>2. Totals(sizes)[m + (k + 1)] = Totals(sizes)[m + k] + sizes[m + (k + 1)]
            BY <3>1, TotalsAre
        <3>3. /\ Totals(sizes)[m] \in Nat /\ Totals(sizes)[m + k] \in Nat
              /\ sizes[m + (k + 1)] \in Nat /\ Totals(sizes)[m] <= Totals(sizes)[m + k]
            BY <1>1, <3>1, TotalsAre
        <3> QED BY <3>1, <3>2, <3>3
    <2>2. CASE ~(m + (k + 1) <= Len(sizes))
        BY <2>2
    <2> QED BY <2>1, <2>2
<1> HIDE DEF T
<1>4. T = Nat
    <2>1. T \subseteq Nat
        BY DEF T
    <2> QED BY <1>2, <1>3, <2>1, AllNaturals
<1>5. n - m \in T /\ m + (n - m) = n /\ n <= Len(sizes)
    BY <1>1, <1>4
<1> QED BY <1>5 DEF T

LEMMA StopsAre ==
    ASSUME NEW sizes \in Seq(Nat)
    PROVE  /\ DOMAIN Stops(sizes) = 1 .. Len(sizes) /\ Stops(sizes) \in Seq(Nat)
           /\ Len(Stops(sizes)) = Len(sizes)
           /\ \A n \in 1 .. Len(sizes) : Stops(sizes)[n] = Totals(sizes)[n]
           /\ \A n \in 1 .. Len(sizes) + 1 : StartAt(Stops(sizes), n) = Totals(sizes)[n - 1]
<1>1. Len(sizes) \in Nat /\ DOMAIN sizes = 1 .. Len(sizes)
    OBVIOUS
<1>2. /\ DOMAIN Stops(sizes) = 1 .. Len(sizes)
      /\ \A n \in 1 .. Len(sizes) : Stops(sizes)[n] = Totals(sizes)[n]
    BY <1>1 DEF Stops
<1>3. Stops(sizes) \in [1 .. Len(sizes) -> Nat]
    <2>1. \A n \in 1 .. Len(sizes) : Totals(sizes)[n] \in Nat
        BY <1>1, TotalsAre
    <2> QED BY <1>1, <2>1 DEF Stops
<1>4. Stops(sizes) \in Seq(Nat) /\ Len(Stops(sizes)) = Len(sizes)
    <2>1. Stops(sizes) \in Seq(Nat)
        BY <1>1, <1>3, SeqMade
    <2> QED BY <1>1, <1>2, <2>1
<1>5. ASSUME NEW n \in 1 .. Len(sizes) + 1
      PROVE  StartAt(Stops(sizes), n) = Totals(sizes)[n - 1]
    <2>1. CASE n = 1
        <3>1. n - 1 = 0 /\ Totals(sizes)[0] = 0
            BY <2>1, TotalsAre
        <3> QED BY <2>1, <3>1 DEF StartAt
    <2>2. CASE n # 1
        <3>1. n - 1 \in 1 .. Len(sizes)
            BY <1>1, <2>2
        <3> QED BY <1>2, <2>2, <3>1 DEF StartAt
    <2> QED BY <2>1, <2>2
<1> QED BY <1>2, <1>4, <1>5

\* A number below the total lies between the totals of one place only.
LEMMA PlaceExists ==
    ASSUME NEW sizes \in Seq(Nat), NEW i \in Nat, i < Totals(sizes)[Len(sizes)]
    PROVE  \E n \in 1 .. Len(sizes) : Totals(sizes)[n - 1] <= i /\ i < Totals(sizes)[n]
<1> DEFINE T == {n \in Nat : n <= Len(sizes) /\ i < Totals(sizes)[n]}
<1>1. Len(sizes) \in Nat /\ Len(sizes) \in T
    OBVIOUS
<1>2. PICK n \in T : \A m \in T : n <= m
    <2>1. T \subseteq Nat /\ T # {}
        BY <1>1
    <2> HIDE DEF T
    <2> QED BY <2>1, LeastNatural
<1>3. n # 0
    <2>1. Totals(sizes)[0] = 0
        BY TotalsAre
    <2> QED BY <1>2, <2>1
<1>4. n \in 1 .. Len(sizes) /\ n - 1 \in 0 .. Len(sizes) /\ n - 1 \in Nat /\ ~(n <= n - 1)
    BY <1>1, <1>2, <1>3
<1>5. ~(i < Totals(sizes)[n - 1])
    BY <1>2, <1>4
<1>6. Totals(sizes)[n - 1] \in Nat
    BY <1>4, TotalsAre
<1> QED BY <1>2, <1>4, <1>5, <1>6

LEMMA PlaceUnique ==
    ASSUME NEW sizes \in Seq(Nat), NEW i \in Nat,
           NEW m \in 1 .. Len(sizes), NEW n \in 1 .. Len(sizes),
           Totals(sizes)[m - 1] <= i, i < Totals(sizes)[m],
           Totals(sizes)[n - 1] <= i, i < Totals(sizes)[n]
    PROVE  m = n
<1>1. Len(sizes) \in Nat /\ m - 1 \in 0 .. Len(sizes) /\ n - 1 \in 0 .. Len(sizes)
      /\ m \in 0 .. Len(sizes) /\ n \in 0 .. Len(sizes)
    OBVIOUS
<1>2. /\ Totals(sizes)[m - 1] \in Nat /\ Totals(sizes)[n - 1] \in Nat
      /\ Totals(sizes)[m] \in Nat /\ Totals(sizes)[n] \in Nat
    BY <1>1, TotalsAre
<1>3. CASE m < n
    <2>1. n - 1 \in m .. Len(sizes)
        BY <1>1, <1>3
    <2>2. Totals(sizes)[m] <= Totals(sizes)[n - 1]
        BY <1>1, <2>1, TotalsGrow
    <2> QED BY <1>2, <2>2
<1>4. CASE n < m
    <2>1. m - 1 \in n .. Len(sizes)
        BY <1>1, <1>4
    <2>2. Totals(sizes)[n] <= Totals(sizes)[m - 1]
        BY <1>1, <2>1, TotalsGrow
    <2> QED BY <1>2, <2>2
<1> QED BY <1>3, <1>4

LEMMA Multiples ==
    ASSUME NEW n \in Nat, NEW a \in Nat, NEW b \in Nat, a <= b
    PROVE  a * n \in Nat /\ b * n \in Nat /\ a * n <= b * n
<1>1. b - a \in Nat
    OBVIOUS
<1>2. (b - a) * n \in Nat /\ a * n \in Nat /\ b * n \in Nat
    BY <1>1
<1>3. (b - a) * n = b * n - a * n
    BY <1>1
<1> QED BY <1>2, <1>3

LEMMA Division ==
    ASSUME NEW a \in Nat, NEW n \in Nat \ {0}
    PROVE  /\ a \div n \in Nat /\ (a \div n) * n <= a /\ a < (a \div n) * n + n
           /\ (a \div n) * n \in Nat
           /\ \A k \in Nat : k * n <= a => k <= a \div n
<1>1. a \div n \in Nat /\ a = n * (a \div n) + (a % n) /\ a % n \in 0 .. n - 1
    OBVIOUS
<1> DEFINE q == a \div n
<1>2. q \in Nat /\ q * n \in Nat /\ q * n = n * q
    BY <1>1
<1>3. q * n <= a /\ a < q * n + n
    BY <1>1, <1>2
<1>4. ASSUME NEW k \in Nat, k * n <= a, ~(k <= q) PROVE FALSE
    <2>1. q + 1 <= k /\ q + 1 \in Nat /\ n \in Nat
        BY <1>2, <1>4
    <2>2. (q + 1) * n <= k * n /\ k * n \in Nat
        BY <2>1, Multiples
    <2>3. (q + 1) * n = q * n + n
        BY <1>2
    <2> QED BY <1>2, <1>3, <1>4, <2>2, <2>3
<1> QED BY <1>2, <1>3, <1>4

LEMMA SizeIs == RowGroupSize \in Nat /\ RowGroupSize > 0
BY TabularPartsAssumption

LEMMA GroupCountIs ==
    ASSUME NEW count \in Nat
    PROVE  /\ GroupCount(count) \in Nat
           /\ \A g \in 1 .. GroupCount(count) : GroupBegin(g) \in Nat /\ GroupBegin(g) < count
           /\ count <= GroupCount(count) * RowGroupSize
           /\ GroupCount(count) * RowGroupSize \in Nat
<1>1. RowGroupSize \in Nat /\ RowGroupSize > 0
    BY SizeIs
<1> DEFINE G == RowGroupSize
           a == count + G - 1
           n == a \div G
<1>2. a \in Nat /\ G \in Nat \ {0}
    BY <1>1
<1>3. n \in Nat /\ n * G <= a /\ a < n * G + G /\ n * G \in Nat
    BY <1>2, Division
<1> HIDE DEF n
<1>4. ASSUME NEW g \in 1 .. n PROVE (g - 1) * G \in Nat /\ (g - 1) * G < count
    <2>1. g \in Nat /\ g - 1 \in Nat /\ g <= n
        BY <1>3
    <2>2. g * G <= n * G /\ g * G \in Nat
        BY <1>1, <1>3, <2>1, Multiples
    <2>3. (g - 1) * G = g * G - G /\ (g - 1) * G \in Nat
        BY <1>1, <2>1
    <2> QED BY <1>1, <1>3, <2>2, <2>3
<1>5. count <= n * G
    BY <1>1, <1>3
<1> QED BY <1>3, <1>4, <1>5 DEF GroupCount, GroupBegin, n

\* All groups are full but the last one.
LEMMA GroupRowsAre ==
    ASSUME NEW count \in Nat
    PROVE  /\ GroupRows(count) \in Seq(Nat) /\ Len(GroupRows(count)) = GroupCount(count)
           /\ DOMAIN GroupRows(count) = 1 .. GroupCount(count)
           /\ \A g \in 1 .. GroupCount(count) :
                GroupRows(count)[g] = IF RowGroupSize <= count - GroupBegin(g) THEN RowGroupSize
                                      ELSE count - GroupBegin(g)
<1>1. RowGroupSize \in Nat /\ RowGroupSize > 0
    BY SizeIs
<1>2. GroupCount(count) \in Nat
      /\ \A g \in 1 .. GroupCount(count) : GroupBegin(g) \in Nat /\ GroupBegin(g) < count
    BY GroupCountIs
<1>3. ASSUME NEW g \in 1 .. GroupCount(count)
      PROVE  /\ GroupRows(count)[g] = IF RowGroupSize <= count - GroupBegin(g) THEN RowGroupSize
                                      ELSE count - GroupBegin(g)
             /\ GroupRows(count)[g] \in Nat
    <2>1. count - GroupBegin(g) \in Int /\ RowGroupSize \in Int /\ count - GroupBegin(g) >= 0
        BY <1>1, <1>2
    <2>2. GroupRows(count)[g] = Min({RowGroupSize, count - GroupBegin(g)})
        BY DEF GroupRows
    <2>3. GroupRows(count)[g] = IF RowGroupSize <= count - GroupBegin(g) THEN RowGroupSize
                                ELSE count - GroupBegin(g)
        BY <2>1, <2>2, LeastOfTwo
    <2> QED BY <1>1, <2>1, <2>3
<1>4. DOMAIN GroupRows(count) = 1 .. GroupCount(count)
    BY DEF GroupRows
<1>5. GroupRows(count) \in [1 .. GroupCount(count) -> Nat]
    BY <1>3 DEF GroupRows
<1>6. GroupRows(count) \in Seq(Nat)
    BY <1>2, <1>5, SeqMade
<1>7. Len(GroupRows(count)) = GroupCount(count)
    BY <1>2, <1>4, <1>6
<1> QED BY <1>3, <1>4, <1>6, <1>7

LEMMA GroupTotals ==
    ASSUME NEW count \in Nat
    PROVE  \A g \in 0 .. GroupCount(count) :
              Totals(GroupRows(count))[g] =
                  IF g * RowGroupSize <= count THEN g * RowGroupSize ELSE count
<1> DEFINE n == GroupCount(count)
           G == RowGroupSize
           f == Totals(GroupRows(count))
           T == {g \in Nat : g <= n => f[g] = IF g * G <= count THEN g * G ELSE count}
<1>1. G \in Nat /\ G > 0 /\ n \in Nat
    BY SizeIs, GroupCountIs
<1>2. 0 \in T
    <2>1. f[0] = 0
        BY GroupRowsAre, TotalsAre
    <2>2. 0 * G = 0
        BY <1>1
    <2> QED BY <2>1, <2>2
<1>3. ASSUME NEW g \in T PROVE g + 1 \in T
    <2>1. CASE g + 1 <= n
        <3>1. g \in Nat /\ g + 1 \in 1 .. n /\ (g + 1) - 1 = g /\ g <= n
            BY <1>1, <2>1
        <3>2. GroupBegin(g + 1) = g * G /\ g * G \in Nat /\ g * G < count
            <4>1. GroupBegin(g + 1) \in Nat /\ GroupBegin(g + 1) < count
                BY <3>1, GroupCountIs
            <4>2. GroupBegin(g + 1) = g * G
                BY <3>1 DEF GroupBegin
            <4> QED BY <4>1, <4>2
        <3>3. f[g] = g * G
            BY <3>1, <3>2
        <3>4. f[g + 1] = f[g] + GroupRows(count)[g + 1]
            <4>1. GroupRows(count) \in Seq(Nat) /\ g + 1 \in 1 .. Len(GroupRows(count))
                BY <3>1, GroupRowsAre
            <4> QED BY <3>1, <4>1, TotalsAre
        <3>5. GroupRows(count)[g + 1] = IF G <= count - g * G THEN G ELSE count - g * G
            BY <3>1, <3>2, GroupRowsAre
        <3>6. (g + 1) * G = g * G + G
            BY <1>1, <3>1
        <3> QED BY <1>1, <3>2, <3>3, <3>4, <3>5, <3>6
    <2>2. CASE ~(g + 1 <= n)
        BY <2>2
    <2> QED BY <2>1, <2>2
<1> HIDE DEF T
<1>4. T = Nat
    <2>1. T \subseteq Nat
        BY DEF T
    <2> QED BY <1>2, <1>3, <2>1, AllNaturals
<1>5. ASSUME NEW g \in 0 .. n PROVE f[g] = IF g * G <= count THEN g * G ELSE count
    <2>1. g \in T /\ g <= n
        BY <1>1, <1>4
    <2> QED BY <2>1 DEF T
<1> QED BY <1>5

\* The total of the groups is the number of rows, and the groups begin where they should.
LEMMA GroupTotal ==
    ASSUME NEW count \in Nat
    PROVE  /\ Totals(GroupRows(count))[GroupCount(count)] = count
           /\ \A g \in 1 .. GroupCount(count) :
                 /\ Totals(GroupRows(count))[g - 1] = GroupBegin(g)
                 /\ Totals(GroupRows(count))[g] = GroupBegin(g) + GroupRows(count)[g]
<1>1. GroupCount(count) \in Nat /\ RowGroupSize \in Nat
    BY GroupCountIs, SizeIs
<1>2. Totals(GroupRows(count))[GroupCount(count)] = count
    <2>1. GroupCount(count) \in 0 .. GroupCount(count)
        BY <1>1
    <2>2. count <= GroupCount(count) * RowGroupSize /\ GroupCount(count) * RowGroupSize \in Nat
        BY GroupCountIs
    <2> QED BY <2>1, <2>2, GroupTotals
<1>3. ASSUME NEW g \in 1 .. GroupCount(count)
      PROVE  /\ Totals(GroupRows(count))[g - 1] = GroupBegin(g)
             /\ Totals(GroupRows(count))[g] = GroupBegin(g) + GroupRows(count)[g]
    <2>1. g - 1 \in 0 .. GroupCount(count) /\ g \in Nat
        BY <1>1
    <2>2. GroupBegin(g) \in Nat /\ GroupBegin(g) < count /\ GroupBegin(g) = (g - 1) * RowGroupSize
        BY GroupCountIs DEF GroupBegin
    <2>3. Totals(GroupRows(count))[g - 1] = GroupBegin(g)
        BY <2>1, <2>2, GroupTotals
    <2>4. GroupRows(count) \in Seq(Nat) /\ g \in 1 .. Len(GroupRows(count))
        BY GroupRowsAre
    <2>5. Totals(GroupRows(count))[g] = Totals(GroupRows(count))[g - 1] + GroupRows(count)[g]
        BY <2>4, TotalsAre
    <2> QED BY <2>3, <2>5
<1> QED BY <1>2, <1>3

LEMMA RemainderIs ==
    ASSUME NEW a \in Int, NEW n \in Nat \ {0}
    PROVE  \E q \in Int : a = q * n + (a % n) /\ a % n \in 0 .. n - 1
<1>1. a \div n \in Int /\ a = n * (a \div n) + (a % n) /\ a % n \in 0 .. n - 1
    OBVIOUS
<1>2. n * (a \div n) = (a \div n) * n
    BY <1>1
<1> QED BY <1>1, <1>2

LEMMA QuotientsDiffer ==
    ASSUME NEW n \in Nat, NEW p \in Int, NEW q \in Int, p < q
    PROVE  p * n \in Int /\ q * n \in Int /\ p * n + n <= q * n
<1>1. q - p - 1 \in Nat
    OBVIOUS
<1>2. (q - p - 1) * n \in Nat
    BY <1>1
<1>3. (q - p - 1) * n = q * n - p * n - n
    OBVIOUS
<1>4. p * n \in Int /\ q * n \in Int
    OBVIOUS
<1> QED BY <1>2, <1>3, <1>4

\* What is so much more than a multiple leaves that as remainder.
LEMMA RemainderUnique ==
    ASSUME NEW a \in Int, NEW n \in Nat \ {0}, NEW q \in Int, NEW m \in 0 .. n - 1, a = q * n + m
    PROVE  a % n = m
<1>1. PICK p \in Int : a = p * n + (a % n) /\ a % n \in 0 .. n - 1
    BY RemainderIs
<1>2. n \in Nat /\ m \in Nat /\ a % n \in Nat /\ m < n /\ a % n < n
    BY <1>1
<1>3. ~(p < q)
    <2> SUFFICES ASSUME p < q PROVE FALSE
        OBVIOUS
    <2>1. p * n \in Int /\ q * n \in Int /\ p * n + n <= q * n
        BY <1>2, QuotientsDiffer
    <2> QED BY <1>1, <1>2, <2>1
<1>4. ~(q < p)
    <2> SUFFICES ASSUME q < p PROVE FALSE
        OBVIOUS
    <2>1. p * n \in Int /\ q * n \in Int /\ q * n + n <= p * n
        BY <1>2, QuotientsDiffer
    <2> QED BY <1>1, <1>2, <2>1
<1>5. p = q
    BY <1>3, <1>4
<1>6. q * n \in Int
    BY <1>2
<1> QED BY <1>1, <1>2, <1>5, <1>6

\* The rows of a share in a group: those whose number leaves the shard as remainder.
LEMMA ShareInIs ==
    ASSUME NEW share \in Shares, NEW start \in Nat, NEW count \in Nat
    PROVE  /\ ShareIn(share, start, count) \in Seq(Nat)
           /\ Rising(ShareIn(share, start, count))
           /\ \A k \in DOMAIN ShareIn(share, start, count) :
                 /\ ShareIn(share, start, count)[k] < count
                 /\ (start + ShareIn(share, start, count)[k]) % share[1] = share[2]
           /\ \A i \in 0 .. count - 1 : (start + i) % share[1] = share[2] =>
                 \E k \in DOMAIN ShareIn(share, start, count) :
                    ShareIn(share, start, count)[k] = i
<1> DEFINE n == share[1]
           s == share[2]
           first == (s - start) % n
           offsets == ShareIn(share, start, count)
<1>1. n \in Nat \ {0} /\ s \in 0 .. n - 1
    BY TabularPartsAssumption
<1> HIDE DEF n, s
<1>2. n \in Nat /\ n > 0 /\ s \in Nat /\ s < n /\ s - start \in Int
    BY <1>1
<1>3. PICK q \in Int : s - start = q * n + first /\ first \in 0 .. n - 1
    BY <1>1, <1>2, RemainderIs
<1>4. offsets = IF first >= count THEN <<>>
                ELSE [k \in 1 .. (count - first - 1) \div n + 1 |-> first + (k - 1) * n]
    BY DEF ShareIn, n, s
<1> HIDE DEF first, offsets
<1>5. first \in Nat /\ first < n /\ q * n \in Int
    BY <1>2, <1>3
\* Which numbers a place of the share is.
<1>6. ASSUME NEW i \in Nat, (start + i) % n = s
      PROVE  \E j \in Nat : i = first + j * n
    <2>1. PICK p \in Int : start + i = p * n + s
        <3>1. start + i \in Int
            BY <1>6
        <3>2. \E p \in Int : start + i = p * n + ((start + i) % n)
            BY <1>1, <3>1, RemainderIs
        <3> QED BY <1>6, <3>2
    <2>2. p * n \in Int
        BY <1>2
    <2>3. i = p * n + q * n + first
        BY <1>2, <1>3, <1>5, <2>1, <2>2
    <2>4. (p + q) * n = p * n + q * n
        BY <1>2
    <2>5. ~(p + q < 0)
        <3> SUFFICES ASSUME p + q < 0 PROVE FALSE
            OBVIOUS
        <3>1. (p + q) * n + n <= 0 * n /\ 0 * n = 0 /\ (p + q) * n \in Int
            BY <1>2, QuotientsDiffer
        <3> QED BY <1>2, <1>5, <2>3, <2>4, <3>1
    <2>6. p + q \in Nat
        BY <2>5
    <2> QED BY <1>5, <2>2, <2>3, <2>4, <2>6
<1>7. ASSUME NEW j \in Nat PROVE (start + (first + j * n)) % n = s
    <2>1. j * n \in Nat
        BY <1>2
    <2>2. (j - q) * n = j * n - q * n /\ j - q \in Int
        BY <1>2
    <2>3. start + (first + j * n) = (j - q) * n + s
        BY <1>2, <1>3, <1>5, <2>1, <2>2
    <2>4. start + (first + j * n) \in Int
        BY <1>5, <2>1
    <2> QED BY <1>1, <2>2, <2>3, <2>4, RemainderUnique
<1>8. CASE first >= count
    <2>1. offsets = <<>>
        BY <1>4, <1>8
    <2>2. ASSUME NEW i \in 0 .. count - 1, (start + i) % n = s PROVE FALSE
        <3>1. PICK j \in Nat : i = first + j * n
            <4>1. i \in Nat
                OBVIOUS
            <4> QED BY <1>6, <2>2, <4>1
        <3>2. j * n \in Nat
            BY <1>2
        <3> QED BY <1>5, <1>8, <3>1, <3>2
    <2> QED BY <2>1, <2>2 DEF Rising, offsets, n, s
<1>9. CASE ~(first >= count)
    <2> DEFINE a == count - first - 1
               d == a \div n
    <2>1. a \in Nat
        BY <1>5, <1>9
    <2>2. d \in Nat /\ d * n <= a /\ d * n \in Nat /\ \A k \in Nat : k * n <= a => k <= d
        BY <1>1, <2>1, Division
    <2>3. offsets = [k \in 1 .. d + 1 |-> first + (k - 1) * n]
        BY <1>4, <1>9
    <2> HIDE DEF d
    <2>4. ASSUME NEW k \in 1 .. d + 1
          PROVE  /\ offsets[k] = first + (k - 1) * n /\ offsets[k] \in Nat
                 /\ offsets[k] < count /\ (start + offsets[k]) % n = s
        <3>1. k - 1 \in Nat /\ k - 1 <= d
            BY <2>2
        <3>2. (k - 1) * n <= d * n /\ (k - 1) * n \in Nat
            BY <1>2, <2>2, <3>1, Multiples
        <3>3. offsets[k] = first + (k - 1) * n
            BY <2>3
        <3>4. (start + offsets[k]) % n = s
            BY <1>7, <3>1, <3>3
        <3> QED BY <1>5, <2>1, <2>2, <3>2, <3>3, <3>4
    <2>5. offsets \in Seq(Nat) /\ DOMAIN offsets = 1 .. d + 1 /\ Len(offsets) = d + 1
        <3>1. offsets \in [1 .. d + 1 -> Nat]
            BY <2>3, <2>4
        <3>2. offsets \in Seq(Nat)
            BY <2>2, <3>1, SeqMade
        <3> QED BY <2>2, <3>1, <3>2
    <2>6. Rising(offsets)
        <3> SUFFICES ASSUME NEW k \in 1 .. (d + 1) - 1 PROVE offsets[k] < offsets[k + 1]
            BY <2>5 DEF Rising
        <3>1. k \in 1 .. d + 1 /\ k + 1 \in 1 .. d + 1 /\ (k + 1) - 1 = k /\ k \in Nat
            BY <2>2
        <3>2. k * n = (k - 1) * n + n /\ (k - 1) * n \in Int
            BY <1>2, <3>1
        <3>3. offsets[k] = first + (k - 1) * n /\ offsets[k + 1] = first + k * n
            BY <2>4, <3>1
        <3> QED BY <1>2, <1>5, <3>2, <3>3
    <2>7. ASSUME NEW i \in 0 .. count - 1, (start + i) % n = s
          PROVE  \E k \in 1 .. d + 1 : offsets[k] = i
        <3>1. PICK j \in Nat : i = first + j * n
            <4>1. i \in Nat
                OBVIOUS
            <4> QED BY <1>6, <2>7, <4>1
        <3>2. j * n \in Nat
            BY <1>2
        <3>3. j * n <= a
            BY <1>5, <3>1, <3>2
        <3>4. j <= d
            BY <2>2, <3>3
        <3>5. j + 1 \in 1 .. d + 1 /\ (j + 1) - 1 = j
            BY <2>2, <3>4
        <3> QED BY <2>4, <3>1, <3>5
    <2> QED BY <2>4, <2>5, <2>6, <2>7 DEF offsets, n, s
<1> QED BY <1>8, <1>9

-----------------------------------------------------------------------------
(* TabularParts: the inductive invariant, as predicates of values.         *)

WholePart(f, s) == [k \in 1 .. Rows[f][s] |-> s]
IsPart(f, s, rows) == Rows[f][s] \in Nat /\ rows = WholePart(f, s)

\* The part on disk is that of a state of its file, not before a given one.
PartSince(src, prt, f, from) == \E s \in from .. src[f] : IsPart(f, s, prt[f])

\* A record tells the groups of a state, and the part is of that one or a later one.
GoodRecord(src, prt, f, r) ==
    /\ r.state \in 1 .. src[f] /\ Rows[f][r.state] \in Nat
    /\ r.groups = GroupRows(Rows[f][r.state])
    /\ PartSince(src, prt, f, r.state)

NewRecord(src, prt, f, r, since) == GoodRecord(src, prt, f, r) /\ since[f] <= r.state

WorldGood(src, prt, man) ==
    /\ src = [f \in Files |-> src[f]] /\ prt = [f \in Files |-> prt[f]]
    /\ \A f \in Files : src[f] \in DOMAIN Rows[f]
    /\ \A f \in Files : prt[f] # Nil => PartSince(src, prt, f, 1)
    /\ man # Nil => \A f \in Files : GoodRecord(src, prt, f, man[f])

\* What a conversion holds is the state it began with, unless the file changed since.
GoodJob(src, prt, f, since, work) ==
    /\ work.pc \in {"none", "new", "open", "head", "written", "placed", "done", "failed"}
    /\ work.pc = "none" => work = NoJob
    /\ work.pc \in {"open", "head", "written", "placed", "done"} => work.state \in since[f] .. src[f]
    /\ work.pc \in {"head", "written"} => DOMAIN work = {"pc", "state", "rows"}
    /\ work.pc \in {"head", "placed", "done"} => Rows[f][work.state] \in Nat
    /\ work.pc = "head" /\ src[f] = work.state =>
          work.rows = [k \in 1 .. Rows[f][work.state] \div 2 |-> work.state]
    /\ work.pc = "written" /\ src[f] = work.state => IsPart(f, work.state, work.rows)
    /\ work.pc \in {"placed", "done"} => IsPart(f, work.state, prt[f])
    /\ work.pc = "done" => work.groups = GroupRows(Rows[f][work.state])

Looks(src, prt, call) ==
    /\ call.at \in 1 .. Len(Rows) + 1
    /\ call.seen # Nil => \A f \in Files :
          GoodRecord(src, prt, f, call.seen[f])
          /\ (f < call.at => call.since[f] <= call.seen[f].state)

Plans(src, prt, call, js) ==
    /\ call.at \in 1 .. Len(Rows) + 1
    /\ call.pc = "plan" <=> call.at <= Len(Rows)
    /\ DOMAIN call.records = 1 .. call.at - 1 /\ call.records = [f \in 1 .. call.at - 1 |-> call.records[f]]
    /\ \A f \in 1 .. call.at - 1 :
          js[f] = NoJob => NewRecord(src, prt, f, call.records[f], call.since)

CallGood(src, prt, call, js) ==
    /\ call.pc \in {"idle", "look", "wait", "plan", "convert", "written"}
    /\ call.pc = "idle" => call = NotPreparing
    /\ call.pc # "idle" => \A f \in Files : call.since[f] \in 1 .. src[f]
    /\ call.pc \in {"look", "wait"} => DOMAIN call = {"pc", "at", "seen", "since"}
    /\ call.pc \in {"plan", "convert"} => DOMAIN call = {"pc", "at", "since", "records"}
    /\ call.pc = "look" => Looks(src, prt, call)
    /\ call.pc \in {"plan", "convert"} => Plans(src, prt, call, js)
    /\ call.pc = "written" => \A f \in Files : NewRecord(src, prt, f, call.records[f], call.since)
    /\ call.pc \notin {"plan", "convert"} => js = NoJobs
    /\ js = [f \in Files |-> js[f]]
    /\ \A f \in Files : GoodJob(src, prt, f, call.since, js[f])

CountOf(o, f) == Rows[f][o.records[f].state]

\* What a reader was made of is the records of states that its files had, and their totals.
OpenGood(src, prt, o) ==
    /\ \A f \in Files : NewRecord(src, prt, f, o.records[f], o.since) /\ o.since[f] \in Nat
    /\ o.stops = Stops([f \in Files |-> CountOf(o, f)])
    /\ o.groupStops = [f \in Files |-> Stops(GroupRows(CountOf(o, f)))]

Reached(src, o, f) == o.records[f].state .. src[f]
RowStates == [file : Files, row : Nat, state : Nat]
Offsets == {Whole} \cup (Seq(Nat) \ {<<>>})
GroupOf(f, s, g) == GroupIn(f, WholePart(f, s), g)

\* Rows that are held for a group are those of one state, the selected ones of a share.
GoodRows(src, o, f, g, offsets, rows) ==
    \E s \in Reached(src, o, f) :
        /\ Rows[f][s] \in Nat
        /\ GroupOf(f, s, g) # <<>> /\ Fits(offsets, GroupOf(f, s, g))
        /\ rows = Select(offsets, GroupOf(f, s, g))

Groups == Files \X (Nat \ {0}) \X Offsets
GoodTables(src, o) ==
    {e \in [key : Groups, rows : Seq(RowStates)] :
        GoodRows(src, o, e.key[1], e.key[2], e.key[3], e.rows)}
GoodHandles(src, o) ==
    {e \in [key : Files, rows : Seq(Nat)] :
        \E s \in Reached(src, o, e.key) : IsPart(e.key, s, e.rows)}

\* The row is the one at its place in its file, in a state since the file was prepared.
RightRow(src, o, i, row) ==
    \E f \in Files :
        /\ i \in Nat /\ StartAt(o.stops, f) <= i /\ i < o.stops[f]
        /\ row.file = f /\ row.row = i - StartAt(o.stops, f)
        /\ row.state \in Reached(src, o, f)

ShareUpTo(share, reach) == {i \in 0 .. reach - 1 : i % share[1] = share[2]}
StartOf(o, f, g) == StartAt(o.stops, f) + StartAt(o.groupStops[f], g)
ReachOf(o, s) == IF s.file > Len(Rows) THEN Last(o.stops) ELSE StartOf(o, s.file, s.group)

ScanGood(src, o, s) ==
    /\ DOMAIN s = {"share", "file", "group", "indexes", "rows"} /\ s.share \in Shares
    /\ s.file \in 1 .. Len(Rows) + 1
    /\ s.file <= Len(Rows) => s.group \in 1 .. GroupCount(CountOf(o, s.file)) + 1
    /\ s.indexes \in Seq(Nat) /\ s.rows \in Seq(RowStates) /\ Len(s.rows) = Len(s.indexes)
    /\ ToSet(s.indexes) = ShareUpTo(s.share, ReachOf(o, s)) /\ Rising(s.indexes)
    /\ \A k \in DOMAIN s.rows : RightRow(src, o, s.indexes[k], s.rows[k])

GotGood(src, o, a) ==
    /\ a.error => \E f \in Files : src[f] > o.records[f].state
    /\ \A k \in DOMAIN a.rows : RightRow(src, o, a.indexes[k], a.rows[k])
    /\ a.share # Nil /\ ~a.error =>
          ToSet(a.indexes) = ShareUpTo(a.share, Last(o.stops)) /\ Rising(a.indexes)

UserGood(src, prt, o, t, h, s, a) ==
    IF o = Nil
    THEN t = <<>> /\ h = <<>> /\ s = Nil /\ a = Nil
    ELSE /\ OpenGood(src, prt, o)
         /\ t \in Seq(GoodTables(src, o)) /\ h \in Seq(GoodHandles(src, o))
         /\ s # Nil => ScanGood(src, o, s)
         /\ a # Nil => GotGood(src, o, a)

UserInv(u) == UserGood(source, part, opened[u], tables[u], handles[u], scan[u], got[u])
Locked(call) == call.pc \in {"plan", "convert", "written"}
OverUsers(f) == f = [u \in Users |-> f[u]]

RowsTypeOK ==
    /\ OverUsers(prepare) /\ OverUsers(jobs) /\ OverUsers(opened) /\ OverUsers(tables)
    /\ OverUsers(handles) /\ OverUsers(scan) /\ OverUsers(got)

RowsInv ==
    /\ RowsTypeOK
    /\ WorldGood(source, part, manifest)
    /\ \A u \in Users : Locked(prepare[u]) => preparing = u
    /\ \A u \in Users : prepare[u].pc # "idle" => opened[u] = Nil
    /\ \A u \in Users : CallGood(source, part, prepare[u], jobs[u])
    /\ \A u \in Users : UserInv(u)

-----------------------------------------------------------------------------
(* TabularParts: what stays as it is while files are rewritten.            *)

\* Files get later states, and parts those that their files are in by then.
Forward(src, prt, src2, prt2) ==
    \A f \in Files :
        /\ src[f] <= src2[f] /\ src2[f] \in DOMAIN Rows[f]
        /\ prt2[f] = prt[f] \/ IsPart(f, src2[f], prt2[f])

LEMMA FilesAre ==
    /\ Len(Rows) \in Nat /\ Len(Rows) > 0 /\ Files = 1 .. Len(Rows)
    /\ \A f \in Files : Rows[f] \in Seq(Int) /\ Len(Rows[f]) \in Nat /\ Len(Rows[f]) > 0
                        /\ DOMAIN Rows[f] = 1 .. Len(Rows[f])
                        /\ \A s \in DOMAIN Rows[f] : Rows[f][s] \in Int /\ s \in Nat /\ s > 0
<1>1. Rows \in Seq(Seq(Int)) /\ Rows # <<>> /\ \A f \in DOMAIN Rows : Rows[f] # <<>>
    BY TabularPartsAssumption
<1>2. Len(Rows) \in Nat /\ Len(Rows) > 0 /\ Files = 1 .. Len(Rows)
    BY <1>1 DEF Files
<1>3. ASSUME NEW f \in Files
      PROVE  Rows[f] \in Seq(Int) /\ Rows[f] # <<>>
    BY <1>1, <1>2
<1>4. ASSUME NEW f \in Files
      PROVE  /\ Len(Rows[f]) \in Nat /\ Len(Rows[f]) > 0 /\ DOMAIN Rows[f] = 1 .. Len(Rows[f])
             /\ \A s \in DOMAIN Rows[f] : Rows[f][s] \in Int /\ s \in Nat /\ s > 0
    BY <1>3
<1> QED BY <1>2, <1>3, <1>4

LEMMA PartStays ==
    ASSUME NEW src, NEW prt, NEW src2, NEW prt2, Forward(src, prt, src2, prt2),
           NEW f \in Files, src[f] \in DOMAIN Rows[f],
           NEW from \in Nat, from <= src[f], PartSince(src, prt, f, from)
    PROVE  PartSince(src2, prt2, f, from)
<1>1. /\ src[f] \in Nat /\ src2[f] \in Nat /\ src[f] <= src2[f]
      /\ prt2[f] = prt[f] \/ IsPart(f, src2[f], prt2[f])
    BY FilesAre DEF Forward
<1>2. CASE IsPart(f, src2[f], prt2[f])
    <2>1. src2[f] \in from .. src2[f]
        BY <1>1
    <2> QED BY <1>2, <2>1 DEF PartSince
<1>3. CASE prt2[f] = prt[f]
    <2>1. PICK s \in from .. src[f] : IsPart(f, s, prt[f])
        BY DEF PartSince
    <2>2. s \in from .. src2[f]
        BY <1>1
    <2> QED BY <1>3, <2>1, <2>2 DEF PartSince
<1> QED BY <1>1, <1>2, <1>3

LEMMA RecordStays ==
    ASSUME NEW src, NEW prt, NEW src2, NEW prt2, Forward(src, prt, src2, prt2),
           NEW f \in Files, src[f] \in DOMAIN Rows[f], NEW r, GoodRecord(src, prt, f, r)
    PROVE  GoodRecord(src2, prt2, f, r)
<1>1. src[f] \in Nat /\ src2[f] \in Nat /\ src[f] <= src2[f]
    BY FilesAre DEF Forward
<1>2. /\ r.state \in 1 .. src[f] /\ Rows[f][r.state] \in Nat
      /\ r.groups = GroupRows(Rows[f][r.state]) /\ PartSince(src, prt, f, r.state)
    BY DEF GoodRecord
<1>3. r.state \in Nat /\ r.state <= src[f] /\ r.state \in 1 .. src2[f]
    BY <1>1, <1>2
<1>4. PartSince(src2, prt2, f, r.state)
    BY <1>2, <1>3, PartStays
<1> QED BY <1>2, <1>3, <1>4 DEF GoodRecord

LEMMA WorldStays ==
    ASSUME NEW src, NEW prt, NEW src2, NEW prt2, Forward(src, prt, src2, prt2), NEW man,
           WorldGood(src, prt, man),
           src2 = [f \in Files |-> src2[f]], prt2 = [f \in Files |-> prt2[f]]
    PROVE  WorldGood(src2, prt2, man)
<1>1. \A f \in Files : src[f] \in DOMAIN Rows[f] /\ src2[f] \in DOMAIN Rows[f]
    BY DEF WorldGood, Forward
<1>2. ASSUME NEW f \in Files, prt2[f] # Nil PROVE PartSince(src2, prt2, f, 1)
    <2>1. src[f] \in Nat /\ 1 <= src[f] /\ 1 \in Nat /\ src2[f] \in 1 .. src2[f]
        BY <1>1, FilesAre
    <2>2. CASE prt[f] # Nil
        <3>1. PartSince(src, prt, f, 1)
            BY <2>2 DEF WorldGood
        <3> QED BY <1>1, <2>1, <3>1, PartStays
    <2>3. CASE prt[f] = Nil
        <3>1. IsPart(f, src2[f], prt2[f])
            BY <1>2, <2>3 DEF Forward
        <3> QED BY <2>1, <3>1 DEF PartSince
    <2> QED BY <2>2, <2>3
<1>3. ASSUME man # Nil, NEW f \in Files PROVE GoodRecord(src2, prt2, f, man[f])
    <2>1. GoodRecord(src, prt, f, man[f])
        BY <1>3 DEF WorldGood
    <2> QED BY <1>1, <2>1, RecordStays
<1> QED BY <1>1, <1>2, <1>3 DEF WorldGood

LEMMA JobStays ==
    ASSUME NEW src, NEW prt, NEW src2, NEW prt2, Forward(src, prt, src2, prt2),
           NEW f \in Files, src[f] \in DOMAIN Rows[f], prt2[f] = prt[f],
           NEW since, since[f] \in 1 .. src[f], NEW work, GoodJob(src, prt, f, since, work)
    PROVE  GoodJob(src2, prt2, f, since, work)
<1>1. src[f] \in Nat /\ src2[f] \in Nat /\ src[f] <= src2[f] /\ since[f] \in Nat
    BY FilesAre DEF Forward
<1>2. /\ work.pc \in {"none", "new", "open", "head", "written", "placed", "done", "failed"}
      /\ work.pc = "none" => work = NoJob
      /\ work.pc \in {"open", "head", "written", "placed", "done"} => work.state \in since[f] .. src[f]
      /\ work.pc \in {"head", "written"} => DOMAIN work = {"pc", "state", "rows"}
      /\ work.pc \in {"head", "placed", "done"} => Rows[f][work.state] \in Nat
      /\ work.pc \in {"placed", "done"} => IsPart(f, work.state, prt2[f])
      /\ work.pc = "done" => work.groups = GroupRows(Rows[f][work.state])
    BY DEF GoodJob
<1>3. ASSUME work.pc \in {"open", "head", "written", "placed", "done"}
      PROVE  /\ work.state \in since[f] .. src2[f]
             /\ src2[f] = work.state => src[f] = work.state
    <2>1. work.state \in since[f] .. src[f]
        BY <1>2, <1>3
    <2> QED BY <1>1, <2>1
<1>4. work.pc = "head" /\ src2[f] = work.state =>
          work.rows = [k \in 1 .. Rows[f][work.state] \div 2 |-> work.state]
    BY <1>3 DEF GoodJob
<1>5. work.pc = "written" /\ src2[f] = work.state => IsPart(f, work.state, work.rows)
    BY <1>3 DEF GoodJob
<1> QED BY <1>2, <1>3, <1>4, <1>5 DEF GoodJob

LEMMA NewStays ==
    ASSUME NEW src, NEW prt, NEW src2, NEW prt2, Forward(src, prt, src2, prt2),
           NEW f \in Files, src[f] \in DOMAIN Rows[f],
           NEW since, NEW r, NewRecord(src, prt, f, r, since)
    PROVE  NewRecord(src2, prt2, f, r, since)
BY RecordStays DEF NewRecord

LEMMA CallStays ==
    ASSUME NEW src, NEW prt, NEW src2, NEW prt2, Forward(src, prt, src2, prt2),
           \A f \in Files : src[f] \in DOMAIN Rows[f],
           NEW call, NEW js, CallGood(src, prt, call, js),
           NEW js2, js2 = [f \in Files |-> js2[f]],
           \A f \in Files : \/ js2[f] = js[f] /\ (prt2[f] = prt[f] \/ js[f] = NoJob)
                            \/ /\ call.pc \in {"plan", "convert"} /\ js2[f].pc # "none"
                               /\ GoodJob(src2, prt2, f, call.since, js2[f])
    PROVE  CallGood(src2, prt2, call, js2)
<1>1. \A f \in Files : src[f] \in Nat /\ src2[f] \in Nat /\ src[f] <= src2[f]
    BY FilesAre DEF Forward
<1>2. /\ call.pc \in {"idle", "look", "wait", "plan", "convert", "written"}
      /\ call.pc = "idle" => call = NotPreparing
      /\ call.pc \in {"look", "wait"} => DOMAIN call = {"pc", "at", "seen", "since"}
      /\ call.pc \in {"plan", "convert"} => DOMAIN call = {"pc", "at", "since", "records"}
    BY DEF CallGood
<1>3. call.pc # "idle" => \A f \in Files : call.since[f] \in 1 .. src2[f]
    <2>1. call.pc # "idle" => \A f \in Files : call.since[f] \in 1 .. src[f]
        BY DEF CallGood
    <2> QED BY <1>1, <2>1
<1>4. call.pc = "look" => Looks(src2, prt2, call)
    <2> SUFFICES ASSUME call.pc = "look" PROVE Looks(src2, prt2, call)
        OBVIOUS
    <2>1. Looks(src, prt, call)
        BY DEF CallGood
    <2> QED BY <2>1, RecordStays DEF Looks
<1>5. call.pc \in {"plan", "convert"} => Plans(src2, prt2, call, js2)
    <2> SUFFICES ASSUME call.pc \in {"plan", "convert"} PROVE Plans(src2, prt2, call, js2)
        OBVIOUS
    <2>1. Plans(src, prt, call, js)
        BY DEF CallGood
    <2>2. ASSUME NEW f \in 1 .. call.at - 1, js2[f] = NoJob
          PROVE  NewRecord(src2, prt2, f, call.records[f], call.since)
        <3>1. f \in Files
            BY <2>1, FilesAre DEF Plans
        <3>2. js2[f].pc = "none"
            BY <2>2 DEF NoJob
        <3>3. js[f] = NoJob
            BY <2>2, <3>1, <3>2
        <3>4. NewRecord(src, prt, f, call.records[f], call.since)
            BY <2>1, <3>3 DEF Plans
        <3> QED BY <3>1, <3>4, NewStays
    <2> QED BY <2>1, <2>2 DEF Plans
<1>6. call.pc = "written" => \A f \in Files : NewRecord(src2, prt2, f, call.records[f], call.since)
    <2>1. call.pc = "written" => \A f \in Files : NewRecord(src, prt, f, call.records[f], call.since)
        BY DEF CallGood
    <2> QED BY <2>1, NewStays
<1>7. call.pc \notin {"plan", "convert"} => js2 = NoJobs
    <2> SUFFICES ASSUME call.pc \notin {"plan", "convert"} PROVE js2 = NoJobs
        OBVIOUS
    <2>1. js = NoJobs
        BY DEF CallGood
    <2>2. \A f \in Files : js2[f] = NoJob
        BY <2>1 DEF NoJobs
    <2> QED BY <2>2 DEF NoJobs
<1>8. ASSUME NEW f \in Files PROVE GoodJob(src2, prt2, f, call.since, js2[f])
    <2>1. GoodJob(src, prt, f, call.since, js[f])
        BY DEF CallGood
    <2>2. CASE js2[f] = NoJob
        BY <2>2 DEF GoodJob, NoJob
    <2>3. CASE js2[f] = js[f] /\ prt2[f] = prt[f] /\ js[f] # NoJob
        <3>1. call.pc # "idle"
            <4>1. js # NoJobs
                BY <2>3 DEF NoJobs
            <4> QED BY <4>1 DEF CallGood
        <3>2. call.since[f] \in 1 .. src[f]
            BY <3>1 DEF CallGood
        <3> QED BY <2>1, <2>3, <3>2, JobStays
    <2> QED BY <2>2, <2>3
<1> QED BY <1>2, <1>3, <1>4, <1>5, <1>6, <1>7, <1>8 DEF CallGood

LEMMA OpenTypes ==
    ASSUME NEW src, NEW prt, NEW o, OpenGood(src, prt, o), NEW f \in Files, src[f] \in DOMAIN Rows[f]
    PROVE  /\ src[f] \in Nat /\ o.records[f].state \in Nat /\ o.records[f].state <= src[f]
           /\ o.records[f].state \in Reached(src, o, f) /\ CountOf(o, f) \in Nat
           /\ o.records[f].groups = GroupRows(CountOf(o, f))
           /\ o.records[f].state >= 1
           /\ PartSince(src, prt, f, o.records[f].state)
<1>1. src[f] \in Nat
    BY FilesAre
<1>2. GoodRecord(src, prt, f, o.records[f])
    BY DEF OpenGood, NewRecord
<1> QED BY <1>1, <1>2 DEF GoodRecord, Reached, CountOf

LEMMA ReachedGrows ==
    ASSUME NEW src, NEW prt, NEW src2, NEW prt2, Forward(src, prt, src2, prt2),
           NEW o, OpenGood(src, prt, o), NEW f \in Files, src[f] \in DOMAIN Rows[f]
    PROVE  Reached(src, o, f) \subseteq Reached(src2, o, f)
<1>1. src[f] \in Nat /\ src2[f] \in Nat /\ src[f] <= src2[f] /\ o.records[f].state \in Nat
    BY OpenTypes, FilesAre DEF Forward
<1> QED BY <1>1 DEF Reached

LEMMA RowStays ==
    ASSUME NEW src, NEW prt, NEW src2, NEW prt2, Forward(src, prt, src2, prt2),
           \A f \in Files : src[f] \in DOMAIN Rows[f],
           NEW o, OpenGood(src, prt, o), NEW i, NEW row, RightRow(src, o, i, row)
    PROVE  RightRow(src2, o, i, row)
<1>1. PICK f \in Files :
        /\ i \in Nat /\ StartAt(o.stops, f) <= i /\ i < o.stops[f]
        /\ row.file = f /\ row.row = i - StartAt(o.stops, f)
        /\ row.state \in Reached(src, o, f)
    BY DEF RightRow
<1>2. row.state \in Reached(src2, o, f)
    BY <1>1, ReachedGrows
<1> QED BY <1>1, <1>2 DEF RightRow

LEMMA UserStays ==
    ASSUME NEW src, NEW prt, NEW src2, NEW prt2, Forward(src, prt, src2, prt2),
           \A f \in Files : src[f] \in DOMAIN Rows[f],
           NEW o, NEW t, NEW h, NEW s, NEW a, UserGood(src, prt, o, t, h, s, a)
    PROVE  UserGood(src2, prt2, o, t, h, s, a)
<1>1. CASE o = Nil
    BY <1>1 DEF UserGood
<1>2. CASE o # Nil
    <2>1. /\ OpenGood(src, prt, o)
          /\ t \in Seq(GoodTables(src, o)) /\ h \in Seq(GoodHandles(src, o))
          /\ s # Nil => ScanGood(src, o, s)
          /\ a # Nil => GotGood(src, o, a)
        BY <1>2 DEF UserGood
    <2>2. OpenGood(src2, prt2, o)
        <3>1. \A f \in Files : NewRecord(src2, prt2, f, o.records[f], o.since)
            BY <2>1, NewStays DEF OpenGood
        <3> QED BY <2>1, <3>1 DEF OpenGood
    <2>3. \A f \in Files : Reached(src, o, f) \subseteq Reached(src2, o, f)
        BY <2>1, ReachedGrows
    <2>4. t \in Seq(GoodTables(src2, o))
        <3>1. GoodTables(src, o) \subseteq GoodTables(src2, o)
            <4> SUFFICES ASSUME NEW e \in GoodTables(src, o) PROVE e \in GoodTables(src2, o)
                OBVIOUS
            <4>1. /\ e \in [key : Groups, rows : Seq(RowStates)]
                  /\ GoodRows(src, o, e.key[1], e.key[2], e.key[3], e.rows)
                BY DEF GoodTables
            <4>2. e.key[1] \in Files
                BY <4>1 DEF Groups
            <4>3. GoodRows(src2, o, e.key[1], e.key[2], e.key[3], e.rows)
                BY <2>3, <4>1, <4>2 DEF GoodRows
            <4> QED BY <4>1, <4>3 DEF GoodTables
        <3> QED BY <2>1, <3>1, SeqMonotone
    <2>5. h \in Seq(GoodHandles(src2, o))
        <3>1. GoodHandles(src, o) \subseteq GoodHandles(src2, o)
            <4> SUFFICES ASSUME NEW e \in GoodHandles(src, o) PROVE e \in GoodHandles(src2, o)
                OBVIOUS
            <4>1. /\ e \in [key : Files, rows : Seq(Nat)]
                  /\ \E n \in Reached(src, o, e.key) : IsPart(e.key, n, e.rows)
                BY DEF GoodHandles
            <4>2. e.key \in Files
                BY <4>1
            <4>3. \E n \in Reached(src2, o, e.key) : IsPart(e.key, n, e.rows)
                BY <2>3, <4>1, <4>2
            <4> QED BY <4>1, <4>3 DEF GoodHandles
        <3> QED BY <2>1, <3>1, SeqMonotone
    <2>6. s # Nil => ScanGood(src2, o, s)
        BY <2>1, RowStays DEF ScanGood
    <2>7. a # Nil => GotGood(src2, o, a)
        <3> SUFFICES ASSUME a # Nil PROVE GotGood(src2, o, a)
            OBVIOUS
        <3>1. GotGood(src, o, a)
            BY <2>1
        <3>2. a.error => \E f \in Files : src2[f] > o.records[f].state
            <4> SUFFICES ASSUME a.error PROVE \E f \in Files : src2[f] > o.records[f].state
                OBVIOUS
            <4>1. PICK f \in Files : src[f] > o.records[f].state
                BY <3>1 DEF GotGood
            <4>2. src[f] <= src2[f] /\ src[f] \in Nat /\ src2[f] \in Nat /\ o.records[f].state \in Nat
                BY <2>1, OpenTypes, FilesAre DEF Forward
            <4> QED BY <4>1, <4>2
        <3>3. \A k \in DOMAIN a.rows : RightRow(src2, o, a.indexes[k], a.rows[k])
            BY <2>1, <3>1, RowStays DEF GotGood
        <3> QED BY <3>1, <3>2, <3>3 DEF GotGood
    <2> QED BY <1>2, <2>2, <2>4, <2>5, <2>6, <2>7 DEF UserGood
<1> QED BY <1>1, <1>2

-----------------------------------------------------------------------------
(* TabularParts: an ordered dictionary of at most so many entries.         *)

LEMMA WithoutIn ==
    ASSUME NEW S, NEW entries \in Seq(S), NEW key
    PROVE  Without(entries, key) \in Seq(S)
<1>1. CASE ~IsIn(entries, key)
    BY <1>1 DEF Without
<1>2. CASE IsIn(entries, key)
    <2> DEFINE n == PlaceUnder(entries, key)
    <2>1. n \in DOMAIN entries
        BY <1>2 DEF IsIn, PlaceUnder
    <2> HIDE DEF n
    <2>2. n \in Nat /\ n > 0 /\ n <= Len(entries) /\ Len(entries) \in Nat
        BY <2>1
    <2>3. /\ 0 \in 0 .. Len(entries) /\ n - 1 \in 0 .. Len(entries) /\ 0 + 1 = 1
          /\ n \in 0 .. Len(entries) /\ Len(entries) \in n .. Len(entries)
        BY <2>2
    <2>4. SubSeq(entries, 1, n - 1) \in Seq(S)
        BY <2>3, SliceOf
    <2>5. SubSeq(entries, n + 1, Len(entries)) \in Seq(S)
        BY <2>3, SliceOf
    <2>6. SubSeq(entries, 1, n - 1) \o SubSeq(entries, n + 1, Len(entries)) \in Seq(S)
        BY <2>4, <2>5, Joined
    <2> QED BY <1>2, <2>6 DEF Without, RemoveAt, n
<1> QED BY <1>1, <1>2

LEMMA NewestIn ==
    ASSUME NEW S, NEW entries \in Seq(S), NEW most \in Nat
    PROVE  Newest(entries, most) \in Seq(S)
<1>1. Len(entries) \in Nat /\ Len(entries) - most + 1 \in Int /\ 1 \in Int
    OBVIOUS
<1> DEFINE n == Max({1, Len(entries) - most + 1})
<1>2. n = IF 1 >= Len(entries) - most + 1 THEN 1 ELSE Len(entries) - most + 1
    BY <1>1, GreatestOfTwo
<1>3. n \in Int /\ n >= 1
    BY <1>1, <1>2
<1> HIDE DEF n
<1>4. \A i \in n .. Len(entries) : entries[i] \in S
    BY <1>1, <1>3
<1>5. SubSeq(entries, n, Len(entries)) \in Seq(S)
    BY <1>1, <1>3, <1>4, SubSeqProperties
<1> QED BY <1>5 DEF Newest, n

LEMMA UsedLast ==
    ASSUME NEW S, NEW entries \in Seq(S), NEW key, NEW e \in S, NEW most \in Nat
    PROVE  Newest(Append(Without(entries, key), e), most) \in Seq(S)
<1>1. Append(Without(entries, key), e) \in Seq(S)
    BY WithoutIn
<1> QED BY <1>1, NewestIn

LEMMA UnderIs ==
    ASSUME NEW S, NEW entries \in Seq(S), NEW key, IsIn(entries, key)
    PROVE  Under(entries, key) \in S /\ Under(entries, key).key = key
<1>1. PlaceUnder(entries, key) \in DOMAIN entries /\ entries[PlaceUnder(entries, key)].key = key
    BY DEF IsIn, PlaceUnder
<1> QED BY <1>1 DEF Under

-----------------------------------------------------------------------------
(* TabularParts: the rows of a group, and what is held for a read.         *)

LEMMA WholePartIs ==
    ASSUME NEW f \in Files, NEW s \in Nat, Rows[f][s] \in Nat
    PROVE  /\ WholePart(f, s) \in Seq(Nat) /\ Len(WholePart(f, s)) = Rows[f][s]
           /\ \A k \in 1 .. Rows[f][s] : WholePart(f, s)[k] = s
<1>1. WholePart(f, s) \in [1 .. Rows[f][s] -> Nat]
    BY DEF WholePart
<1>2. WholePart(f, s) \in Seq(Nat)
    BY <1>1, SeqMade
<1>3. Len(WholePart(f, s)) = Rows[f][s]
    BY <1>1, <1>2
<1>4. \A k \in 1 .. Rows[f][s] : WholePart(f, s)[k] = s
    BY DEF WholePart
<1> QED BY <1>2, <1>3, <1>4

\* How many rows of so many a group has.
GroupLength(count, g) ==
    IF count <= GroupBegin(g) THEN 0
    ELSE IF RowGroupSize <= count - GroupBegin(g) THEN RowGroupSize ELSE count - GroupBegin(g)

LEMMA GroupLengthIs ==
    ASSUME NEW count \in Nat, NEW g \in Nat \ {0}
    PROVE  /\ GroupBegin(g) \in Nat /\ GroupLength(count, g) \in Nat
           /\ GroupLength(count, g) > 0 => GroupBegin(g) + GroupLength(count, g) <= count
           /\ Max({0, Min({RowGroupSize, count - GroupBegin(g)})}) = GroupLength(count, g)
<1>1. RowGroupSize \in Nat /\ RowGroupSize > 0
    BY SizeIs
<1>2. GroupBegin(g) \in Nat
    <2>1. g - 1 \in Nat
        OBVIOUS
    <2> QED BY <1>1, <2>1 DEF GroupBegin
<1> DEFINE rest == count - GroupBegin(g)
           least == Min({RowGroupSize, rest})
<1>3. rest \in Int /\ RowGroupSize \in Int /\ 0 \in Int
    BY <1>1, <1>2
<1>4. least = IF RowGroupSize <= rest THEN RowGroupSize ELSE rest
    BY <1>3, LeastOfTwo
<1>5. least \in Int
    BY <1>3, <1>4
<1> HIDE DEF least
<1>6. Max({0, least}) = IF 0 >= least THEN 0 ELSE least
    BY <1>3, <1>5, GreatestOfTwo
<1>7. Max({0, least}) = GroupLength(count, g)
    BY <1>1, <1>2, <1>4, <1>6 DEF GroupLength
<1>8. GroupLength(count, g) \in Nat
      /\ (GroupLength(count, g) > 0 => GroupBegin(g) + GroupLength(count, g) <= count)
    BY <1>1, <1>2 DEF GroupLength
<1> QED BY <1>2, <1>7, <1>8 DEF least

LEMMA GroupLengthFull ==
    ASSUME NEW count \in Nat, NEW g \in 1 .. GroupCount(count)
    PROVE  GroupLength(count, g) = GroupRows(count)[g] /\ GroupLength(count, g) > 0
<1>1. RowGroupSize \in Nat /\ RowGroupSize > 0
    BY SizeIs
<1>2. GroupBegin(g) \in Nat /\ GroupBegin(g) < count
    BY GroupCountIs
<1>3. GroupRows(count)[g] = IF RowGroupSize <= count - GroupBegin(g) THEN RowGroupSize
                            ELSE count - GroupBegin(g)
    BY GroupRowsAre
<1> QED BY <1>1, <1>2, <1>3 DEF GroupLength

LEMMA GroupOfIs ==
    ASSUME NEW f \in Files, NEW s \in Nat, Rows[f][s] \in Nat, NEW g \in Nat \ {0}
    PROVE  /\ GroupOf(f, s, g) \in Seq(RowStates)
           /\ Len(GroupOf(f, s, g)) = GroupLength(Rows[f][s], g)
           /\ \A k \in 1 .. GroupLength(Rows[f][s], g) :
                 GroupOf(f, s, g)[k] = [file |-> f, row |-> GroupBegin(g) + k - 1, state |-> s]
<1> DEFINE count == Rows[f][s]
           L == GroupLength(count, g)
           whole == WholePart(f, s)
           group == GroupOf(f, s, g)
<1>1. /\ GroupBegin(g) \in Nat /\ L \in Nat
      /\ L > 0 => GroupBegin(g) + L <= count
      /\ Max({0, Min({RowGroupSize, count - GroupBegin(g)})}) = L
    BY GroupLengthIs
<1>2. Len(whole) = count /\ \A k \in 1 .. count : whole[k] = s
    BY WholePartIs
<1> HIDE DEF L, whole
<1>3. group = [k \in 1 .. L |-> [file |-> f, row |-> GroupBegin(g) + k - 1,
                                  state |-> whole[GroupBegin(g) + k]]]
    BY <1>1, <1>2 DEF GroupOf, GroupIn, whole
<1>4. \A k \in 1 .. L : GroupBegin(g) + k \in 1 .. count /\ GroupBegin(g) + k - 1 \in Nat
    BY <1>1
<1> HIDE DEF group, count
<1>5. \A k \in 1 .. L : group[k] = [file |-> f, row |-> GroupBegin(g) + k - 1, state |-> s]
    BY <1>2, <1>3, <1>4
<1>6. group \in [1 .. L -> RowStates]
    <2>1. ASSUME NEW k \in 1 .. L PROVE group[k] \in RowStates
        <3>1. PICK row \in Nat : row = GroupBegin(g) + k - 1
            BY <1>4
        <3>2. group[k] = [file |-> f, row |-> row, state |-> s]
            BY <1>5, <3>1
        <3> QED BY <3>2 DEF RowStates
    <2> QED BY <1>3, <2>1
<1>7. group \in Seq(RowStates)
    BY <1>1, <1>6, SeqMade
<1>8. Len(group) = L
    BY <1>1, <1>6, <1>7
<1> QED BY <1>5, <1>7, <1>8 DEF group, L, count

LEMMA TakenIs ==
    ASSUME NEW S, NEW rows \in Seq(S), NEW offsets \in Seq(Nat),
           \A k \in DOMAIN offsets : offsets[k] < Len(rows)
    PROVE  /\ Taken(rows, offsets) \in Seq(S) /\ Len(Taken(rows, offsets)) = Len(offsets)
           /\ \A k \in 1 .. Len(offsets) :
                 /\ offsets[k] + 1 \in 1 .. Len(rows)
                 /\ Taken(rows, offsets)[k] = rows[offsets[k] + 1]
<1>1. /\ Len(offsets) \in Nat /\ DOMAIN offsets = 1 .. Len(offsets) /\ Len(rows) \in Nat
      /\ \A k \in 1 .. Len(offsets) : offsets[k] \in Nat /\ offsets[k] < Len(rows)
      /\ \A k \in 1 .. Len(rows) : rows[k] \in S
    OBVIOUS
<1>2. \A k \in 1 .. Len(offsets) : offsets[k] + 1 \in 1 .. Len(rows)
    BY <1>1
<1>3. Taken(rows, offsets) = [k \in 1 .. Len(offsets) |-> rows[offsets[k] + 1]]
    BY <1>1 DEF Taken
<1>4. Taken(rows, offsets) \in [1 .. Len(offsets) -> S]
    BY <1>1, <1>2, <1>3
<1>5. Taken(rows, offsets) \in Seq(S)
    BY <1>1, <1>4, SeqMade
<1>6. Len(Taken(rows, offsets)) = Len(offsets)
    BY <1>1, <1>4, <1>5
<1> QED BY <1>2, <1>3, <1>5, <1>6

\* The rows that are read of a group, and where they are.
RowsOf(f, s, g, offsets, rows) ==
    /\ rows \in Seq(RowStates) /\ rows # <<>>
    /\ offsets = Whole => Len(rows) = GroupLength(Rows[f][s], g)
    /\ offsets # Whole => Len(rows) = Len(offsets)
    /\ \A k \in 1 .. Len(rows) :
          rows[k] = [file |-> f, state |-> s,
                     row |-> GroupBegin(g) + (IF offsets = Whole THEN k - 1 ELSE offsets[k])]

LEMMA SelectIs ==
    ASSUME NEW f \in Files, NEW s \in Nat, Rows[f][s] \in Nat, NEW g \in Nat \ {0},
           GroupOf(f, s, g) # <<>>, NEW offsets \in Offsets, Fits(offsets, GroupOf(f, s, g))
    PROVE  RowsOf(f, s, g, offsets, Select(offsets, GroupOf(f, s, g)))
<1> DEFINE all == GroupOf(f, s, g)
           L == GroupLength(Rows[f][s], g)
<1>1. /\ all \in Seq(RowStates) /\ Len(all) = L /\ L \in Nat /\ GroupBegin(g) \in Nat
      /\ \A k \in 1 .. L : all[k] = [file |-> f, row |-> GroupBegin(g) + k - 1, state |-> s]
    BY GroupOfIs, GroupLengthIs
<1>2. all # <<>> /\ Fits(offsets, all)
    OBVIOUS
<1> HIDE DEF all, L
<1>3. CASE offsets = Whole
    <2>1. Select(offsets, all) = all
        BY <1>3 DEF Select
    <2>2. \A k \in 1 .. L : GroupBegin(g) + k - 1 = GroupBegin(g) + (k - 1)
        BY <1>1
    <2>3. \A k \in 1 .. Len(all) :
            all[k] = [file |-> f, state |-> s,
                      row |-> GroupBegin(g) + (IF offsets = Whole THEN k - 1 ELSE offsets[k])]
        BY <1>1, <1>3, <2>2
    <2> QED BY <1>1, <1>2, <1>3, <2>1, <2>3 DEF RowsOf, all, L
<1>4. CASE offsets # Whole
    <2>1. offsets \in Seq(Nat) /\ offsets # <<>>
        BY <1>4 DEF Offsets
    <2>2. \A k \in DOMAIN offsets : offsets[k] < Len(all)
        BY <1>2, <1>4 DEF Fits
    <2> DEFINE rows == Taken(all, offsets)
    <2>3. /\ rows \in Seq(RowStates) /\ Len(rows) = Len(offsets)
          /\ \A k \in 1 .. Len(offsets) :
                offsets[k] + 1 \in 1 .. Len(all) /\ rows[k] = all[offsets[k] + 1]
        BY <1>1, <2>1, <2>2, TakenIs
    <2> HIDE DEF rows
    <2>4. rows # <<>>
        BY <2>1, <2>3
    <2>5. ASSUME NEW k \in 1 .. Len(rows)
          PROVE  rows[k] = [file |-> f, state |-> s,
                            row |-> GroupBegin(g) + (IF offsets = Whole THEN k - 1 ELSE offsets[k])]
        <3>1. k \in 1 .. Len(offsets) /\ k \in DOMAIN offsets
            BY <2>1, <2>3
        <3>2. /\ offsets[k] \in Nat /\ offsets[k] + 1 \in 1 .. Len(all)
              /\ rows[k] = all[offsets[k] + 1]
            BY <2>1, <2>3, <3>1
        <3>3. offsets[k] + 1 \in 1 .. L
            BY <1>1, <3>2
        <3>4. GroupBegin(g) + (offsets[k] + 1) - 1 = GroupBegin(g) + offsets[k]
            BY <1>1, <3>2
        <3> QED BY <1>1, <1>4, <3>2, <3>3, <3>4
    <2>6. Select(offsets, all) = rows
        BY <1>4 DEF Select, rows
    <2>7. RowsOf(f, s, g, offsets, rows)
        BY <1>4, <2>3, <2>4, <2>5 DEF RowsOf
    <2> QED BY <2>6, <2>7 DEF all
<1> QED BY <1>3, <1>4

LEMMA GoodRowsAre ==
    ASSUME NEW src, NEW prt, NEW o, OpenGood(src, prt, o), NEW f \in Files, src[f] \in DOMAIN Rows[f],
           NEW g \in Nat \ {0}, NEW offsets \in Offsets, NEW rows,
           GoodRows(src, o, f, g, offsets, rows)
    PROVE  \E s \in Reached(src, o, f) :
              s \in Nat /\ Rows[f][s] \in Nat /\ RowsOf(f, s, g, offsets, rows)
<1>1. PICK s \in Reached(src, o, f) :
        /\ Rows[f][s] \in Nat
        /\ GroupOf(f, s, g) # <<>> /\ Fits(offsets, GroupOf(f, s, g))
        /\ rows = Select(offsets, GroupOf(f, s, g))
    BY DEF GoodRows
<1>2. s \in Nat
    <2>1. src[f] \in Nat /\ o.records[f].state \in Nat
        BY OpenTypes
    <2> QED BY <2>1 DEF Reached
<1>3. RowsOf(f, s, g, offsets, rows)
    BY <1>1, <1>2, SelectIs
<1> QED BY <1>1, <1>2, <1>3

-----------------------------------------------------------------------------
(* TabularParts: a group is read and kept.                                 *)

Reads(u) == opened[u] # Nil /\ UserInv(u) /\ WorldGood(source, part, manifest)

LEMMA ReaderHas ==
    ASSUME NEW u \in Users, Reads(u)
    PROVE  /\ OpenGood(source, part, opened[u])
           /\ tables[u] \in Seq(GoodTables(source, opened[u]))
           /\ handles[u] \in Seq(GoodHandles(source, opened[u]))
           /\ \A f \in Files : source[f] \in DOMAIN Rows[f]
BY DEF Reads, UserInv, UserGood, WorldGood

LEMMA HandleGood ==
    ASSUME NEW u \in Users, Reads(u), NEW f \in Files
    PROVE  Handle(u, f) \in GoodHandles(source, opened[u]) /\ Handle(u, f).key = f
<1>1. /\ OpenGood(source, part, opened[u])
      /\ handles[u] \in Seq(GoodHandles(source, opened[u]))
      /\ source[f] \in DOMAIN Rows[f]
    BY ReaderHas
<1>2. CASE IsIn(handles[u], f)
    <2>1. Under(handles[u], f) \in GoodHandles(source, opened[u]) /\ Under(handles[u], f).key = f
        BY <1>1, <1>2, UnderIs
    <2> QED BY <1>2, <2>1 DEF Handle
<1>3. CASE ~IsIn(handles[u], f)
    <2>1. Handle(u, f) = [key |-> f, rows |-> part[f]]
        BY <1>3 DEF Handle
    <2>2. PartSince(source, part, f, opened[u].records[f].state)
          /\ opened[u].records[f].state \in Nat /\ source[f] \in Nat
        BY <1>1, OpenTypes
    <2>3. PICK s \in opened[u].records[f].state .. source[f] : IsPart(f, s, part[f])
        BY <2>2 DEF PartSince
    <2>4. s \in Nat /\ s \in Reached(source, opened[u], f)
        BY <2>2 DEF Reached
    <2>5. part[f] \in Seq(Nat)
        BY <2>3, <2>4, WholePartIs DEF IsPart
    <2> QED BY <2>1, <2>3, <2>4, <2>5 DEF GoodHandles
<1> QED BY <1>2, <1>3

\* An entry that is held for a key has the rows of the key.
LEMMA HeldGood ==
    ASSUME NEW u \in Users, Reads(u), NEW f \in Files, NEW g \in Nat \ {0}, NEW offsets \in Offsets,
           IsIn(tables[u], <<f, g, offsets>>)
    PROVE  GoodRows(source, opened[u], f, g, offsets, Under(tables[u], <<f, g, offsets>>).rows)
<1>1. tables[u] \in Seq(GoodTables(source, opened[u]))
    BY ReaderHas
<1>2. PICK e \in GoodTables(source, opened[u]) :
        e = Under(tables[u], <<f, g, offsets>>) /\ e.key = <<f, g, offsets>>
    BY <1>1, UnderIs
<1>3. GoodRows(source, opened[u], e.key[1], e.key[2], e.key[3], e.rows)
    BY DEF GoodTables
<1>4. e.key[1] = f /\ e.key[2] = g /\ e.key[3] = offsets
    BY <1>2
<1> QED BY <1>2, <1>3, <1>4

LEMMA NowGood ==
    ASSUME NEW u \in Users, Reads(u), NEW f \in Files, NEW g \in Nat \ {0}
    PROVE  \E s \in Reached(source, opened[u], f) :
              s \in Nat /\ Rows[f][s] \in Nat /\ GroupRowsNow(u, f, g) = GroupOf(f, s, g)
<1>1. OpenGood(source, part, opened[u]) /\ source[f] \in DOMAIN Rows[f]
    BY ReaderHas
<1>2. \A s \in Reached(source, opened[u], f) : s \in Nat
    <2>1. source[f] \in Nat /\ opened[u].records[f].state \in Nat
        BY <1>1, OpenTypes
    <2> QED BY <2>1 DEF Reached
<1>3. CASE IsIn(tables[u], <<f, g, Whole>>)
    <2>1. Whole \in Offsets
        BY DEF Offsets
    <2>2. GoodRows(source, opened[u], f, g, Whole, Under(tables[u], <<f, g, Whole>>).rows)
        BY <1>3, <2>1, HeldGood
    <2>3. PICK s \in Reached(source, opened[u], f) :
            /\ Rows[f][s] \in Nat
            /\ Under(tables[u], <<f, g, Whole>>).rows = Select(Whole, GroupOf(f, s, g))
        BY <2>2 DEF GoodRows
    <2>4. GroupRowsNow(u, f, g) = GroupOf(f, s, g)
        BY <1>3, <2>3 DEF GroupRowsNow, Select
    <2> QED BY <1>2, <2>3, <2>4
<1>4. CASE ~IsIn(tables[u], <<f, g, Whole>>)
    <2>1. Handle(u, f) \in GoodHandles(source, opened[u]) /\ Handle(u, f).key = f
        BY HandleGood
    <2>2. PICK s \in Reached(source, opened[u], f) : IsPart(f, s, Handle(u, f).rows)
        BY <2>1 DEF GoodHandles
    <2>3. Rows[f][s] \in Nat /\ Handle(u, f).rows = WholePart(f, s)
        BY <2>2 DEF IsPart
    <2>4. GroupRowsNow(u, f, g) = GroupOf(f, s, g)
        BY <1>4, <2>3 DEF GroupRowsNow, GroupOf
    <2> QED BY <1>2, <2>2, <2>3, <2>4
<1> QED BY <1>3, <1>4

\* What a read gets of a group; it fails only when the file was rewritten.
LEMMA FetchedGood ==
    ASSUME NEW u \in Users, Reads(u), NEW f \in Files, NEW g \in 1 .. GroupCount(CountOf(opened[u], f)),
           NEW offsets \in Offsets,
           \/ offsets = Whole
           \/ \A k \in DOMAIN offsets : offsets[k] < GroupRows(CountOf(opened[u], f))[g]
    PROVE  /\ Fetched(u, f, g, offsets) # <<>> =>
                 GoodRows(source, opened[u], f, g, offsets, Fetched(u, f, g, offsets))
           /\ Fetched(u, f, g, offsets) = <<>> => source[f] > opened[u].records[f].state
<1> DEFINE rows == Fetched(u, f, g, offsets)
           state == opened[u].records[f].state
           count == CountOf(opened[u], f)
<1>1. OpenGood(source, part, opened[u]) /\ source[f] \in DOMAIN Rows[f]
    BY ReaderHas
<1>2. /\ source[f] \in Nat /\ state \in Nat /\ state <= source[f]
      /\ count \in Nat /\ count = Rows[f][state]
    BY <1>1, OpenTypes DEF CountOf
<1>3. g \in Nat \ {0}
    <2>1. g \in 1 .. GroupCount(count)
        OBVIOUS
    <2> HIDE DEF count
    <2>2. GroupCount(count) \in Nat
        BY <1>2, GroupCountIs
    <2> QED BY <2>1, <2>2
<1>4. CASE IsIn(tables[u], <<f, g, offsets>>)
    <2>1. rows = Under(tables[u], <<f, g, offsets>>).rows
        BY <1>4 DEF Fetched
    <2> HIDE DEF rows
    <2>2. GoodRows(source, opened[u], f, g, offsets, rows)
        BY <1>3, <1>4, <2>1, HeldGood
    <2>3. rows # <<>>
        BY <1>1, <1>3, <2>2, GoodRowsAre DEF RowsOf
    <2> QED BY <2>2, <2>3 DEF rows
<1>5. CASE ~IsIn(tables[u], <<f, g, offsets>>)
    <2>1. PICK s \in Reached(source, opened[u], f) :
            s \in Nat /\ Rows[f][s] \in Nat /\ GroupRowsNow(u, f, g) = GroupOf(f, s, g)
        BY <1>3, NowGood
    <2> DEFINE all == GroupOf(f, s, g)
    <2>2. rows = IF all # <<>> /\ Fits(offsets, all) THEN Select(offsets, all) ELSE <<>>
        BY <1>5, <2>1 DEF Fetched
    <2> HIDE DEF rows
    <2>3. CASE all # <<>> /\ Fits(offsets, all)
        <3>1. GoodRows(source, opened[u], f, g, offsets, rows)
            BY <2>1, <2>2, <2>3 DEF GoodRows
        <3>2. rows # <<>>
            BY <1>1, <1>3, <3>1, GoodRowsAre DEF RowsOf
        <3> QED BY <3>1, <3>2 DEF rows
    <2>4. CASE ~(all # <<>> /\ Fits(offsets, all))
        <3>1. s # state
            <4> SUFFICES ASSUME s = state PROVE FALSE
                OBVIOUS
            <4>1. Len(all) = GroupLength(count, g) /\ all \in Seq(RowStates)
                <5>1. Len(all) = GroupLength(Rows[f][s], g) /\ all \in Seq(RowStates)
                    BY <1>3, <2>1, GroupOfIs
                <5>2. Rows[f][s] = count
                    BY <1>2
                <5> QED BY <5>1, <5>2
            <4>2. GroupLength(count, g) = GroupRows(count)[g] /\ GroupLength(count, g) > 0
                BY <1>2, GroupLengthFull
            <4>3. all # <<>>
                BY <4>1, <4>2
            <4>4. Fits(offsets, all)
                BY <4>1, <4>2 DEF Fits
            <4> QED BY <2>4, <4>3, <4>4
        <3>2. s \in state .. source[f]
            BY DEF Reached
        <3>3. source[f] > state
            <4>1. PICK x \in Nat, y \in Nat : x = state /\ y = source[f]
                BY <1>2
            <4>2. s \in x .. y /\ s # x
                BY <3>1, <3>2, <4>1
            <4>3. y > x
                BY <4>2
            <4> QED BY <4>1, <4>3
        <3> QED BY <2>2, <2>4, <3>3 DEF rows
    <2> QED BY <2>3, <2>4
<1> QED BY <1>4, <1>5

\* A selection of all rows of a group is the group.
LEMMA AllTaken ==
    ASSUME NEW all \in Seq(RowStates), NEW offsets, offsets = [k \in DOMAIN all |-> k - 1]
    PROVE  Taken(all, offsets) = all
<1>1. Len(all) \in Nat /\ DOMAIN all = 1 .. Len(all) /\ all = [k \in DOMAIN all |-> all[k]]
    OBVIOUS
<1>2. DOMAIN offsets = DOMAIN all
    OBVIOUS
<1>3. \A k \in DOMAIN all : offsets[k] + 1 = k
    BY <1>1
<1>4. Taken(all, offsets) = [k \in DOMAIN all |-> all[k]]
    BY <1>2, <1>3 DEF Taken
<1> QED BY <1>1, <1>4

\* A part that a read opens is of a state since the reader's records.
LEMMA OpenedGood ==
    ASSUME OverUsers(handles), NEW u \in Users, Reads(u), NEW f \in Files, NEW g, NEW offsets,
           OpenPart(u, f, g, offsets)
    PROVE  /\ handles' = [handles EXCEPT ![u] = handles'[u]]
           /\ handles'[u] \in Seq(GoodHandles(source, opened[u]))
<1> DEFINE H == GoodHandles(source, opened[u])
<1>1. handles[u] \in Seq(H)
    BY ReaderHas
<1>2. MaxHandles \in Nat
    BY TabularPartsAssumption
<1>3. handles'[u] \in Seq(H) /\ handles' = [handles EXCEPT ![u] = handles'[u]]
    <2>1. CASE handles' = handles
        BY <1>1, <2>1 DEF OverUsers
    <2>2. CASE handles' = [handles EXCEPT ![u] = Newest(Append(Without(@, f), Handle(u, f)), MaxHandles)]
        <3>1. /\ handles'[u] = Newest(Append(Without(handles[u], f), Handle(u, f)), MaxHandles)
              /\ handles' = [handles EXCEPT ![u] = handles'[u]]
            BY <2>2 DEF OverUsers
        <3>2. Handle(u, f) \in H
            BY HandleGood
        <3> HIDE DEF H
        <3> QED BY <1>1, <1>2, <3>1, <3>2, UsedLast
    <2> QED BY <2>1, <2>2 DEF OpenPart
<1> QED BY <1>3

\* And so is what the read keeps of it.
LEMMA KeptGood ==
    ASSUME OverUsers(tables), OverUsers(handles),
           NEW u \in Users, Reads(u), NEW f \in Files, NEW g \in Nat \ {0}, NEW offsets \in Offsets,
           NEW rows, rows = Fetched(u, f, g, offsets), rows # <<>>,
           GoodRows(source, opened[u], f, g, offsets, rows),
           KeepGroup(u, f, g, offsets, rows), OpenPart(u, f, g, offsets)
    PROVE  /\ tables' = [tables EXCEPT ![u] = tables'[u]]
           /\ handles' = [handles EXCEPT ![u] = handles'[u]]
           /\ tables'[u] \in Seq(GoodTables(source, opened[u]))
           /\ handles'[u] \in Seq(GoodHandles(source, opened[u]))
<1> DEFINE S == GoodTables(source, opened[u])
           all == GroupRowsNow(u, f, g)
           key == IF IsIn(tables[u], <<f, g, offsets>>) THEN <<f, g, offsets>>
                  ELSE KeyOf(f, g, offsets, all)
           entry == [key |-> key, rows |-> rows]
<1>1. /\ OpenGood(source, part, opened[u]) /\ source[f] \in DOMAIN Rows[f]
      /\ tables[u] \in Seq(S)
    BY ReaderHas
<1>2. MaxTables \in Nat
    BY TabularPartsAssumption
<1>3. rows \in Seq(RowStates)
    BY <1>1, GoodRowsAre DEF RowsOf
<1>4. \E given \in Offsets : key = <<f, g, given>> /\ GoodRows(source, opened[u], f, g, given, rows)
    <2>1. CASE IsIn(tables[u], <<f, g, offsets>>)
        BY <2>1
    <2>2. CASE ~IsIn(tables[u], <<f, g, offsets>>) /\ offsets # [k \in DOMAIN all |-> k - 1]
        BY <2>2 DEF KeyOf
    <2>3. CASE ~IsIn(tables[u], <<f, g, offsets>>) /\ offsets = [k \in DOMAIN all |-> k - 1]
        <3>1. key = <<f, g, Whole>> /\ Whole \in Offsets
            BY <2>3 DEF KeyOf, Offsets
        <3>2. PICK s \in Reached(source, opened[u], f) :
                s \in Nat /\ Rows[f][s] \in Nat /\ all = GroupOf(f, s, g)
            BY NowGood
        <3>3. all \in Seq(RowStates)
            BY <3>2, GroupOfIs
        <3>4. rows = IF all # <<>> /\ Fits(offsets, all) THEN Select(offsets, all) ELSE <<>>
            BY <2>3 DEF Fetched
        <3>5. all # <<>> /\ rows = Select(offsets, all)
            BY <3>4
        <3> HIDE DEF all
        <3>6. rows = all
            BY <2>3, <3>3, <3>5, AllTaken DEF Select
        <3>7. GoodRows(source, opened[u], f, g, Whole, rows)
            BY <3>2, <3>5, <3>6 DEF GoodRows, Fits, Select
        <3> QED BY <3>1, <3>7
    <2> QED BY <2>1, <2>2, <2>3
<1>5. entry \in S
    <2>1. PICK given \in Offsets : key = <<f, g, given>> /\ GoodRows(source, opened[u], f, g, given, rows)
        BY <1>4
    <2> HIDE DEF key
    <2>2. key \in Groups /\ key[1] = f /\ key[2] = g /\ key[3] = given
        BY <2>1 DEF Groups
    <2>3. entry \in [key : Groups, rows : Seq(RowStates)] /\ entry.key = key /\ entry.rows = rows
        BY <1>3, <2>2
    <2> QED BY <2>1, <2>2, <2>3 DEF GoodTables
<1>6. tables' = [tables EXCEPT ![u] = Newest(Append(Without(@, key), entry), MaxTables)]
    BY DEF KeepGroup
<1> HIDE DEF entry, key
<1>7. /\ tables'[u] = Newest(Append(Without(tables[u], key), entry), MaxTables)
      /\ tables' = [tables EXCEPT ![u] = tables'[u]]
    BY <1>6 DEF OverUsers
<1>8. tables'[u] \in Seq(S)
    <2> HIDE DEF S
    <2> QED BY <1>1, <1>2, <1>5, <1>7, UsedLast
<1>9. handles'[u] \in Seq(GoodHandles(source, opened[u])) /\ handles' = [handles EXCEPT ![u] = handles'[u]]
    BY OpenedGood
<1> QED BY <1>7, <1>8, <1>9

-----------------------------------------------------------------------------
(* TabularParts: where the rows of a reader are.                           *)

LEMMA StopsOf ==
    ASSUME NEW src, NEW prt, NEW o, OpenGood(src, prt, o), \A f \in Files : src[f] \in DOMAIN Rows[f]
    PROVE  /\ \A f \in Files :
                 /\ StartAt(o.stops, f) \in Nat /\ o.stops[f] \in Nat
                 /\ o.stops[f] = StartAt(o.stops, f) + CountOf(o, f)
                 /\ StartAt(o.stops, f + 1) = o.stops[f]
                 /\ o.stops[f] <= Last(o.stops)
           /\ StartAt(o.stops, 1) = 0
           /\ Last(o.stops) = o.stops[Len(Rows)] /\ Last(o.stops) \in Nat
           /\ \A i \in Nat : i < Last(o.stops) =>
                 \E f \in Files : StartAt(o.stops, f) <= i /\ i < o.stops[f]
           /\ \A i \in Nat : \A e, f \in Files :
                 /\ StartAt(o.stops, e) <= i /\ i < o.stops[e]
                 /\ StartAt(o.stops, f) <= i /\ i < o.stops[f]
                 => e = f
<1> DEFINE sizes == [f \in Files |-> CountOf(o, f)]
           L == Len(Rows)
<1>1. L \in Nat /\ L > 0 /\ Files = 1 .. L
    BY FilesAre
<1>2. \A f \in Files : CountOf(o, f) \in Nat
    BY OpenTypes
<1>3. sizes \in [1 .. L -> Nat]
    BY <1>1, <1>2
<1>4. sizes \in Seq(Nat) /\ Len(sizes) = L
    <2>1. sizes \in Seq(Nat)
        BY <1>1, <1>3, SeqMade
    <2> QED BY <1>1, <1>3, <2>1
<1>5. o.stops = Stops(sizes) /\ \A f \in Files : sizes[f] = CountOf(o, f)
    BY DEF OpenGood
<1> HIDE DEF sizes, L
<1> DEFINE T == Totals(sizes)
<1>6. /\ T[0] = 0 /\ (\A n \in 1 .. L : T[n] = T[n - 1] + sizes[n])
      /\ \A n \in 0 .. L : T[n] \in Nat
    BY <1>4, TotalsAre
<1>7. /\ Len(o.stops) = L /\ (\A n \in 1 .. L : o.stops[n] = T[n])
      /\ \A n \in 1 .. L + 1 : StartAt(o.stops, n) = T[n - 1]
    BY <1>4, <1>5, StopsAre
<1>8. \A n \in 0 .. L : T[n] <= T[L]
    <2> TAKE n \in 0 .. L
    <2>1. n \in 0 .. Len(sizes) /\ L \in n .. Len(sizes)
        BY <1>1, <1>4
    <2> QED BY <1>4, <2>1, TotalsGrow
<1>9. Last(o.stops) = o.stops[L] /\ Last(o.stops) = T[L] /\ Last(o.stops) \in Nat
    BY <1>1, <1>6, <1>7 DEF Last
<1>10. ASSUME NEW f \in Files
       PROVE  /\ StartAt(o.stops, f) \in Nat /\ o.stops[f] \in Nat
              /\ o.stops[f] = StartAt(o.stops, f) + CountOf(o, f)
              /\ StartAt(o.stops, f + 1) = o.stops[f]
              /\ o.stops[f] <= Last(o.stops)
    <2>1. f \in 1 .. L /\ f \in 1 .. L + 1 /\ f + 1 \in 1 .. L + 1 /\ f - 1 \in 0 .. L
          /\ f \in 0 .. L /\ (f + 1) - 1 = f
        BY <1>1
    <2>2. o.stops[f] = T[f] /\ StartAt(o.stops, f) = T[f - 1] /\ StartAt(o.stops, f + 1) = T[f]
        BY <1>7, <2>1
    <2>3. T[f] = T[f - 1] + CountOf(o, f) /\ T[f] \in Nat /\ T[f - 1] \in Nat
        BY <1>5, <1>6, <2>1
    <2> QED BY <1>8, <1>9, <2>1, <2>2, <2>3
<1>11. StartAt(o.stops, 1) = 0
    BY DEF StartAt
<1>12. ASSUME NEW i \in Nat, i < Last(o.stops)
       PROVE  \E f \in Files : StartAt(o.stops, f) <= i /\ i < o.stops[f]
    <2>1. PICK n \in 1 .. L : T[n - 1] <= i /\ i < T[n]
        BY <1>4, <1>9, <1>12, PlaceExists
    <2>2. n \in Files /\ n \in 1 .. L + 1
        BY <1>1
    <2> QED BY <1>7, <2>1, <2>2
<1>13. ASSUME NEW i \in Nat, NEW e \in Files, NEW f \in Files,
              StartAt(o.stops, e) <= i, i < o.stops[e],
              StartAt(o.stops, f) <= i, i < o.stops[f]
       PROVE  e = f
    <2>1. e \in 1 .. L /\ f \in 1 .. L /\ e \in 1 .. L + 1 /\ f \in 1 .. L + 1
        BY <1>1
    <2>2. T[e - 1] <= i /\ i < T[e] /\ T[f - 1] <= i /\ i < T[f]
        BY <1>7, <1>13, <2>1
    <2> QED BY <1>4, <2>1, <2>2, PlaceUnique
<1> QED BY <1>9, <1>10, <1>11, <1>12, <1>13 DEF L

LEMMA GroupStopsOf ==
    ASSUME NEW src, NEW prt, NEW o, OpenGood(src, prt, o),
           NEW f \in Files, src[f] \in DOMAIN Rows[f]
    PROVE  /\ CountOf(o, f) \in Nat /\ GroupCount(CountOf(o, f)) \in Nat
           /\ Len(o.records[f].groups) = GroupCount(CountOf(o, f))
           /\ DOMAIN o.groupStops[f] = 1 .. GroupCount(CountOf(o, f))
           /\ \A g \in 1 .. GroupCount(CountOf(o, f)) :
                 /\ o.records[f].groups[g] = GroupRows(CountOf(o, f))[g]
                 /\ GroupRows(CountOf(o, f))[g] \in Nat /\ GroupBegin(g) \in Nat
                 /\ GroupBegin(g) + GroupRows(CountOf(o, f))[g] <= CountOf(o, f)
                 /\ StartAt(o.groupStops[f], g) = GroupBegin(g)
                 /\ o.groupStops[f][g] = GroupBegin(g) + GroupRows(CountOf(o, f))[g]
                 /\ StartAt(o.groupStops[f], g + 1) = o.groupStops[f][g]
           /\ StartAt(o.groupStops[f], 1) = 0
           /\ StartAt(o.groupStops[f], GroupCount(CountOf(o, f)) + 1) = CountOf(o, f)
           /\ \A i \in Nat : i < CountOf(o, f) =>
                 \E g \in 1 .. GroupCount(CountOf(o, f)) :
                    GroupBegin(g) <= i /\ i < o.groupStops[f][g]
<1> DEFINE count == CountOf(o, f)
           n == GroupCount(count)
           rows == GroupRows(count)
           stops == o.groupStops[f]
           T == Totals(rows)
<1>1. count \in Nat /\ o.records[f].groups = rows
    BY OpenTypes
<1>2. stops = Stops(rows)
    BY DEF OpenGood
<1>3. rows \in Seq(Nat) /\ Len(rows) = n /\ DOMAIN rows = 1 .. n
    BY <1>1, GroupRowsAre
<1>4. n \in Nat /\ \A g \in 1 .. n : GroupBegin(g) \in Nat
    BY <1>1, GroupCountIs
<1>5. T[n] = count /\ \A g \in 1 .. n : T[g - 1] = GroupBegin(g) /\ T[g] = GroupBegin(g) + rows[g]
    BY <1>1, GroupTotal
<1> HIDE DEF count, n, rows, stops, T
<1>6. /\ T[0] = 0 /\ \A g \in 0 .. n : T[g] \in Nat
    BY <1>3, TotalsAre DEF T
<1>7. /\ DOMAIN stops = 1 .. n /\ (\A g \in 1 .. n : stops[g] = T[g])
      /\ \A g \in 1 .. n + 1 : StartAt(stops, g) = T[g - 1]
    BY <1>2, <1>3, StopsAre DEF T
<1>8. ASSUME NEW g \in 1 .. n
      PROVE  /\ rows[g] \in Nat /\ GroupBegin(g) \in Nat /\ GroupBegin(g) + rows[g] <= count
             /\ StartAt(stops, g) = GroupBegin(g)
             /\ stops[g] = GroupBegin(g) + rows[g]
             /\ StartAt(stops, g + 1) = stops[g]
    <2>1. g \in 1 .. n + 1 /\ g + 1 \in 1 .. n + 1 /\ (g + 1) - 1 = g /\ g \in 0 .. n
          /\ n \in g .. n
        BY <1>4
    <2>2. rows[g] \in Nat
        BY <1>3
    <2>3. T[g] <= T[n]
        BY <1>3, <2>1, TotalsGrow DEF T
    <2> QED BY <1>4, <1>5, <1>7, <2>1, <2>2, <2>3
<1>9. StartAt(stops, 1) = 0
    BY DEF StartAt
<1>10. StartAt(stops, n + 1) = count
    <2>1. n + 1 \in 1 .. n + 1 /\ (n + 1) - 1 = n
        BY <1>4
    <2> QED BY <1>5, <1>7, <2>1
<1>11. ASSUME NEW i \in Nat, i < count
       PROVE  \E g \in 1 .. n : GroupBegin(g) <= i /\ i < stops[g]
    <2>1. PICK g \in 1 .. n : T[g - 1] <= i /\ i < T[g]
        BY <1>3, <1>5, <1>11, PlaceExists DEF T
    <2> QED BY <1>5, <1>7, <2>1
<1> QED BY <1>1, <1>3, <1>4, <1>7, <1>8, <1>9, <1>10, <1>11 DEF count, n, rows, stops

\* A place of a group that begins at b in a file that begins at a is within the file.
LEMMA PlaceWithin ==
    ASSUME NEW a \in Nat, NEW b \in Nat, NEW c \in Nat, NEW n \in Nat, b + n <= c,
           NEW at \in Nat, at < n, NEW i, i = a + b + at
    PROVE  /\ i \in Nat /\ a <= i /\ i < a + c
           /\ i - a = b + at
OBVIOUS

\* A row of a group is at its place.
LEMMA RowInGroup ==
    ASSUME NEW src, NEW prt, NEW o, OpenGood(src, prt, o), \A f \in Files : src[f] \in DOMAIN Rows[f],
           NEW f \in Files, NEW g \in 1 .. GroupCount(CountOf(o, f)),
           NEW s \in Reached(src, o, f), NEW offsets, NEW rows, RowsOf(f, s, g, offsets, rows),
           NEW k \in 1 .. Len(rows), NEW at \in Nat,
           at = IF offsets = Whole THEN k - 1 ELSE offsets[k],
           at < GroupRows(CountOf(o, f))[g]
    PROVE  RightRow(src, o, StartOf(o, f, g) + at, rows[k])
<1>1. rows[k] = [file |-> f, state |-> s, row |-> GroupBegin(g) + at]
    BY DEF RowsOf
<1>2. /\ GroupRows(CountOf(o, f))[g] \in Nat /\ GroupBegin(g) \in Nat
      /\ GroupBegin(g) + GroupRows(CountOf(o, f))[g] <= CountOf(o, f)
      /\ StartAt(o.groupStops[f], g) = GroupBegin(g)
      /\ CountOf(o, f) \in Nat
    BY GroupStopsOf
<1>3. /\ StartAt(o.stops, f) \in Nat /\ o.stops[f] = StartAt(o.stops, f) + CountOf(o, f)
    BY StopsOf
<1> DEFINE i == StartOf(o, f, g) + at
<1>4. i = StartAt(o.stops, f) + GroupBegin(g) + at
    BY <1>2 DEF StartOf
<1> HIDE DEF i
<1>5. /\ i \in Nat /\ StartAt(o.stops, f) <= i /\ i < o.stops[f]
      /\ i - StartAt(o.stops, f) = GroupBegin(g) + at
    <2> DEFINE a == StartAt(o.stops, f)
               b == GroupBegin(g)
               c == CountOf(o, f)
               n == GroupRows(CountOf(o, f))[g]
    <2>1. /\ a \in Nat /\ b \in Nat /\ c \in Nat /\ n \in Nat /\ b + n <= c
          /\ at < n /\ i = a + b + at
        BY <1>2, <1>3, <1>4
    <2>2. o.stops[f] = a + c
        BY <1>3
    <2> HIDE DEF a, b, c, n
    <2>3. i \in Nat /\ a <= i /\ i < a + c /\ i - a = b + at
        BY <2>1, PlaceWithin
    <2>4. i < o.stops[f]
        BY <2>2, <2>3
    <2> QED BY <2>3, <2>4 DEF a, b
<1>6. /\ rows[k].file = f /\ rows[k].row = i - StartAt(o.stops, f)
      /\ rows[k].state \in Reached(src, o, f)
    BY <1>1, <1>5
<1> QED BY <1>5, <1>6 DEF RightRow, i

-----------------------------------------------------------------------------
(* TabularParts: a step keeps the invariant when its own part is kept.     *)

LEMMA RowsInit == TInit => RowsInv
<1> SUFFICES ASSUME TInit PROVE RowsInv
    OBVIOUS
<1>1. RowsTypeOK
    BY DEF TInit, RowsTypeOK, OverUsers
<1>2. WorldGood(source, part, manifest)
    <2>1. \A f \in Files : 1 \in DOMAIN Rows[f]
        BY FilesAre
    <2> QED BY <2>1 DEF TInit, WorldGood
<1>3. ASSUME NEW u \in Users
      PROVE  /\ ~Locked(prepare[u]) /\ prepare[u].pc = "idle"
             /\ CallGood(source, part, prepare[u], jobs[u])
             /\ UserInv(u)
    <2>1. prepare[u] = NotPreparing /\ jobs[u] = NoJobs
        BY DEF TInit
    <2>2. \A f \in Files : GoodJob(source, part, f, prepare[u].since, jobs[u][f])
        BY <2>1 DEF GoodJob, NoJobs, NoJob
    <2>3. CallGood(source, part, prepare[u], jobs[u])
        BY <2>1, <2>2 DEF CallGood, NotPreparing, NoJobs
    <2>4. UserInv(u)
        BY DEF TInit, UserInv, UserGood
    <2> QED BY <2>1, <2>3, <2>4 DEF NotPreparing, Locked
<1> QED BY <1>1, <1>2, <1>3 DEF RowsInv

\* A file was rewritten: the rest stays as it is.
LEMMA RewriteKeeps ==
    ASSUME RowsInv, NEW f \in Files, Rewrite(f)
    PROVE  RowsInv'
<1>1. WorldGood(source, part, manifest)
    BY DEF RowsInv
<1>2. \A e \in Files : source[e] \in DOMAIN Rows[e] /\ source[e] \in Nat
    BY <1>1, FilesAre DEF WorldGood
<1>3. source' = [source EXCEPT ![f] = source[f] + 1] /\ source[f] < Len(Rows[f])
    BY DEF Rewrite
<1>4. source' = [e \in Files |-> source'[e]]
      /\ \A e \in Files : source'[e] = IF e = f THEN source[f] + 1 ELSE source[e]
    BY <1>1, <1>3 DEF WorldGood
<1>5. ASSUME NEW e \in Files PROVE source[e] <= source'[e] /\ source'[e] \in DOMAIN Rows[e]
    <2>1. DOMAIN Rows[e] = 1 .. Len(Rows[e]) /\ Len(Rows[e]) \in Nat
        BY FilesAre
    <2> QED BY <1>2, <1>3, <1>4, <2>1
<1>6. Forward(source, part, source', part')
    BY <1>5 DEF Rewrite, Forward
<1>7. WorldGood(source', part', manifest')
    <2>1. part' = part /\ manifest' = manifest
        BY DEF Rewrite
    <2>2. part' = [e \in Files |-> part'[e]]
        BY <1>1, <2>1 DEF WorldGood
    <2>3. WorldGood(source', part', manifest)
        BY <1>1, <1>4, <1>6, <2>2, WorldStays
    <2> QED BY <2>1, <2>3
<1>8. ASSUME NEW u \in Users PROVE CallGood(source', part', prepare'[u], jobs'[u])
    <2>1. CallGood(source, part, prepare[u], jobs[u]) /\ part' = part
          /\ prepare'[u] = prepare[u] /\ jobs'[u] = jobs[u]
        BY DEF RowsInv, Rewrite
    <2>2. jobs[u] = [e \in Files |-> jobs[u][e]]
        BY <2>1 DEF CallGood
    <2>3. CallGood(source', part', prepare[u], jobs[u])
        BY <1>2, <1>6, <2>1, <2>2, CallStays
    <2> QED BY <2>1, <2>3
<1>9. ASSUME NEW u \in Users PROVE UserInv(u)'
    <2>1. UserGood(source, part, opened[u], tables[u], handles[u], scan[u], got[u])
        BY DEF RowsInv, UserInv
    <2>2. UserGood(source', part', opened[u], tables[u], handles[u], scan[u], got[u])
        BY <1>2, <1>6, <2>1, UserStays
    <2> QED BY <2>2 DEF Rewrite, UserInv
<1>10. RowsTypeOK' /\ \A u \in Users : /\ Locked(prepare'[u]) => preparing' = u
                                       /\ prepare'[u].pc # "idle" => opened'[u] = Nil
    BY DEF RowsInv, RowsTypeOK, Rewrite, OverUsers
<1> QED BY <1>7, <1>8, <1>9, <1>10 DEF RowsInv

\* A step of one call of ensure_records, which may write the manifest.
LEMMA PreparedKeeps ==
    ASSUME RowsInv, NEW u \in Users,
           UNCHANGED <<source, part, tables, handles, scan, got>>,
           WorldGood(source, part, manifest'),
           prepare' = [prepare EXCEPT ![u] = prepare'[u]],
           jobs' = [jobs EXCEPT ![u] = jobs'[u]],
           opened' = [opened EXCEPT ![u] = opened'[u]],
           CallGood(source, part, prepare'[u], jobs'[u]),
           Locked(prepare'[u]) => preparing' = u,
           preparing' = preparing \/ preparing \in {u, Nil},
           prepare'[u].pc # "idle" => opened'[u] = Nil,
           \/ opened'[u] = opened[u]
           \/ opened[u] = Nil /\ OpenGood(source, part, opened'[u])
    PROVE  RowsInv'
<1>1. /\ RowsTypeOK
      /\ \A v \in Users : /\ Locked(prepare[v]) => preparing = v
                          /\ prepare[v].pc # "idle" => opened[v] = Nil
                          /\ CallGood(source, part, prepare[v], jobs[v])
                          /\ UserInv(v)
    BY DEF RowsInv
<1>2. RowsTypeOK'
    BY <1>1 DEF RowsTypeOK, OverUsers
<1>3. \A v \in Users : v # u =>
        prepare'[v] = prepare[v] /\ jobs'[v] = jobs[v] /\ opened'[v] = opened[v]
    BY <1>1 DEF RowsTypeOK, OverUsers
<1>4. Nil \notin Users
    BY TabularPartsAssumption
<1>5. \A v \in Users : Locked(prepare'[v]) => preparing' = v
    BY <1>1, <1>3, <1>4
<1>6. \A v \in Users : prepare'[v].pc # "idle" => opened'[v] = Nil
    BY <1>1, <1>3
<1>7. \A v \in Users : CallGood(source, part, prepare'[v], jobs'[v])
    BY <1>1, <1>3
<1>8. ASSUME NEW v \in Users
      PROVE  UserGood(source, part, opened'[v], tables[v], handles[v], scan[v], got[v])
    <2>1. UserGood(source, part, opened[v], tables[v], handles[v], scan[v], got[v])
        BY <1>1 DEF UserInv
    <2>2. CASE opened'[v] = opened[v]
        BY <2>1, <2>2
    <2>3. CASE v = u /\ opened[u] = Nil /\ OpenGood(source, part, opened'[u])
        <3>1. tables[v] = <<>> /\ handles[v] = <<>> /\ scan[v] = Nil /\ got[v] = Nil
            BY <2>1, <2>3 DEF UserGood
        <3>2. tables[v] \in Seq(GoodTables(source, opened'[v]))
              /\ handles[v] \in Seq(GoodHandles(source, opened'[v]))
            BY <3>1
        <3> QED BY <2>3, <3>1, <3>2 DEF UserGood
    <2> QED BY <1>3, <2>2, <2>3
<1>9. \A v \in Users : UserInv(v)'
    BY <1>8 DEF UserInv
<1>10. WorldGood(source', part', manifest')
    OBVIOUS
<1>11. \A v \in Users : CallGood(source', part', prepare'[v], jobs'[v])
    BY <1>7
<1> QED BY <1>2, <1>5, <1>6, <1>9, <1>10, <1>11 DEF RowsInv

\* A step of one conversion, which may put a part in place.
LEMMA JobKeeps ==
    ASSUME RowsInv, NEW u \in Users, NEW f \in Files, NEW work, JobStep(u, f, work),
           prepare[u].pc = "convert", jobs[u][f].pc # "none", work.pc # "none",
           part' = [part EXCEPT ![f] = part'[f]],
           part'[f] = part[f] \/ IsPart(f, source[f], part'[f]),
           GoodJob(source, part', f, prepare[u].since, work)
    PROVE  RowsInv'
<1>1. /\ RowsTypeOK /\ WorldGood(source, part, manifest)
      /\ \A v \in Users : /\ Locked(prepare[v]) => preparing = v
                          /\ prepare[v].pc # "idle" => opened[v] = Nil
                          /\ CallGood(source, part, prepare[v], jobs[v])
                          /\ UserInv(v)
    BY DEF RowsInv
<1>2. /\ UNCHANGED <<source, manifest, preparing, prepare, opened, tables, handles, scan, got>>
      /\ jobs' = [jobs EXCEPT ![u][f] = work]
    BY DEF JobStep
<1>3. \A e \in Files : source[e] \in DOMAIN Rows[e] /\ source[e] \in Nat
    BY <1>1, FilesAre DEF WorldGood
<1>4. part' = [e \in Files |-> part'[e]] /\ \A e \in Files : e # f => part'[e] = part[e]
    BY <1>1 DEF WorldGood
<1>5. Forward(source, part, source, part')
    BY <1>3, <1>4 DEF Forward
<1>6. WorldGood(source, part', manifest)
    <2>1. source = [e \in Files |-> source[e]]
        BY <1>1 DEF WorldGood
    <2> QED BY <1>1, <1>4, <1>5, <2>1, WorldStays
<1>7. RowsTypeOK'
    BY <1>1, <1>2 DEF RowsTypeOK, OverUsers
<1>8. /\ jobs'[u] = [jobs[u] EXCEPT ![f] = work]
      /\ \A v \in Users : v # u => jobs'[v] = jobs[v]
    BY <1>1, <1>2 DEF RowsTypeOK, OverUsers
<1>9. ASSUME NEW v \in Users PROVE CallGood(source, part', prepare[v], jobs'[v])
    <2>1. CallGood(source, part, prepare[v], jobs[v]) /\ jobs[v] = [e \in Files |-> jobs[v][e]]
        BY <1>1 DEF CallGood
    <2>2. CASE v = u
        <3>1. /\ jobs'[v] = [e \in Files |-> jobs'[v][e]]
              /\ jobs'[v][f] = work /\ \A e \in Files : e # f => jobs'[v][e] = jobs[v][e]
            BY <1>8, <2>1, <2>2
        <3>2. \A e \in Files : \/ jobs'[v][e] = jobs[v][e] /\ (part'[e] = part[e] \/ jobs[v][e] = NoJob)
                               \/ /\ prepare[v].pc \in {"plan", "convert"} /\ jobs'[v][e].pc # "none"
                                  /\ GoodJob(source, part', e, prepare[v].since, jobs'[v][e])
            BY <1>4, <2>2, <3>1
        <3> QED BY <1>3, <1>5, <2>1, <3>1, <3>2, CallStays
    <2>3. CASE v # u
        <3>1. prepare[v].pc \notin {"plan", "convert"}
            BY <1>1, <2>3 DEF Locked
        <3>2. jobs[v] = NoJobs
            BY <2>1, <3>1 DEF CallGood
        <3>3. jobs'[v] = jobs[v] /\ \A e \in Files : jobs[v][e] = NoJob
            BY <1>8, <2>3, <3>2 DEF NoJobs
        <3> QED BY <1>3, <1>5, <2>1, <3>3, CallStays
    <2> QED BY <2>2, <2>3
<1>10. ASSUME NEW v \in Users PROVE UserInv(v)'
    <2>1. UserGood(source, part, opened[v], tables[v], handles[v], scan[v], got[v])
        BY <1>1 DEF UserInv
    <2>2. UserGood(source, part', opened[v], tables[v], handles[v], scan[v], got[v])
        BY <1>3, <1>5, <2>1, UserStays
    <2> QED BY <1>2, <2>2 DEF UserInv
<1>11. \A v \in Users : /\ Locked(prepare'[v]) => preparing' = v
                        /\ prepare'[v].pc # "idle" => opened'[v] = Nil
    BY <1>1, <1>2
<1> QED BY <1>2, <1>6, <1>7, <1>9, <1>10, <1>11 DEF RowsInv

\* A step of one reader.
LEMMA UserKeeps ==
    ASSUME RowsInv, NEW u \in Users, Reading(u),
           tables' = [tables EXCEPT ![u] = tables'[u]],
           handles' = [handles EXCEPT ![u] = handles'[u]],
           scan' = [scan EXCEPT ![u] = scan'[u]],
           got' = [got EXCEPT ![u] = got'[u]],
           UserGood(source, part, opened[u], tables'[u], handles'[u], scan'[u], got'[u])
    PROVE  RowsInv'
<1>1. /\ RowsTypeOK /\ WorldGood(source, part, manifest)
      /\ \A v \in Users : /\ Locked(prepare[v]) => preparing = v
                          /\ prepare[v].pc # "idle" => opened[v] = Nil
                          /\ CallGood(source, part, prepare[v], jobs[v])
                          /\ UserInv(v)
    BY DEF RowsInv
<1>2. UNCHANGED <<source, part, manifest, preparing, prepare, jobs, opened>>
    BY DEF Reading
<1>3. RowsTypeOK'
    BY <1>1, <1>2 DEF RowsTypeOK, OverUsers
<1>4. ASSUME NEW v \in Users
      PROVE  UserGood(source, part, opened[v], tables'[v], handles'[v], scan'[v], got'[v])
    <2>1. CASE v = u
        BY <2>1
    <2>2. CASE v # u
        <3>1. tables'[v] = tables[v] /\ handles'[v] = handles[v] /\ scan'[v] = scan[v] /\ got'[v] = got[v]
            BY <1>1, <2>2 DEF RowsTypeOK, OverUsers
        <3>2. UserGood(source, part, opened[v], tables[v], handles[v], scan[v], got[v])
            BY <1>1 DEF UserInv
        <3> QED BY <3>1, <3>2
    <2> QED BY <2>1, <2>2
<1>5. \A v \in Users : UserInv(v)'
    BY <1>2, <1>4 DEF UserInv
<1>6. WorldGood(source', part', manifest')
    BY <1>1, <1>2
<1>7. \A v \in Users : /\ Locked(prepare'[v]) => preparing' = v
                       /\ prepare'[v].pc # "idle" => opened'[v] = Nil
                       /\ CallGood(source', part', prepare'[v], jobs'[v])
    BY <1>1, <1>2
<1> QED BY <1>3, <1>5, <1>6, <1>7 DEF RowsInv

-----------------------------------------------------------------------------
(* TabularParts: the steps of ensure_records.                              *)

LEMMA CallHas ==
    ASSUME RowsInv, NEW u \in Users
    PROVE  /\ CallGood(source, part, prepare[u], jobs[u])
           /\ Locked(prepare[u]) => preparing = u
           /\ prepare[u].pc # "idle" => opened[u] = Nil
           /\ WorldGood(source, part, manifest)
           /\ \A f \in Files : source[f] \in DOMAIN Rows[f] /\ source[f] \in Nat /\ source[f] >= 1
           /\ prepare = [prepare EXCEPT ![u] = prepare[u]]
           /\ jobs = [jobs EXCEPT ![u] = jobs[u]]
           /\ opened = [opened EXCEPT ![u] = opened[u]]
<1>1. /\ CallGood(source, part, prepare[u], jobs[u])
      /\ Locked(prepare[u]) => preparing = u
      /\ prepare[u].pc # "idle" => opened[u] = Nil
      /\ WorldGood(source, part, manifest)
      /\ OverUsers(prepare) /\ OverUsers(jobs) /\ OverUsers(opened)
    BY DEF RowsInv, RowsTypeOK
<1>2. \A f \in Files : source[f] \in DOMAIN Rows[f] /\ source[f] \in Nat /\ source[f] >= 1
    BY <1>1, FilesAre DEF WorldGood
<1> QED BY <1>1, <1>2 DEF OverUsers

LEMMA PreparedIs ==
    ASSUME RowsInv, NEW u \in Users, NEW call, PrepareStep(u, call)
    PROVE  /\ prepare'[u] = call /\ prepare' = [prepare EXCEPT ![u] = prepare'[u]]
           /\ UNCHANGED <<source, part, tables, handles, scan, got>>
BY DEF RowsInv, RowsTypeOK, OverUsers, PrepareStep

LEMMA NoJobsGood ==
    ASSUME NEW src, NEW prt, NEW since
    PROVE  /\ NoJobs = [f \in Files |-> NoJobs[f]]
           /\ \A f \in Files : GoodJob(src, prt, f, since, NoJobs[f])
BY DEF NoJobs, GoodJob, NoJob

LEMMA IdleGood ==
    ASSUME NEW src, NEW prt
    PROVE  /\ CallGood(src, prt, NotPreparing, NoJobs)
           /\ ~Locked(NotPreparing) /\ NotPreparing.pc = "idle"
<1>1. /\ NoJobs = [f \in Files |-> NoJobs[f]]
      /\ \A f \in Files : GoodJob(src, prt, f, NotPreparing.since, NoJobs[f])
    BY NoJobsGood
<1> QED BY <1>1 DEF CallGood, NotPreparing, Locked

LEMMA LeaveIs ==
    ASSUME NEW u \in Users, Leave(u)
    PROVE  preparing' = preparing \/ preparing \in {u, Nil}
BY DEF Leave

\* A call that is given up leaves nothing.
LEMMA GivenUp ==
    ASSUME RowsInv, NEW u \in Users, Leave(u),
           UNCHANGED <<source, part, manifest, opened, tables, handles, scan, got>>,
           prepare' = [prepare EXCEPT ![u] = NotPreparing],
           jobs' = [jobs EXCEPT ![u] = NoJobs]
    PROVE  RowsInv'
<1>1. OverUsers(prepare) /\ OverUsers(jobs) /\ OverUsers(opened) /\ WorldGood(source, part, manifest)
    BY DEF RowsInv, RowsTypeOK
<1>2. prepare'[u] = NotPreparing /\ jobs'[u] = NoJobs
    BY <1>1 DEF OverUsers
<1>3. CallGood(source, part, prepare'[u], jobs'[u]) /\ ~Locked(prepare'[u]) /\ prepare'[u].pc = "idle"
    BY <1>2, IdleGood
<1>4. opened' = [opened EXCEPT ![u] = opened'[u]] /\ opened'[u] = opened[u]
    BY <1>1 DEF OverUsers
<1>5. WorldGood(source, part, manifest')
    BY <1>1
<1>6. preparing' = preparing \/ preparing \in {u, Nil}
    BY LeaveIs
<1>7. /\ prepare' = [prepare EXCEPT ![u] = prepare'[u]]
      /\ jobs' = [jobs EXCEPT ![u] = jobs'[u]]
      /\ UNCHANGED <<source, part, tables, handles, scan, got>>
    BY <1>2
<1> QED BY <1>3, <1>4, <1>5, <1>6, <1>7, PreparedKeeps

LEMMA FailBuildKeeps ==
    ASSUME RowsInv, NEW u \in Users, FailBuild(u)
    PROVE  RowsInv'
<1>1. /\ Leave(u) /\ UNCHANGED <<source, part, manifest, opened, tables, handles, scan, got>>
      /\ prepare' = [prepare EXCEPT ![u] = NotPreparing]
      /\ jobs' = [jobs EXCEPT ![u] = NoJobs]
    BY DEF FailBuild, PrepareStep
<1> QED BY <1>1, GivenUp

LEMMA DieKeeps ==
    ASSUME RowsInv, NEW u \in Users, Die(u)
    PROVE  RowsInv'
<1>1. /\ Leave(u) /\ UNCHANGED <<source, part, manifest, opened, tables, handles, scan, got>>
      /\ prepare' = [prepare EXCEPT ![u] = NotPreparing]
      /\ jobs' = [jobs EXCEPT ![u] = NoJobs]
    BY DEF Die
<1> QED BY <1>1, GivenUp

LEMMA BeginPrepareKeeps ==
    ASSUME RowsInv, NEW u \in Users, BeginPrepare(u)
    PROVE  RowsInv'
<1> DEFINE call == [pc |-> "look", at |-> 1, seen |-> manifest, since |-> source]
<1>1. /\ prepare[u] = NotPreparing /\ opened[u] = Nil
      /\ PrepareStep(u, call) /\ UNCHANGED <<manifest, preparing, jobs, opened>>
    BY DEF BeginPrepare
<1>2. /\ CallGood(source, part, prepare[u], jobs[u]) /\ WorldGood(source, part, manifest)
      /\ \A f \in Files : source[f] \in Nat /\ source[f] >= 1
      /\ jobs = [jobs EXCEPT ![u] = jobs[u]] /\ opened = [opened EXCEPT ![u] = opened[u]]
    BY CallHas
<1>3. jobs[u] = NoJobs
    BY <1>1, <1>2 DEF CallGood, NotPreparing
<1>4. Looks(source, part, call)
    <2>1. 1 \in 1 .. Len(Rows) + 1 /\ \A f \in Files : f \in Nat /\ ~(f < 1)
        BY FilesAre
    <2>2. manifest # Nil => \A f \in Files : GoodRecord(source, part, f, manifest[f])
        BY <1>2 DEF WorldGood
    <2> QED BY <2>1, <2>2 DEF Looks
<1>5. CallGood(source, part, call, NoJobs)
    <2>1. /\ NoJobs = [f \in Files |-> NoJobs[f]]
          /\ \A f \in Files : GoodJob(source, part, f, call.since, NoJobs[f])
        BY NoJobsGood
    <2>2. \A f \in Files : call.since[f] \in 1 .. source[f]
        BY <1>2
    <2>3. DOMAIN call = {"pc", "at", "seen", "since"} /\ call.pc = "look"
        OBVIOUS
    <2> HIDE DEF call
    <2> QED BY <1>4, <2>1, <2>2, <2>3 DEF CallGood
<1>6. call.pc = "look" /\ ~Locked(call)
    BY DEF Locked
<1> HIDE DEF call
<1>7. prepare'[u] = call /\ prepare' = [prepare EXCEPT ![u] = prepare'[u]]
      /\ UNCHANGED <<source, part, tables, handles, scan, got>>
    BY <1>1, PreparedIs
<1>8. /\ jobs' = [jobs EXCEPT ![u] = jobs'[u]] /\ opened' = [opened EXCEPT ![u] = opened'[u]]
      /\ opened'[u] = opened[u] /\ preparing' = preparing
      /\ CallGood(source, part, prepare'[u], jobs'[u]) /\ ~Locked(prepare'[u])
      /\ WorldGood(source, part, manifest')
    BY <1>1, <1>2, <1>3, <1>5, <1>6, <1>7
<1> QED BY <1>1, <1>7, <1>8, PreparedKeeps

LEMMA TakeLockKeeps ==
    ASSUME RowsInv, NEW u \in Users, TakeLock(u)
    PROVE  RowsInv'
<1> DEFINE call == [prepare[u] EXCEPT !.pc = "look", !.at = 1, !.seen = manifest]
<1>1. /\ prepare[u].pc = "wait" /\ preparing = Nil /\ preparing' = u
      /\ PrepareStep(u, call) /\ UNCHANGED <<manifest, jobs, opened>>
    BY DEF TakeLock
<1>2. /\ CallGood(source, part, prepare[u], jobs[u]) /\ WorldGood(source, part, manifest)
      /\ opened[u] = Nil
      /\ jobs = [jobs EXCEPT ![u] = jobs[u]] /\ opened = [opened EXCEPT ![u] = opened[u]]
    BY <1>1, CallHas
<1>3. /\ jobs[u] = NoJobs /\ DOMAIN prepare[u] = {"pc", "at", "seen", "since"}
      /\ \A f \in Files : prepare[u].since[f] \in 1 .. source[f]
    BY <1>1, <1>2 DEF CallGood
<1>4. /\ DOMAIN call = {"pc", "at", "seen", "since"}
      /\ call.pc = "look" /\ call.at = 1 /\ call.seen = manifest /\ call.since = prepare[u].since
    BY <1>3
<1> HIDE DEF call
<1>5. Looks(source, part, call)
    <2>1. 1 \in 1 .. Len(Rows) + 1 /\ \A f \in Files : f \in Nat /\ ~(f < 1)
        BY FilesAre
    <2>2. manifest # Nil => \A f \in Files : GoodRecord(source, part, f, manifest[f])
        BY <1>2 DEF WorldGood
    <2> QED BY <1>4, <2>1, <2>2 DEF Looks
<1>6. CallGood(source, part, call, NoJobs)
    <2>1. /\ NoJobs = [f \in Files |-> NoJobs[f]]
          /\ \A f \in Files : GoodJob(source, part, f, call.since, NoJobs[f])
        BY NoJobsGood
    <2> QED BY <1>3, <1>4, <1>5, <2>1 DEF CallGood
<1>7. prepare'[u] = call /\ prepare' = [prepare EXCEPT ![u] = prepare'[u]]
      /\ UNCHANGED <<source, part, tables, handles, scan, got>>
    BY <1>1, PreparedIs
<1>8. /\ jobs' = [jobs EXCEPT ![u] = jobs'[u]] /\ opened' = [opened EXCEPT ![u] = opened'[u]]
      /\ opened'[u] = opened[u] /\ opened'[u] = Nil
      /\ CallGood(source, part, prepare'[u], jobs'[u])
      /\ WorldGood(source, part, manifest')
    BY <1>1, <1>2, <1>3, <1>6, <1>7
<1> QED BY <1>1, <1>7, <1>8, PreparedKeeps

\* A reader that is made of records has their totals.
LEMMA OpensGood ==
    ASSUME RowsInv, NEW u \in Users, NEW records, OpenParts(u, records),
           prepare[u].pc # "idle", jobs[u] = NoJobs, UNCHANGED <<manifest, jobs>>, Leave(u),
           \A f \in Files : NewRecord(source, part, f, records[f], prepare[u].since)
    PROVE  RowsInv'
<1> DEFINE o == [records |-> records, stops |-> PartStops(records),
                 groupStops |-> [f \in Files |-> Stops(records[f].groups)],
                 since |-> prepare[u].since]
<1>1. /\ CallGood(source, part, prepare[u], jobs[u]) /\ WorldGood(source, part, manifest)
      /\ opened[u] = Nil
      /\ \A f \in Files : source[f] \in Nat
      /\ jobs = [jobs EXCEPT ![u] = jobs[u]] /\ opened = [opened EXCEPT ![u] = opened[u]]
    BY CallHas
<1>2. opened' = [opened EXCEPT ![u] = o] /\ PrepareStep(u, NotPreparing)
    BY DEF OpenParts
<1>3. /\ o.records = records /\ o.stops = PartStops(records)
      /\ o.groupStops = [f \in Files |-> Stops(records[f].groups)]
      /\ o.since = prepare[u].since
    OBVIOUS
<1> HIDE DEF o
<1>4. \A f \in Files : prepare[u].since[f] \in Nat
    BY <1>1 DEF CallGood
<1>5. ASSUME NEW f \in Files
      PROVE  /\ records[f].groups = GroupRows(CountOf(o, f))
             /\ Totals(records[f].groups)[Len(records[f].groups)] = CountOf(o, f)
    <2>1. records[f].groups = GroupRows(CountOf(o, f)) /\ CountOf(o, f) \in Nat
        BY <1>3 DEF NewRecord, GoodRecord, CountOf
    <2>2. Len(GroupRows(CountOf(o, f))) = GroupCount(CountOf(o, f))
        BY <2>1, GroupRowsAre
    <2>3. Totals(GroupRows(CountOf(o, f)))[GroupCount(CountOf(o, f))] = CountOf(o, f)
        BY <2>1, GroupTotal
    <2> QED BY <2>1, <2>2, <2>3
<1>6. o.stops = Stops([f \in Files |-> CountOf(o, f)])
    <2>1. [f \in Files |-> Totals(records[f].groups)[Len(records[f].groups)]]
            = [f \in Files |-> CountOf(o, f)]
        BY <1>5
    <2> QED BY <1>3, <2>1 DEF PartStops
<1>7. o.groupStops = [f \in Files |-> Stops(GroupRows(CountOf(o, f)))]
    BY <1>3, <1>5
<1>8. OpenGood(source, part, o)
    BY <1>3, <1>4, <1>6, <1>7 DEF OpenGood
<1>9. opened'[u] = o /\ opened' = [opened EXCEPT ![u] = opened'[u]]
    <2>1. OverUsers(opened)
        BY DEF RowsInv, RowsTypeOK
    <2> QED BY <1>2, <2>1 DEF OverUsers
<1>10. prepare'[u] = NotPreparing /\ prepare' = [prepare EXCEPT ![u] = prepare'[u]]
       /\ UNCHANGED <<source, part, tables, handles, scan, got>>
    BY <1>2, PreparedIs
<1>11. CallGood(source, part, prepare'[u], jobs'[u]) /\ ~Locked(prepare'[u]) /\ prepare'[u].pc = "idle"
    BY <1>10, IdleGood
<1>12. /\ jobs' = [jobs EXCEPT ![u] = jobs'[u]] /\ WorldGood(source, part, manifest')
       /\ OpenGood(source, part, opened'[u])
    BY <1>1, <1>8, <1>9
<1>13. preparing' = preparing \/ preparing \in {u, Nil}
    BY LeaveIs
<1> QED BY <1>1, <1>9, <1>10, <1>11, <1>12, <1>13, PreparedKeeps

LEMMA EndBuildKeeps ==
    ASSUME RowsInv, NEW u \in Users, EndBuild(u)
    PROVE  RowsInv'
<1>1. /\ prepare[u].pc = "written" /\ OpenParts(u, prepare[u].records) /\ Leave(u)
      /\ UNCHANGED <<manifest, jobs>>
    BY DEF EndBuild
<1>2. CallGood(source, part, prepare[u], jobs[u])
    BY CallHas
<1>3. /\ \A f \in Files : NewRecord(source, part, f, prepare[u].records[f], prepare[u].since)
      /\ jobs[u] = NoJobs
    BY <1>1, <1>2 DEF CallGood
<1>4. prepare[u].pc # "idle"
    BY <1>1
<1> QED BY <1>1, <1>3, <1>4, OpensGood

LEMMA LookKeeps ==
    ASSUME RowsInv, NEW u \in Users, Look(u)
    PROVE  RowsInv'
<1> DEFINE call == prepare[u]
<1>1. /\ CallGood(source, part, call, jobs[u]) /\ WorldGood(source, part, manifest)
      /\ \A f \in Files : source[f] \in Nat
      /\ jobs = [jobs EXCEPT ![u] = jobs[u]] /\ opened = [opened EXCEPT ![u] = opened[u]]
    BY CallHas
<1>2. call.pc = "look" /\ call.pc # "idle" /\ UNCHANGED <<manifest, jobs>>
    BY DEF Look
<1>3. opened[u] = Nil
    BY <1>2, CallHas
<1>4. /\ Looks(source, part, call) /\ jobs[u] = NoJobs
      /\ DOMAIN call = {"pc", "at", "seen", "since"}
      /\ \A f \in Files : call.since[f] \in 1 .. source[f]
    BY <1>1, <1>2 DEF CallGood
<1>5. Len(Rows) \in Nat /\ Len(Rows) > 0 /\ Files = 1 .. Len(Rows)
    BY FilesAre
<1>6. call.at \in Nat /\ call.at <= Len(Rows) + 1
    BY <1>4, <1>5 DEF Looks
\* No step of the other alternatives touches the lock or the reader.
<1>7. ASSUME NEW next, PrepareStep(u, next), UNCHANGED <<preparing, opened>>,
             CallGood(source, part, next, NoJobs), Locked(next) => preparing = u
      PROVE  RowsInv'
    <2>1. prepare'[u] = next /\ prepare' = [prepare EXCEPT ![u] = prepare'[u]]
          /\ UNCHANGED <<source, part, tables, handles, scan, got>>
        BY <1>7, PreparedIs
    <2>2. /\ jobs' = [jobs EXCEPT ![u] = jobs'[u]] /\ opened' = [opened EXCEPT ![u] = opened'[u]]
          /\ opened'[u] = opened[u] /\ opened'[u] = Nil
          /\ CallGood(source, part, prepare'[u], jobs'[u])
          /\ WorldGood(source, part, manifest')
          /\ preparing' = preparing /\ (Locked(prepare'[u]) => preparing' = u)
        BY <1>1, <1>2, <1>3, <1>4, <1>7, <2>1
    <2> QED BY <2>1, <2>2, PreparedKeeps
<1>8. ASSUME NEW since, \A f \in Files : since[f] \in 1 .. source[f]
      PROVE  /\ NoJobs = [f \in Files |-> NoJobs[f]]
             /\ \A f \in Files : GoodJob(source, part, f, since, NoJobs[f])
    BY NoJobsGood
<1>9. CASE call.seen # Nil /\ call.at > Len(Rows)
    <2>1. OpenParts(u, call.seen) /\ Leave(u)
        BY <1>9 DEF Look
    <2>2. ASSUME NEW f \in Files PROVE NewRecord(source, part, f, call.seen[f], call.since)
        <3>1. f < call.at
            BY <1>5, <1>6, <1>9
        <3> QED BY <1>4, <1>9, <3>1 DEF Looks, NewRecord
    <2> QED BY <1>2, <1>4, <2>1, <2>2, OpensGood
<1>10. CASE ~(call.seen # Nil /\ call.at > Len(Rows))
    <2>1. /\ UNCHANGED <<preparing, opened>>
          /\ IF call.seen # Nil /\ ValidRecord(call.at, call.seen[call.at])
             THEN PrepareStep(u, [call EXCEPT !.at = @ + 1])
             ELSE IF preparing = u
             THEN PrepareStep(u, [pc |-> "plan", at |-> 1, since |-> call.since, records |-> <<>>])
             ELSE PrepareStep(u, [call EXCEPT !.pc = "wait"])
        BY <1>10 DEF Look
    <2>2. CASE call.seen # Nil /\ ValidRecord(call.at, call.seen[call.at])
        <3> DEFINE next == [call EXCEPT !.at = call.at + 1]
        <3>1. PrepareStep(u, next)
            BY <2>1, <2>2
        <3>2. /\ next.pc = "look" /\ next.at = call.at + 1 /\ next.seen = call.seen
              /\ next.since = call.since /\ DOMAIN next = {"pc", "at", "seen", "since"}
            BY <1>2, <1>4
        <3> HIDE DEF next
        <3>3. call.at <= Len(Rows) /\ next.at \in 1 .. Len(Rows) + 1 /\ call.at \in Files
            <4>1. ~(call.at > Len(Rows))
                BY <1>10, <2>2
            <4>2. call.at \in 1 .. Len(Rows) + 1
                BY <1>4 DEF Looks
            <4> QED BY <1>5, <1>6, <3>2, <4>1, <4>2
        <3>4. ASSUME NEW f \in Files, f < call.at + 1
              PROVE  call.since[f] <= call.seen[f].state
            <4>1. CASE f < call.at
                BY <1>4, <2>2, <4>1 DEF Looks
            <4>2. CASE f = call.at
                <5>1. call.seen[f].state = source[f]
                    BY <2>2, <4>2 DEF ValidRecord
                <5>2. call.since[f] \in 1 .. source[f] /\ source[f] \in Nat
                    BY <1>1, <1>4
                <5> QED BY <5>1, <5>2
            <4>3. f \in Nat
                BY <1>5
            <4> QED BY <1>6, <3>4, <4>1, <4>2, <4>3
        <3>5. Looks(source, part, next)
            <4>1. \A f \in Files : GoodRecord(source, part, f, call.seen[f])
                BY <1>4, <2>2 DEF Looks
            <4> QED BY <3>2, <3>3, <3>4, <4>1 DEF Looks
        <3>6. CallGood(source, part, next, NoJobs)
            <4>1. \A f \in Files : next.since[f] \in 1 .. source[f]
                BY <1>4, <3>2
            <4> QED BY <1>8, <3>2, <3>5, <4>1 DEF CallGood
        <3>7. ~Locked(next)
            BY <3>2 DEF Locked
        <3> QED BY <1>7, <2>1, <3>1, <3>6, <3>7
    <2>3. CASE ~(call.seen # Nil /\ ValidRecord(call.at, call.seen[call.at])) /\ preparing = u
        <3> DEFINE next == [pc |-> "plan", at |-> 1, since |-> call.since, records |-> <<>>]
        <3>1. PrepareStep(u, next)
            BY <2>1, <2>3
        <3>2. /\ next.pc = "plan" /\ next.at = 1 /\ next.records = <<>>
              /\ next.since = call.since /\ DOMAIN next = {"pc", "at", "since", "records"}
            OBVIOUS
        <3> HIDE DEF next
        <3>3. Plans(source, part, next, NoJobs)
            <4>1. 1 \in 1 .. Len(Rows) + 1 /\ 1 <= Len(Rows) /\ 1 .. 1 - 1 = {}
                BY <1>5
            <4>2. DOMAIN <<>> = {} /\ <<>> = [f \in {} |-> <<>>[f]]
                OBVIOUS
            <4> QED BY <3>2, <4>1, <4>2 DEF Plans
        <3>4. CallGood(source, part, next, NoJobs)
            <4>1. \A f \in Files : next.since[f] \in 1 .. source[f]
                BY <1>4, <3>2
            <4> QED BY <1>8, <3>2, <3>3, <4>1 DEF CallGood
        <3> QED BY <1>7, <2>1, <2>3, <3>1, <3>4
    <2>4. CASE ~(call.seen # Nil /\ ValidRecord(call.at, call.seen[call.at])) /\ preparing # u
        <3> DEFINE next == [call EXCEPT !.pc = "wait"]
        <3>1. PrepareStep(u, next)
            BY <2>1, <2>4
        <3>2. /\ next.pc = "wait" /\ next.since = call.since
              /\ DOMAIN next = {"pc", "at", "seen", "since"}
            BY <1>2, <1>4
        <3> HIDE DEF next
        <3>3. CallGood(source, part, next, NoJobs)
            <4>1. \A f \in Files : next.since[f] \in 1 .. source[f]
                BY <1>4, <3>2
            <4> QED BY <1>8, <3>2, <4>1 DEF CallGood
        <3>4. ~Locked(next)
            BY <3>2 DEF Locked
        <3> QED BY <1>7, <2>1, <3>1, <3>3, <3>4
    <2> QED BY <2>2, <2>3, <2>4
<1> QED BY <1>9, <1>10

LEMMA Appended ==
    ASSUME NEW n \in Nat, NEW s, s = [k \in 1 .. n |-> s[k]], NEW e
    PROVE  /\ DOMAIN Append(s, e) = 1 .. n + 1
           /\ Append(s, e) = [k \in 1 .. n + 1 |-> Append(s, e)[k]]
           /\ Append(s, e)[n + 1] = e
           /\ \A k \in 1 .. n : Append(s, e)[k] = s[k]
<1> DEFINE S == {s[k] : k \in 1 .. n} \cup {e}
<1>1. s \in [1 .. n -> S]
    OBVIOUS
<1>2. s \in Seq(S) /\ e \in S
    BY <1>1, SeqMade
<1> HIDE DEF S
<1>3. Len(s) = n
    BY <1>1, <1>2
<1>4. Append(s, e) \in Seq(S) /\ Len(Append(s, e)) = n + 1
      /\ Append(s, e)[n + 1] = e /\ \A k \in 1 .. n : Append(s, e)[k] = s[k]
    BY <1>2, <1>3, AppendProperties
<1>5. DOMAIN Append(s, e) = 1 .. n + 1 /\ Append(s, e) = [k \in DOMAIN Append(s, e) |-> Append(s, e)[k]]
    BY <1>4
<1> QED BY <1>4, <1>5

LEMMA PlanFileKeeps ==
    ASSUME RowsInv, NEW u \in Users, PlanFile(u)
    PROVE  RowsInv'
<1> DEFINE call == prepare[u]
           at == call.at
           reused == manifest # Nil /\ ValidRecord(at, manifest[at])
           record == IF reused THEN manifest[at] ELSE Nil
           next == [call EXCEPT !.pc = IF at = Len(Rows) THEN "convert" ELSE "plan",
                                !.at = at + 1, !.records = Append(call.records, record)]
           work == IF reused THEN NoJob ELSE [pc |-> "new"]
<1>1. call.pc = "plan" /\ call.pc # "idle" /\ Locked(call)
    BY DEF PlanFile, Locked
<1>2. PrepareStep(u, next) /\ jobs' = [jobs EXCEPT ![u][at] = work]
      /\ UNCHANGED <<manifest, preparing, opened>>
    BY DEF PlanFile
<1>3. /\ CallGood(source, part, call, jobs[u]) /\ WorldGood(source, part, manifest)
      /\ preparing = u /\ opened[u] = Nil
      /\ \A f \in Files : source[f] \in Nat
      /\ opened = [opened EXCEPT ![u] = opened[u]]
    BY <1>1, CallHas
<1>4. /\ Plans(source, part, call, jobs[u])
      /\ DOMAIN call = {"pc", "at", "since", "records"}
      /\ \A f \in Files : call.since[f] \in 1 .. source[f]
      /\ jobs[u] = [f \in Files |-> jobs[u][f]]
      /\ \A f \in Files : GoodJob(source, part, f, call.since, jobs[u][f])
    BY <1>1, <1>3 DEF CallGood
<1>5. Len(Rows) \in Nat /\ Files = 1 .. Len(Rows)
    BY FilesAre
<1>6. at \in Files /\ at \in Nat /\ at - 1 \in Nat /\ (at - 1) + 1 = at /\ at <= Len(Rows)
      /\ at + 1 \in 1 .. Len(Rows) + 1 /\ (at + 1) - 1 = at
    <2>1. at \in 1 .. Len(Rows) + 1 /\ at <= Len(Rows)
        BY <1>1, <1>4 DEF Plans
    <2> QED BY <1>5, <2>1
<1>7. /\ DOMAIN next = {"pc", "at", "since", "records"} /\ next.since = call.since
      /\ next.pc = (IF at = Len(Rows) THEN "convert" ELSE "plan")
      /\ next.at = at + 1 /\ next.records = Append(call.records, record)
    BY <1>4
<1> HIDE DEF next, record
<1>8. jobs'[u] = [jobs[u] EXCEPT ![at] = work] /\ jobs' = [jobs EXCEPT ![u] = jobs'[u]]
    <2>1. OverUsers(jobs)
        BY DEF RowsInv, RowsTypeOK
    <2> QED BY <1>2, <2>1 DEF OverUsers
<1>9. /\ jobs'[u] = [f \in Files |-> jobs'[u][f]] /\ jobs'[u][at] = work
      /\ \A f \in Files : f # at => jobs'[u][f] = jobs[u][f]
    BY <1>4, <1>6, <1>8
<1>10. /\ DOMAIN next.records = 1 .. at /\ next.records = [f \in 1 .. at |-> next.records[f]]
       /\ next.records[at] = record
       /\ \A f \in 1 .. at - 1 : next.records[f] = call.records[f]
    <2>1. call.records = [f \in 1 .. at - 1 |-> call.records[f]]
        BY <1>4 DEF Plans
    <2>2. /\ DOMAIN Append(call.records, record) = 1 .. (at - 1) + 1
          /\ Append(call.records, record)
                = [k \in 1 .. (at - 1) + 1 |-> Append(call.records, record)[k]]
          /\ Append(call.records, record)[(at - 1) + 1] = record
          /\ \A k \in 1 .. at - 1 : Append(call.records, record)[k] = call.records[k]
        BY <1>6, <2>1, Appended
    <2> QED BY <1>6, <1>7, <2>2
<1>11. reused => NewRecord(source, part, at, record, call.since)
    <2> SUFFICES ASSUME reused PROVE NewRecord(source, part, at, record, call.since)
        OBVIOUS
    <2>1. record = manifest[at] /\ manifest[at].state = source[at]
        BY DEF record, ValidRecord
    <2>2. GoodRecord(source, part, at, manifest[at])
        BY <1>3, <1>6 DEF WorldGood
    <2>3. call.since[at] \in 1 .. source[at] /\ source[at] \in Nat
        BY <1>3, <1>4, <1>6
    <2> QED BY <2>1, <2>2, <2>3 DEF NewRecord
<1>12. work = NoJob => reused
    BY DEF NoJob
<1>13. GoodJob(source, part, at, call.since, work)
    BY DEF GoodJob, NoJob
<1> HIDE DEF reused, work
<1>14. Plans(source, part, next, jobs'[u])
    <2>1. next.pc = "plan" <=> next.at <= Len(Rows)
        BY <1>5, <1>6, <1>7
    <2>2. ASSUME NEW f \in 1 .. at, jobs'[u][f] = NoJob
          PROVE  NewRecord(source, part, f, next.records[f], next.since)
        <3>1. CASE f = at
            BY <1>7, <1>9, <1>10, <1>11, <1>12, <2>2, <3>1
        <3>2. CASE f # at
            <4>1. f \in 1 .. at - 1 /\ f \in Files
                BY <1>5, <1>6, <3>2
            <4>2. jobs[u][f] = NoJob
                BY <1>9, <2>2, <3>2, <4>1
            <4>3. NewRecord(source, part, f, call.records[f], call.since)
                BY <1>4, <4>1, <4>2 DEF Plans
            <4> QED BY <1>7, <1>10, <4>1, <4>3
        <3> QED BY <3>1, <3>2
    <2> QED BY <1>6, <1>7, <1>10, <2>1, <2>2 DEF Plans
<1>15. CallGood(source, part, next, jobs'[u])
    <2>1. \A f \in Files : GoodJob(source, part, f, next.since, jobs'[u][f])
        BY <1>4, <1>7, <1>9, <1>13
    <2>2. \A f \in Files : next.since[f] \in 1 .. source[f]
        BY <1>4, <1>7
    <2>3. next.pc \in {"plan", "convert"}
        BY <1>7
    <2>4. /\ next.pc \in {"idle", "look", "wait", "plan", "convert", "written"}
          /\ next.pc \notin {"idle", "look", "wait", "written"}
        BY <2>3
    <2> QED BY <1>7, <1>9, <1>14, <2>1, <2>2, <2>3, <2>4 DEF CallGood
<1>16. prepare'[u] = next /\ prepare' = [prepare EXCEPT ![u] = prepare'[u]]
       /\ UNCHANGED <<source, part, tables, handles, scan, got>>
    BY <1>2, PreparedIs
<1>17. /\ opened' = [opened EXCEPT ![u] = opened'[u]] /\ opened'[u] = opened[u] /\ opened'[u] = Nil
       /\ preparing' = preparing /\ preparing' = u
       /\ WorldGood(source, part, manifest') /\ CallGood(source, part, prepare'[u], jobs'[u])
    BY <1>2, <1>3, <1>15, <1>16
<1> QED BY <1>8, <1>16, <1>17, PreparedKeeps

LEMMA WriteManifestKeeps ==
    ASSUME RowsInv, NEW u \in Users, WriteManifest(u)
    PROVE  RowsInv'
<1> DEFINE call == prepare[u]
           next == [call EXCEPT !.pc = "written", !.records = manifest']
<1>1. /\ call.pc = "convert" /\ call.pc # "idle" /\ Locked(call)
      /\ \A f \in Files : jobs[u][f].pc \in {"none", "done"}
    BY DEF WriteManifest, Locked
<1>2. /\ PrepareStep(u, next) /\ UNCHANGED <<preparing, opened>>
      /\ manifest' = [f \in Files |-> Made(u, f)]
      /\ jobs' = [jobs EXCEPT ![u] = NoJobs]
    BY DEF WriteManifest
<1>3. /\ CallGood(source, part, call, jobs[u]) /\ WorldGood(source, part, manifest)
      /\ preparing = u /\ opened[u] = Nil
      /\ \A f \in Files : source[f] \in Nat
      /\ opened = [opened EXCEPT ![u] = opened[u]]
    BY <1>1, CallHas
<1>4. /\ Plans(source, part, call, jobs[u])
      /\ DOMAIN call = {"pc", "at", "since", "records"}
      /\ \A f \in Files : call.since[f] \in 1 .. source[f]
      /\ \A f \in Files : GoodJob(source, part, f, call.since, jobs[u][f])
    BY <1>1, <1>3 DEF CallGood
<1>5. Len(Rows) \in Nat /\ Files = 1 .. Len(Rows)
    BY FilesAre
<1>6. ASSUME NEW f \in Files PROVE NewRecord(source, part, f, Made(u, f), call.since)
    <2>1. CASE jobs[u][f] = NoJob
        <3>1. f \in 1 .. call.at - 1
            <4>1. ~(call.at <= Len(Rows)) /\ call.at \in 1 .. Len(Rows) + 1
                BY <1>1, <1>4 DEF Plans
            <4> QED BY <1>5, <4>1
        <3> QED BY <1>4, <2>1, <3>1 DEF Plans, Made
    <2>2. CASE jobs[u][f] # NoJob
        <3> DEFINE work == jobs[u][f]
        <3>1. GoodJob(source, part, f, call.since, work) /\ work.pc = "done"
            BY <1>1, <1>4, <2>2 DEF GoodJob
        <3>2. /\ work.state \in call.since[f] .. source[f] /\ Rows[f][work.state] \in Nat
              /\ IsPart(f, work.state, part[f]) /\ work.groups = GroupRows(Rows[f][work.state])
            BY <3>1 DEF GoodJob
        <3>3. Made(u, f).state = work.state /\ Made(u, f).groups = work.groups
            BY <2>2 DEF Made
        <3> HIDE DEF work
        <3>4. call.since[f] \in 1 .. source[f] /\ source[f] \in Nat
            BY <1>3, <1>4
        <3>5. /\ work.state \in 1 .. source[f] /\ call.since[f] <= work.state
              /\ work.state \in work.state .. source[f]
            BY <3>2, <3>4
        <3>6. PartSince(source, part, f, work.state)
            BY <3>2, <3>5 DEF PartSince
        <3> QED BY <3>2, <3>3, <3>5, <3>6 DEF NewRecord, GoodRecord
    <2> QED BY <2>1, <2>2
<1>7. \A f \in Files : NewRecord(source, part, f, manifest'[f], call.since)
    BY <1>2, <1>6
<1>8. WorldGood(source, part, manifest')
    <2>1. \A f \in Files : GoodRecord(source, part, f, manifest'[f])
        BY <1>7 DEF NewRecord
    <2> QED BY <1>3, <2>1 DEF WorldGood
<1>9. /\ next.pc = "written" /\ next.since = call.since /\ next.records = manifest'
    BY <1>4
<1> HIDE DEF next
<1>10. CallGood(source, part, next, NoJobs)
    <2>1. /\ NoJobs = [f \in Files |-> NoJobs[f]]
          /\ \A f \in Files : GoodJob(source, part, f, next.since, NoJobs[f])
        BY NoJobsGood
    <2>2. \A f \in Files : next.since[f] \in 1 .. source[f]
        BY <1>4, <1>9
    <2>3. \A f \in Files : NewRecord(source, part, f, next.records[f], next.since)
        BY <1>7, <1>9
    <2> QED BY <1>9, <2>1, <2>2, <2>3 DEF CallGood
<1>11. jobs'[u] = NoJobs /\ jobs' = [jobs EXCEPT ![u] = jobs'[u]]
    <2>1. OverUsers(jobs)
        BY DEF RowsInv, RowsTypeOK
    <2> QED BY <1>2, <2>1 DEF OverUsers
<1>12. prepare'[u] = next /\ prepare' = [prepare EXCEPT ![u] = prepare'[u]]
       /\ UNCHANGED <<source, part, tables, handles, scan, got>>
    BY <1>2, PreparedIs
<1>13. /\ opened' = [opened EXCEPT ![u] = opened'[u]] /\ opened'[u] = opened[u] /\ opened'[u] = Nil
       /\ preparing' = preparing /\ preparing' = u
       /\ CallGood(source, part, prepare'[u], jobs'[u])
    BY <1>2, <1>3, <1>10, <1>11, <1>12
<1> QED BY <1>8, <1>11, <1>12, <1>13, PreparedKeeps

-----------------------------------------------------------------------------
(* TabularParts: the steps of a conversion.                                *)

LEMMA JobHas ==
    ASSUME RowsInv, NEW u \in Users, NEW f \in Files, prepare[u].pc = "convert"
    PROVE  /\ GoodJob(source, part, f, prepare[u].since, jobs[u][f])
           /\ source[f] \in DOMAIN Rows[f] /\ source[f] \in Nat /\ Rows[f][source[f]] \in Int
           /\ prepare[u].since[f] \in 1 .. source[f]
           /\ part = [part EXCEPT ![f] = part[f]]
           /\ part = [e \in Files |-> part[e]]
<1>1. CallGood(source, part, prepare[u], jobs[u]) /\ WorldGood(source, part, manifest)
      /\ source[f] \in DOMAIN Rows[f] /\ source[f] \in Nat
    BY CallHas
<1>2. /\ GoodJob(source, part, f, prepare[u].since, jobs[u][f])
      /\ prepare[u].since[f] \in 1 .. source[f]
    BY <1>1 DEF CallGood
<1>3. part = [e \in Files |-> part[e]]
    BY <1>1 DEF WorldGood
<1>4. part = [part EXCEPT ![f] = part[f]]
    BY <1>3
<1>5. Rows[f][source[f]] \in Int
    BY <1>1, FilesAre
<1> QED BY <1>1, <1>2, <1>3, <1>4, <1>5

LEMMA FailedGood ==
    ASSUME NEW src, NEW prt, NEW f, NEW since
    PROVE  GoodJob(src, prt, f, since, [pc |-> "failed"])
BY DEF GoodJob

LEMMA BeginJobKeeps ==
    ASSUME RowsInv, NEW u \in Users, NEW f \in Files, BeginJob(u, f)
    PROVE  RowsInv'
<1> DEFINE work == [pc |-> "open", state |-> source[f]]
<1>1. /\ prepare[u].pc = "convert" /\ jobs[u][f].pc = "new" /\ JobStep(u, f, work) /\ part' = part
    BY DEF BeginJob, Working
<1>2. /\ source[f] \in Nat /\ prepare[u].since[f] \in 1 .. source[f]
      /\ part = [part EXCEPT ![f] = part[f]]
    BY <1>1, JobHas
<1>3. work.pc = "open" /\ work.state = source[f]
    OBVIOUS
<1> HIDE DEF work
<1>4. work.state \in prepare[u].since[f] .. source[f]
    BY <1>2, <1>3
<1>5. GoodJob(source, part', f, prepare[u].since, work)
    BY <1>3, <1>4 DEF GoodJob
<1>6. part' = [part EXCEPT ![f] = part'[f]] /\ part'[f] = part[f]
      /\ jobs[u][f].pc # "none" /\ work.pc # "none"
    BY <1>1, <1>2, <1>3
<1> QED BY <1>1, <1>5, <1>6, JobKeeps

LEMMA ReadHeadKeeps ==
    ASSUME RowsInv, NEW u \in Users, NEW f \in Files, ReadHead(u, f)
    PROVE  RowsInv'
<1> DEFINE count == Rows[f][source[f]]
           open == [pc |-> "head", state |-> source[f],
                    rows |-> [k \in 1 .. count \div 2 |-> source[f]]]
           work == IF ~Unchanged(u, f) \/ count < 0 THEN [pc |-> "failed"] ELSE open
<1>1. /\ prepare[u].pc = "convert" /\ jobs[u][f].pc = "open" /\ JobStep(u, f, work) /\ part' = part
    BY DEF ReadHead, Working
<1>2. /\ source[f] \in Nat /\ prepare[u].since[f] \in 1 .. source[f] /\ count \in Int
      /\ part = [part EXCEPT ![f] = part[f]]
    BY <1>1, JobHas
<1>3. GoodJob(source, part, f, prepare[u].since, [pc |-> "failed"])
    BY FailedGood
<1>4. ASSUME ~(count < 0) PROVE GoodJob(source, part, f, prepare[u].since, open)
    <2>1. /\ open.pc = "head" /\ open.state = source[f] /\ DOMAIN open = {"pc", "state", "rows"}
          /\ open.rows = [k \in 1 .. count \div 2 |-> source[f]]
        OBVIOUS
    <2> HIDE DEF open
    <2>2. open.state \in prepare[u].since[f] .. source[f] /\ Rows[f][open.state] \in Nat
        BY <1>2, <1>4, <2>1
    <2> QED BY <2>1, <2>2 DEF GoodJob
<1>5. GoodJob(source, part', f, prepare[u].since, work) /\ work.pc # "none"
    <2>1. open.pc = "head"
        OBVIOUS
    <2> HIDE DEF open, count
    <2> QED BY <1>1, <1>3, <1>4, <2>1
<1> HIDE DEF work
<1>6. part' = [part EXCEPT ![f] = part'[f]] /\ part'[f] = part[f] /\ jobs[u][f].pc # "none"
    BY <1>1, <1>2
<1> QED BY <1>1, <1>5, <1>6, JobKeeps

LEMMA RunsJoin ==
    ASSUME NEW S, NEW m \in Nat, NEW n \in Nat, NEW x \in S
    PROVE  /\ Len([k \in 1 .. m |-> x]) = m
           /\ [k \in 1 .. m |-> x] \o [k \in 1 .. n |-> x] = [k \in 1 .. m + n |-> x]
<1> DEFINE a == [k \in 1 .. m |-> x]
           b == [k \in 1 .. n |-> x]
<1>1. a \in [1 .. m -> S] /\ b \in [1 .. n -> S]
    OBVIOUS
<1>2. a \in Seq(S) /\ b \in Seq(S)
    BY <1>1, SeqMade
<1>3. Len(a) = m /\ Len(b) = n
    BY <1>1, <1>2
<1>4. (\A k \in 1 .. m : a[k] = x) /\ (\A k \in 1 .. n : b[k] = x)
    OBVIOUS
<1> HIDE DEF a, b
<1>5. /\ a \o b \in Seq(S) /\ Len(a \o b) = Len(a) + Len(b)
      /\ \A k \in 1 .. Len(a) : (a \o b)[k] = a[k]
      /\ \A k \in 1 .. Len(b) : (a \o b)[Len(a) + k] = b[k]
    BY <1>2, Joined
<1> DEFINE c == a \o b
<1>6. /\ c \in Seq(S) /\ Len(c) = m + n
      /\ (\A k \in 1 .. m : c[k] = x) /\ (\A k \in 1 .. n : c[m + k] = x)
    BY <1>3, <1>4, <1>5
<1> HIDE DEF c
<1>7. ASSUME NEW k \in 1 .. m + n PROVE c[k] = x
    <2>1. CASE k \in 1 .. m
        BY <1>6, <2>1
    <2>2. CASE k \notin 1 .. m
        <3>1. k - m \in 1 .. n /\ k = m + (k - m)
            BY <2>2
        <3>2. PICK j \in 1 .. n : k = m + j
            BY <3>1
        <3> QED BY <1>6, <3>2
    <2> QED BY <2>1, <2>2
<1>8. c = [k \in 1 .. m + n |-> c[k]]
    BY <1>6
<1>9. c = [k \in 1 .. m + n |-> x]
    BY <1>7, <1>8
<1> QED BY <1>3, <1>9 DEF a, b, c

LEMMA ReadTailKeeps ==
    ASSUME RowsInv, NEW u \in Users, NEW f \in Files, ReadTail(u, f)
    PROVE  RowsInv'
<1> DEFINE old == jobs[u][f]
           count == Rows[f][source[f]]
           rest == Max({0, count - Len(old.rows)})
           work == [old EXCEPT !.pc = "written", !.rows = @ \o [k \in 1 .. rest |-> source[f]]]
<1>1. /\ prepare[u].pc = "convert" /\ old.pc = "head" /\ JobStep(u, f, work) /\ part' = part
    BY DEF ReadTail, Working
<1>2. /\ source[f] \in Nat /\ count \in Int /\ part = [part EXCEPT ![f] = part[f]]
      /\ GoodJob(source, part, f, prepare[u].since, old)
    BY <1>1, JobHas
<1>3. /\ DOMAIN old = {"pc", "state", "rows"} /\ old.state \in prepare[u].since[f] .. source[f]
      /\ Rows[f][old.state] \in Nat
      /\ source[f] = old.state => old.rows = [k \in 1 .. count \div 2 |-> source[f]]
    BY <1>1, <1>2 DEF GoodJob
<1>4. /\ DOMAIN work = {"pc", "state", "rows"} /\ work.pc = "written" /\ work.state = old.state
      /\ work.rows = old.rows \o [k \in 1 .. rest |-> source[f]]
    BY <1>3
<1> HIDE DEF work
<1>5. ASSUME source[f] = old.state PROVE IsPart(f, old.state, work.rows)
    <2>1. count \in Nat /\ old.rows = [k \in 1 .. count \div 2 |-> source[f]]
        BY <1>3, <1>5
    <2>2. PICK first \in Nat, second \in Nat : first = count \div 2 /\ first + second = count
        <3>1. count \div 2 \in Nat /\ count - count \div 2 \in Nat
              /\ count \div 2 + (count - count \div 2) = count
            BY <2>1
        <3> QED BY <3>1
    <2>3. old.rows = [k \in 1 .. first |-> source[f]]
        BY <2>1, <2>2
    <2>4. Len(old.rows) = first
        BY <1>2, <2>3, RunsJoin
    <2>5. rest = second
        <3>1. Max({0, second}) = IF 0 >= second THEN 0 ELSE second
            BY GreatestOfTwo
        <3>2. count - Len(old.rows) = second
            BY <2>1, <2>2, <2>4
        <3>3. rest = Max({0, second})
            BY <3>2
        <3> HIDE DEF rest
        <3> QED BY <3>1, <3>3
    <2> HIDE DEF rest
    <2>6. work.rows = [k \in 1 .. first |-> source[f]] \o [k \in 1 .. second |-> source[f]]
        BY <1>4, <2>3, <2>5
    <2>7. [k \in 1 .. first |-> source[f]] \o [k \in 1 .. second |-> source[f]]
            = [k \in 1 .. first + second |-> source[f]]
        BY <1>2, RunsJoin
    <2>8. work.rows = [k \in 1 .. count |-> source[f]]
        BY <2>2, <2>6, <2>7
    <2> QED BY <1>5, <2>1, <2>8 DEF IsPart, WholePart
<1>6. GoodJob(source, part', f, prepare[u].since, work)
    BY <1>3, <1>4, <1>5 DEF GoodJob
<1>7. part' = [part EXCEPT ![f] = part'[f]] /\ part'[f] = part[f]
      /\ jobs[u][f].pc # "none" /\ work.pc # "none"
    BY <1>1, <1>2, <1>4
<1> QED BY <1>1, <1>6, <1>7, JobKeeps

LEMMA ReplacePartKeeps ==
    ASSUME RowsInv, NEW u \in Users, NEW f \in Files, ReplacePart(u, f)
    PROVE  RowsInv'
<1> DEFINE old == jobs[u][f]
           placed == [old EXCEPT !.pc = "placed"]
           failed == [pc |-> "failed"]
<1>1. prepare[u].pc = "convert" /\ old.pc = "written"
    BY DEF ReplacePart, Working
<1>2. /\ source[f] \in Nat /\ part = [part EXCEPT ![f] = part[f]] /\ part = [e \in Files |-> part[e]]
      /\ GoodJob(source, part, f, prepare[u].since, old)
    BY <1>1, JobHas
<1>3. CASE Unchanged(u, f)
    <2>1. JobStep(u, f, placed) /\ part' = [part EXCEPT ![f] = old.rows]
        BY <1>3 DEF ReplacePart
    <2>2. /\ DOMAIN old = {"pc", "state", "rows"} /\ old.state \in prepare[u].since[f] .. source[f]
          /\ source[f] = old.state /\ IsPart(f, old.state, old.rows)
        BY <1>1, <1>2, <1>3 DEF GoodJob, Unchanged
    <2>3. placed.pc = "placed" /\ placed.state = old.state
        BY <2>2
    <2> HIDE DEF placed
    <2>4. part'[f] = old.rows /\ part' = [part EXCEPT ![f] = part'[f]]
        BY <1>2, <2>1
    <2>5. IsPart(f, source[f], part'[f]) /\ Rows[f][old.state] \in Nat
        BY <2>2, <2>4 DEF IsPart
    <2>6. GoodJob(source, part', f, prepare[u].since, placed)
        BY <2>2, <2>3, <2>5 DEF GoodJob
    <2>7. jobs[u][f].pc # "none" /\ placed.pc # "none"
        BY <1>1, <2>3
    <2> QED BY <1>1, <2>1, <2>4, <2>5, <2>6, <2>7, JobKeeps
<1>4. CASE ~Unchanged(u, f)
    <2>1. JobStep(u, f, failed) /\ part' = part
        BY <1>4 DEF ReplacePart
    <2>2. GoodJob(source, part', f, prepare[u].since, failed)
        BY FailedGood
    <2>3. part' = [part EXCEPT ![f] = part'[f]] /\ part'[f] = part[f]
          /\ jobs[u][f].pc # "none" /\ failed.pc # "none"
        BY <1>1, <1>2, <2>1
    <2> QED BY <1>1, <2>1, <2>2, <2>3, JobKeeps
<1> QED BY <1>3, <1>4

LEMMA EndJobKeeps ==
    ASSUME RowsInv, NEW u \in Users, NEW f \in Files, EndJob(u, f)
    PROVE  RowsInv'
<1> DEFINE old == jobs[u][f]
           done == [pc |-> "done", state |-> old.state, groups |-> GroupRows(Len(part[f]))]
           failed == [pc |-> "failed"]
<1>1. prepare[u].pc = "convert" /\ old.pc = "placed" /\ part' = part
    BY DEF EndJob, Working
<1>2. /\ source[f] \in Nat /\ part = [part EXCEPT ![f] = part[f]]
      /\ GoodJob(source, part, f, prepare[u].since, old)
      /\ prepare[u].since[f] \in 1 .. source[f]
    BY <1>1, JobHas
<1>3. part' = [part EXCEPT ![f] = part'[f]] /\ part'[f] = part[f] /\ jobs[u][f].pc # "none"
    BY <1>1, <1>2
<1>4. CASE Unchanged(u, f)
    <2>1. JobStep(u, f, done)
        BY <1>4 DEF EndJob
    <2>2. /\ old.state \in prepare[u].since[f] .. source[f] /\ Rows[f][old.state] \in Nat
          /\ IsPart(f, old.state, part[f])
        BY <1>1, <1>2 DEF GoodJob
    <2>3. done.pc = "done" /\ done.state = old.state /\ done.groups = GroupRows(Len(part[f]))
        OBVIOUS
    <2> HIDE DEF done
    <2>4. Len(part[f]) = Rows[f][old.state]
        <3>1. old.state \in Nat
            BY <1>2, <2>2
        <3> QED BY <2>2, <3>1, WholePartIs DEF IsPart
    <2>5. GoodJob(source, part', f, prepare[u].since, done)
        BY <1>1, <2>2, <2>3, <2>4 DEF GoodJob
    <2>6. done.pc # "none"
        BY <2>3
    <2> QED BY <1>1, <1>3, <2>1, <2>5, <2>6, JobKeeps
<1>5. CASE ~Unchanged(u, f)
    <2>1. JobStep(u, f, failed)
        BY <1>5 DEF EndJob
    <2>2. GoodJob(source, part', f, prepare[u].since, failed) /\ failed.pc # "none"
        BY FailedGood
    <2> QED BY <1>1, <1>3, <2>1, <2>2, JobKeeps
<1> QED BY <1>4, <1>5

-----------------------------------------------------------------------------
(* TabularParts: the steps of a reader.                                    *)

LEMMA ShareTypes ==
    ASSUME NEW share \in Shares
    PROVE  share[1] \in Nat \ {0} /\ share[2] \in 0 .. share[1] - 1
BY TabularPartsAssumption

\* The rows of a share in one more group are the next ones of the share.
LEMMA ShareGrows ==
    ASSUME NEW share \in Shares, NEW start \in Nat, NEW count \in Nat,
           NEW indexes \in Seq(Nat), Rising(indexes), ToSet(indexes) = ShareUpTo(share, start),
           NEW offsets, offsets = ShareIn(share, start, count),
           NEW more, more = [k \in DOMAIN offsets |-> start + offsets[k]]
    PROVE  /\ offsets \in Seq(Nat) /\ more \in Seq(Nat) /\ Len(more) = Len(offsets)
           /\ \A k \in DOMAIN offsets : offsets[k] < count
           /\ indexes \o more \in Seq(Nat) /\ Rising(indexes \o more)
           /\ ToSet(indexes \o more) = ShareUpTo(share, start + count)
           /\ offsets = <<>> => ShareUpTo(share, start + count) = ShareUpTo(share, start)
<1>1. /\ offsets \in Seq(Nat) /\ Rising(offsets)
      /\ \A k \in DOMAIN offsets : offsets[k] < count /\ (start + offsets[k]) % share[1] = share[2]
      /\ \A i \in 0 .. count - 1 : (start + i) % share[1] = share[2] =>
            \E k \in DOMAIN offsets : offsets[k] = i
    BY ShareInIs
<1>2. share[1] \in Nat \ {0}
    BY ShareTypes
<1>3. /\ Len(offsets) \in Nat /\ DOMAIN offsets = 1 .. Len(offsets)
      /\ \A k \in 1 .. Len(offsets) : offsets[k] \in Nat
      /\ Len(indexes) \in Nat /\ DOMAIN indexes = 1 .. Len(indexes)
    <2>1. offsets \in Seq(Nat)
        BY <1>1
    <2> QED BY <2>1
<1>4. more \in [1 .. Len(offsets) -> Nat]
      /\ \A k \in 1 .. Len(offsets) : more[k] = start + offsets[k]
    BY <1>3
<1>5. more \in Seq(Nat) /\ Len(more) = Len(offsets) /\ DOMAIN more = 1 .. Len(offsets)
    <2>1. more \in Seq(Nat)
        BY <1>3, <1>4, SeqMade
    <2> QED BY <1>3, <1>4, <2>1
<1>6. Rising(more)
    <2>1. ASSUME NEW k \in 1 .. Len(offsets) - 1 PROVE more[k] < more[k + 1]
        <3>1. k \in 1 .. Len(offsets) /\ k + 1 \in 1 .. Len(offsets)
            BY <1>3
        <3>2. offsets[k] < offsets[k + 1]
            BY <1>1 DEF Rising
        <3> QED BY <1>3, <1>4, <3>1, <3>2
    <2> QED BY <1>5, <2>1 DEF Rising
<1>7. \A x : x \in ToSet(indexes) <=> x \in 0 .. start - 1 /\ x % share[1] = share[2]
    BY DEF ShareUpTo
<1>8. indexes # <<>> => \A k \in DOMAIN more : indexes[Len(indexes)] < more[k]
    <2> SUFFICES ASSUME indexes # <<>>, NEW k \in DOMAIN more
                 PROVE  indexes[Len(indexes)] < more[k]
        OBVIOUS
    <2>1. Len(indexes) \in DOMAIN indexes
        BY <1>3
    <2>2. indexes[Len(indexes)] \in ToSet(indexes)
        BY <2>1 DEF ToSet
    <2>3. indexes[Len(indexes)] \in 0 .. start - 1
        BY <1>7, <2>2
    <2>4. more[k] = start + offsets[k] /\ offsets[k] \in Nat
        BY <1>3, <1>4, <1>5
    <2> QED BY <2>3, <2>4
<1>9. indexes \o more \in Seq(Nat) /\ Rising(indexes \o more)
    <2>1. Rising(indexes \o more)
        BY <1>5, <1>6, <1>8, JoinRises
    <2> QED BY <1>5, <2>1, Joined
<1>10. /\ DOMAIN (indexes \o more) = 1 .. Len(indexes) + Len(more)
       /\ \A k \in 1 .. Len(indexes) : (indexes \o more)[k] = indexes[k]
       /\ \A k \in 1 .. Len(more) : (indexes \o more)[Len(indexes) + k] = more[k]
    BY <1>5, Joined
<1> DEFINE all == indexes \o more
<1>11. /\ DOMAIN all = 1 .. Len(indexes) + Len(offsets)
       /\ \A k \in 1 .. Len(indexes) : all[k] = indexes[k]
       /\ \A k \in 1 .. Len(offsets) : all[Len(indexes) + k] = more[k]
    BY <1>5, <1>10
<1> HIDE DEF all
<1>12. ASSUME NEW x \in ShareUpTo(share, start + count) PROVE x \in ToSet(all)
    <2>1. x \in 0 .. start + count - 1 /\ x % share[1] = share[2]
        BY DEF ShareUpTo
    <2>2. CASE x < start
        <3>1. x \in ToSet(indexes)
            BY <1>7, <2>1, <2>2
        <3>2. PICK k \in 1 .. Len(indexes) : x = indexes[k]
            BY <1>3, <3>1 DEF ToSet
        <3>3. k \in DOMAIN all /\ all[k] = x
            BY <1>3, <1>11, <3>2
        <3> QED BY <3>3 DEF ToSet
    <2>3. CASE x >= start
        <3>1. PICK i \in 0 .. count - 1 : x = start + i
            <4>1. x - start \in 0 .. count - 1 /\ x = start + (x - start)
                BY <2>1, <2>3
            <4> QED BY <4>1
        <3>2. PICK k \in 1 .. Len(offsets) : offsets[k] = i
            BY <1>1, <1>3, <2>1, <3>1
        <3>3. Len(indexes) + k \in DOMAIN all /\ all[Len(indexes) + k] = x
            BY <1>3, <1>4, <1>11, <3>1, <3>2
        <3> QED BY <3>3 DEF ToSet
    <2> QED BY <2>1, <2>2, <2>3
<1>13. ASSUME NEW x \in ToSet(all) PROVE x \in ShareUpTo(share, start + count)
    <2>1. PICK k \in DOMAIN all : x = all[k]
        BY DEF ToSet
    <2>2. CASE k \in 1 .. Len(indexes)
        <3>1. x = indexes[k] /\ k \in DOMAIN indexes
            BY <1>3, <1>11, <2>1, <2>2
        <3>2. x \in ToSet(indexes)
            BY <3>1 DEF ToSet
        <3>3. x \in 0 .. start - 1 /\ x % share[1] = share[2]
            BY <1>7, <3>2
        <3>4. x \in 0 .. start + count - 1
            BY <3>3
        <3> QED BY <3>3, <3>4 DEF ShareUpTo
    <2>3. CASE k \notin 1 .. Len(indexes)
        <3>1. PICK j \in 1 .. Len(offsets) : k = Len(indexes) + j
            <4>1. k - Len(indexes) \in 1 .. Len(offsets) /\ k = Len(indexes) + (k - Len(indexes))
                BY <1>3, <1>11, <2>3
            <4> QED BY <4>1
        <3>2. x = start + offsets[j] /\ offsets[j] \in Nat /\ offsets[j] < count
              /\ (start + offsets[j]) % share[1] = share[2]
            BY <1>1, <1>3, <1>4, <1>11, <2>1, <3>1
        <3>3. x \in 0 .. start + count - 1
            BY <3>2
        <3> QED BY <3>2, <3>3 DEF ShareUpTo
    <2> QED BY <2>2, <2>3
<1>14. ToSet(all) = ShareUpTo(share, start + count)
    BY <1>12, <1>13
<1>15. ASSUME offsets = <<>> PROVE ShareUpTo(share, start + count) = ShareUpTo(share, start)
    <2>1. Len(offsets) = 0
        BY <1>15
    <2>2. DOMAIN all = DOMAIN indexes /\ \A k \in DOMAIN all : all[k] = indexes[k]
        BY <1>3, <1>11, <2>1
    <2>3. ToSet(all) = ToSet(indexes)
        BY <2>2 DEF ToSet
    <2> QED BY <1>14, <2>3
<1> QED BY <1>1, <1>5, <1>9, <1>14, <1>15 DEF all

LEMMA ReadHas ==
    ASSUME RowsInv, NEW u \in Users, opened[u] # Nil
    PROVE  /\ Reads(u) /\ OpenGood(source, part, opened[u])
           /\ tables[u] \in Seq(GoodTables(source, opened[u]))
           /\ handles[u] \in Seq(GoodHandles(source, opened[u]))
           /\ scan[u] # Nil => ScanGood(source, opened[u], scan[u])
           /\ got[u] # Nil => GotGood(source, opened[u], got[u])
           /\ \A f \in Files : source[f] \in DOMAIN Rows[f] /\ source[f] \in Nat
           /\ OverUsers(tables) /\ OverUsers(handles) /\ OverUsers(scan) /\ OverUsers(got)
<1>1. /\ UserInv(u) /\ WorldGood(source, part, manifest)
      /\ OverUsers(tables) /\ OverUsers(handles) /\ OverUsers(scan) /\ OverUsers(got)
    BY DEF RowsInv, RowsTypeOK
<1>2. Reads(u)
    BY <1>1 DEF Reads
<1>3. \A f \in Files : source[f] \in DOMAIN Rows[f] /\ source[f] \in Nat
    BY <1>1, FilesAre DEF WorldGood
<1> QED BY <1>1, <1>2, <1>3 DEF UserInv, UserGood

LEMMA SameOver ==
    ASSUME NEW f, OverUsers(f), NEW u \in Users
    PROVE  f = [f EXCEPT ![u] = f[u]]
BY DEF OverUsers

LEMMA InheritKeeps ==
    ASSUME RowsInv, NEW u \in Users, NEW v \in Users, Inherit(u, v)
    PROVE  RowsInv'
<1>1. /\ opened[u] # Nil /\ opened[v] = Nil /\ prepare[v] = NotPreparing
      /\ opened' = [opened EXCEPT ![v] = opened[u]]
      /\ UNCHANGED <<source, part, manifest, preparing, prepare, jobs, tables, handles, scan, got>>
    BY DEF Inherit
<1>2. OpenGood(source, part, opened[u])
    BY <1>1, ReadHas
<1>3. /\ CallGood(source, part, prepare[v], jobs[v]) /\ WorldGood(source, part, manifest)
      /\ prepare = [prepare EXCEPT ![v] = prepare[v]] /\ jobs = [jobs EXCEPT ![v] = jobs[v]]
      /\ OverUsers(opened)
    BY CallHas DEF RowsInv, RowsTypeOK
<1>4. opened'[v] = opened[u] /\ opened' = [opened EXCEPT ![v] = opened'[v]]
    BY <1>1, <1>3 DEF OverUsers
<1>5. prepare'[v].pc = "idle" /\ ~Locked(prepare'[v])
    BY <1>1, IdleGood
<1>6. /\ prepare' = [prepare EXCEPT ![v] = prepare'[v]] /\ jobs' = [jobs EXCEPT ![v] = jobs'[v]]
      /\ CallGood(source, part, prepare'[v], jobs'[v]) /\ WorldGood(source, part, manifest')
      /\ OpenGood(source, part, opened'[v]) /\ preparing' = preparing
      /\ UNCHANGED <<source, part, tables, handles, scan, got>>
    BY <1>1, <1>2, <1>3, <1>4
<1> QED BY <1>1, <1>4, <1>5, <1>6, PreparedKeeps

LEMMA CloseReaderKeeps ==
    ASSUME RowsInv, NEW u \in Users, CloseReader(u)
    PROVE  RowsInv'
<1>1. /\ handles[u] # <<>> /\ Reading(u) /\ UNCHANGED <<scan, got>>
      /\ tables' = [tables EXCEPT ![u] = <<>>] /\ handles' = [handles EXCEPT ![u] = <<>>]
    BY DEF CloseReader
<1>2. opened[u] # Nil
    BY <1>1 DEF RowsInv, UserInv, UserGood
<1>3. /\ OpenGood(source, part, opened[u])
      /\ scan[u] # Nil => ScanGood(source, opened[u], scan[u])
      /\ got[u] # Nil => GotGood(source, opened[u], got[u])
      /\ OverUsers(tables) /\ OverUsers(handles) /\ OverUsers(scan) /\ OverUsers(got)
    BY <1>2, ReadHas
<1>4. /\ tables'[u] = <<>> /\ handles'[u] = <<>>
      /\ tables' = [tables EXCEPT ![u] = tables'[u]] /\ handles' = [handles EXCEPT ![u] = handles'[u]]
    BY <1>1, <1>3 DEF OverUsers
<1>5. scan' = [scan EXCEPT ![u] = scan'[u]] /\ got' = [got EXCEPT ![u] = got'[u]]
      /\ scan'[u] = scan[u] /\ got'[u] = got[u]
    BY <1>1, <1>3, SameOver
<1>6. tables'[u] \in Seq(GoodTables(source, opened[u])) /\ handles'[u] \in Seq(GoodHandles(source, opened[u]))
    BY <1>4
<1>7. UserGood(source, part, opened[u], tables'[u], handles'[u], scan'[u], got'[u])
    BY <1>2, <1>3, <1>5, <1>6 DEF UserGood
<1> QED BY <1>1, <1>4, <1>5, <1>7, UserKeeps

LEMMA BeginScanKeeps ==
    ASSUME RowsInv, NEW u \in Users, NEW share \in Shares, BeginScan(u, share)
    PROVE  RowsInv'
<1> DEFINE s == [share |-> share, file |-> 1, group |-> 1, indexes |-> <<>>, rows |-> <<>>]
           o == opened[u]
<1>1. /\ opened[u] # Nil /\ Reading(u) /\ UNCHANGED <<tables, handles, got>>
      /\ scan' = [scan EXCEPT ![u] = s]
    BY DEF BeginScan
<1>2. /\ OpenGood(source, part, o) /\ \A f \in Files : source[f] \in DOMAIN Rows[f]
      /\ tables[u] \in Seq(GoodTables(source, o)) /\ handles[u] \in Seq(GoodHandles(source, o))
      /\ got[u] # Nil => GotGood(source, o, got[u])
      /\ OverUsers(tables) /\ OverUsers(handles) /\ OverUsers(scan) /\ OverUsers(got)
    BY <1>1, ReadHas
<1>3. Len(Rows) \in Nat /\ Len(Rows) > 0 /\ 1 \in Files
    BY FilesAre
<1>4. /\ s.share = share /\ s.file = 1 /\ s.group = 1 /\ s.indexes = <<>> /\ s.rows = <<>>
      /\ DOMAIN s = {"share", "file", "group", "indexes", "rows"}
    OBVIOUS
<1> HIDE DEF s
<1>5. GroupCount(CountOf(o, 1)) \in Nat /\ StartAt(o.groupStops[1], 1) = 0
    BY <1>2, <1>3, GroupStopsOf
<1>6. StartAt(o.stops, 1) = 0
    BY <1>2, StopsOf
<1>7. ReachOf(o, s) = 0
    BY <1>3, <1>4, <1>5, <1>6 DEF ReachOf, StartOf
<1>8. ToSet(s.indexes) = ShareUpTo(s.share, ReachOf(o, s))
    <2>1. ToSet(<<>>) = {} /\ 0 .. 0 - 1 = {}
        BY DEF ToSet
    <2> QED BY <1>4, <1>7, <2>1 DEF ShareUpTo
<1>9. ScanGood(source, o, s)
    <2>1. /\ 1 \in 1 .. Len(Rows) + 1 /\ 1 \in 1 .. GroupCount(CountOf(o, 1)) + 1
          /\ <<>> \in Seq(Nat) /\ <<>> \in Seq(RowStates) /\ Len(<<>>) = 0 /\ DOMAIN <<>> = {}
        BY <1>3, <1>5
    <2>2. Rising(<<>>)
        BY <2>1 DEF Rising
    <2> QED BY <1>4, <1>8, <2>1, <2>2 DEF ScanGood
<1>10. scan'[u] = s /\ scan' = [scan EXCEPT ![u] = scan'[u]]
    BY <1>1, <1>2 DEF OverUsers
<1>11. /\ tables' = [tables EXCEPT ![u] = tables'[u]] /\ handles' = [handles EXCEPT ![u] = handles'[u]]
       /\ got' = [got EXCEPT ![u] = got'[u]]
       /\ tables'[u] = tables[u] /\ handles'[u] = handles[u] /\ got'[u] = got[u]
    BY <1>1, <1>2, SameOver
<1>12. UserGood(source, part, opened[u], tables'[u], handles'[u], scan'[u], got'[u])
    BY <1>1, <1>2, <1>9, <1>10, <1>11 DEF UserGood
<1> QED BY <1>1, <1>10, <1>11, <1>12, UserKeeps

\* The part and the group that bisection finds for a row.
LEMMA PlaceOfRow ==
    ASSUME NEW u \in Users, OpenGood(source, part, opened[u]),
           \A f \in Files : source[f] \in DOMAIN Rows[f], NEW i \in Nat, i < RowCount(u)
    PROVE  /\ PartOf(u, i) \in Files
           /\ PartStart(u, PartOf(u, i)) <= i /\ i < opened[u].stops[PartOf(u, i)]
           /\ GroupAt(u, PartOf(u, i), i) \in 1 .. GroupCount(CountOf(opened[u], PartOf(u, i)))
           /\ GroupStart(u, PartOf(u, i), GroupAt(u, PartOf(u, i), i)) \in Nat
           /\ GroupStart(u, PartOf(u, i), GroupAt(u, PartOf(u, i), i)) <= i
           /\ i - GroupStart(u, PartOf(u, i), GroupAt(u, PartOf(u, i), i))
                < GroupRows(CountOf(opened[u], PartOf(u, i)))[GroupAt(u, PartOf(u, i), i)]
<1> DEFINE o == opened[u]
           f == PartOf(u, i)
<1>1. i < Last(o.stops)
    BY DEF RowCount
<1>2. \E e \in Files : StartAt(o.stops, e) <= i /\ i < o.stops[e]
    BY <1>1, StopsOf
<1>3. f \in Files /\ StartAt(o.stops, f) <= i /\ i < o.stops[f]
    BY <1>2 DEF PartOf, PartStart
<1> HIDE DEF f
<1>4. StartAt(o.stops, f) \in Nat /\ o.stops[f] = StartAt(o.stops, f) + CountOf(o, f)
    BY <1>3, StopsOf
<1> DEFINE n == GroupCount(CountOf(o, f))
           g == GroupAt(u, f, i)
<1>5. /\ CountOf(o, f) \in Nat /\ DOMAIN o.groupStops[f] = 1 .. n
      /\ \A h \in 1 .. n : /\ GroupRows(CountOf(o, f))[h] \in Nat /\ GroupBegin(h) \in Nat
                           /\ StartAt(o.groupStops[f], h) = GroupBegin(h)
                           /\ o.groupStops[f][h] = GroupBegin(h) + GroupRows(CountOf(o, f))[h]
      /\ \A j \in Nat : j < CountOf(o, f) =>
            \E h \in 1 .. n : GroupBegin(h) <= j /\ j < o.groupStops[f][h]
    <2>1. f \in Files /\ source[f] \in DOMAIN Rows[f] /\ OpenGood(source, part, o)
        BY <1>3
    <2> HIDE DEF o
    <2>2. /\ CountOf(o, f) \in Nat
          /\ DOMAIN o.groupStops[f] = 1 .. GroupCount(CountOf(o, f))
          /\ \A h \in 1 .. GroupCount(CountOf(o, f)) :
                /\ GroupRows(CountOf(o, f))[h] \in Nat /\ GroupBegin(h) \in Nat
                /\ StartAt(o.groupStops[f], h) = GroupBegin(h)
                /\ o.groupStops[f][h] = GroupBegin(h) + GroupRows(CountOf(o, f))[h]
        BY <2>1, GroupStopsOf
    <2>3. \A j \in Nat : j < CountOf(o, f) =>
            \E h \in 1 .. GroupCount(CountOf(o, f)) : GroupBegin(h) <= j /\ j < o.groupStops[f][h]
        BY <2>1, GroupStopsOf
    <2> QED BY <2>2, <2>3
<1> HIDE DEF n
<1>6. PICK j \in Nat : i = StartAt(o.stops, f) + j /\ j < CountOf(o, f)
    <2>1. i - StartAt(o.stops, f) \in Nat /\ i - StartAt(o.stops, f) < CountOf(o, f)
          /\ i = StartAt(o.stops, f) + (i - StartAt(o.stops, f))
        BY <1>3, <1>4, <1>5
    <2> QED BY <2>1
<1>7. PICK h \in 1 .. n : GroupBegin(h) <= j /\ j < o.groupStops[f][h]
    BY <1>5, <1>6
<1>8. GroupStart(u, f, h) <= i /\ i - PartStart(u, f) < o.groupStops[f][h]
    BY <1>4, <1>5, <1>6, <1>7 DEF GroupStart, PartStart
<1>9. g \in 1 .. n /\ GroupStart(u, f, g) <= i /\ i - PartStart(u, f) < o.groupStops[f][g]
    BY <1>5, <1>8 DEF GroupAt
<1> HIDE DEF g
<1>10. GroupStart(u, f, g) = StartAt(o.stops, f) + GroupBegin(g)
    BY <1>5, <1>9 DEF GroupStart, PartStart
<1>11. GroupStart(u, f, g) \in Nat /\ i - GroupStart(u, f, g) < GroupRows(CountOf(o, f))[g]
    BY <1>4, <1>5, <1>9, <1>10 DEF PartStart
<1> QED BY <1>3, <1>9, <1>11 DEF f, g, n, PartStart

LEMMA ReadRowKeeps ==
    ASSUME RowsInv, NEW u \in Users, opened[u] # Nil, NEW i \in 0 .. RowCount(u) - 1, ReadRow(u, i)
    PROVE  RowsInv'
<1> DEFINE o == opened[u]
           f == PartOf(u, i)
           g == GroupAt(u, f, i)
           rows == Fetched(u, f, g, Whole)
           k == i - GroupStart(u, f, g) + 1
           count == CountOf(o, f)
<1>1. /\ Reads(u) /\ OpenGood(source, part, o)
      /\ \A e \in Files : source[e] \in DOMAIN Rows[e] /\ source[e] \in Nat
      /\ tables[u] \in Seq(GoodTables(source, o)) /\ handles[u] \in Seq(GoodHandles(source, o))
      /\ scan[u] # Nil => ScanGood(source, o, scan[u])
      /\ OverUsers(tables) /\ OverUsers(handles) /\ OverUsers(scan) /\ OverUsers(got)
    BY ReadHas
<1>2. /\ Reading(u) /\ scan' = scan
      /\ OpenPart(u, f, g, Whole)
      /\ IF rows = <<>> THEN UNCHANGED tables ELSE KeepGroup(u, f, g, Whole, rows)
      /\ got' = [got EXCEPT ![u] = IF k \in DOMAIN rows
                                   THEN Answer(Nil, <<i>>, <<rows[k]>>, FALSE)
                                   ELSE Answer(Nil, <<i>>, <<>>, TRUE)]
    BY DEF ReadRow
<1>3. i \in Nat /\ i < RowCount(u)
    <2>1. RowCount(u) \in Nat
        BY <1>1, StopsOf DEF RowCount
    <2> QED BY <2>1
<1>4. /\ f \in Files /\ g \in 1 .. GroupCount(count)
      /\ GroupStart(u, f, g) \in Nat /\ GroupStart(u, f, g) <= i
      /\ i - GroupStart(u, f, g) < GroupRows(count)[g]
    BY <1>1, <1>3, PlaceOfRow
<1>5. /\ Whole \in Offsets /\ count \in Nat /\ GroupRows(count)[g] \in Nat /\ GroupBegin(g) \in Nat
      /\ GroupCount(count) \in Nat
    BY <1>1, <1>4, GroupStopsOf DEF Offsets
<1>6. g \in Nat \ {0}
    BY <1>4, <1>5
<1>7. /\ rows # <<>> => GoodRows(source, o, f, g, Whole, rows)
      /\ rows = <<>> => source[f] > o.records[f].state
    BY <1>1, <1>4, <1>5, FetchedGood
<1>8. GroupStart(u, f, g) = StartOf(o, f, g)
    BY DEF GroupStart, PartStart, StartOf
<1>9. source[f] > o.records[f].state => GotGood(source, o, Answer(Nil, <<i>>, <<>>, TRUE))
    <2>1. /\ Answer(Nil, <<i>>, <<>>, TRUE).error = TRUE /\ Answer(Nil, <<i>>, <<>>, TRUE).rows = <<>>
          /\ DOMAIN <<>> = {}
        BY DEF Answer
    <2> QED BY <1>4, <2>1 DEF GotGood
<1> DEFINE end == [got EXCEPT ![u] = got'[u]]
<1>10. ASSUME got' = end, GotGood(source, o, got'[u]),
              tables' = [tables EXCEPT ![u] = tables'[u]],
              handles' = [handles EXCEPT ![u] = handles'[u]],
              tables'[u] \in Seq(GoodTables(source, o)), handles'[u] \in Seq(GoodHandles(source, o))
       PROVE  RowsInv'
    <2>1. scan' = [scan EXCEPT ![u] = scan'[u]] /\ scan'[u] = scan[u]
        BY <1>1, <1>2, SameOver
    <2>2. UserGood(source, part, opened[u], tables'[u], handles'[u], scan'[u], got'[u])
        BY <1>1, <1>10, <2>1 DEF UserGood
    <2> QED BY <1>2, <1>10, <2>1, <2>2, UserKeeps
<1> HIDE DEF f, g, rows, k, count
<1>11. CASE rows = <<>>
    <2>1. got' = [got EXCEPT ![u] = Answer(Nil, <<i>>, <<>>, TRUE)] /\ UNCHANGED tables
        <3>1. DOMAIN rows = {}
            BY <1>11
        <3> QED BY <1>2, <1>11, <3>1
    <2>2. got'[u] = Answer(Nil, <<i>>, <<>>, TRUE) /\ got' = end
        BY <1>1, <2>1 DEF OverUsers
    <2>3. tables' = [tables EXCEPT ![u] = tables'[u]] /\ tables'[u] = tables[u]
        BY <1>1, <2>1, SameOver
    <2>4. GotGood(source, o, got'[u])
        BY <1>7, <1>9, <1>11, <2>2
    <2>5. /\ handles' = [handles EXCEPT ![u] = handles'[u]]
          /\ handles'[u] \in Seq(GoodHandles(source, o))
        BY <1>1, <1>2, <1>4, OpenedGood
    <2> QED BY <1>1, <1>10, <2>2, <2>3, <2>4, <2>5
<1>12. CASE rows # <<>>
    <2> DEFINE answer == IF k \in DOMAIN rows THEN Answer(Nil, <<i>>, <<rows[k]>>, FALSE)
                         ELSE Answer(Nil, <<i>>, <<>>, TRUE)
    <2>1. KeepGroup(u, f, g, Whole, rows) /\ got' = [got EXCEPT ![u] = answer]
        BY <1>2, <1>12
    <2>2. /\ tables' = [tables EXCEPT ![u] = tables'[u]]
          /\ handles' = [handles EXCEPT ![u] = handles'[u]]
          /\ tables'[u] \in Seq(GoodTables(source, o))
          /\ handles'[u] \in Seq(GoodHandles(source, o))
        <3>1. rows = Fetched(u, f, g, Whole) /\ GoodRows(source, o, f, g, Whole, rows)
            BY <1>7, <1>12 DEF rows
        <3> QED BY <1>1, <1>2, <1>4, <1>5, <1>6, <1>12, <2>1, <3>1, KeptGood
    <2>3. got'[u] = answer /\ got' = end
        BY <1>1, <2>1 DEF OverUsers
    <2>4. PICK s \in Reached(source, o, f) : s \in Nat /\ Rows[f][s] \in Nat /\ RowsOf(f, s, g, Whole, rows)
        BY <1>1, <1>4, <1>5, <1>6, <1>7, <1>12, GoodRowsAre
    <2>5. /\ rows \in Seq(RowStates) /\ Len(rows) = GroupLength(Rows[f][s], g)
        BY <2>4 DEF RowsOf
    <2>6. k \in Nat /\ k >= 1 /\ k - 1 \in Nat /\ k <= GroupRows(count)[g]
          /\ k - 1 < GroupRows(count)[g] /\ StartOf(o, f, g) + (k - 1) = i
        BY <1>3, <1>4, <1>5, <1>8 DEF k
    <2>7. CASE k \in DOMAIN rows
        <3>1. k \in 1 .. Len(rows)
            BY <2>5, <2>7
        <3>2. RightRow(source, o, StartOf(o, f, g) + (k - 1), rows[k])
            <4>1. PICK at \in Nat : at = k - 1 /\ at < GroupRows(CountOf(o, f))[g]
                BY <2>6 DEF count
            <4>2. at = IF Whole = Whole THEN k - 1 ELSE Whole[k]
                BY <4>1
            <4>3. g \in 1 .. GroupCount(CountOf(o, f))
                BY <1>4 DEF count
            <4>4. RightRow(source, o, StartOf(o, f, g) + at, rows[k])
                BY <1>1, <1>4, <2>4, <3>1, <4>1, <4>2, <4>3, RowInGroup
            <4> QED BY <4>1, <4>4
        <3>3. RightRow(source, o, i, rows[k])
            BY <2>6, <3>2
        <3>4. answer = Answer(Nil, <<i>>, <<rows[k]>>, FALSE)
            BY <2>7
        <3>5. /\ answer.error = FALSE /\ answer.rows = <<rows[k]>> /\ answer.indexes = <<i>>
              /\ answer.share = Nil
            BY <3>4 DEF Answer
        <3> HIDE DEF answer
        <3>6. \A j \in DOMAIN answer.rows : RightRow(source, o, answer.indexes[j], answer.rows[j])
            <4>1. DOMAIN answer.rows = {1} /\ answer.rows[1] = rows[k] /\ answer.indexes[1] = i
                BY <3>5
            <4> QED BY <3>3, <4>1
        <3>7. GotGood(source, o, answer)
            BY <3>5, <3>6 DEF GotGood
        <3> QED BY <1>10, <2>2, <2>3, <3>7
    <2>8. CASE k \notin DOMAIN rows
        <3>1. s # o.records[f].state
            <4> SUFFICES ASSUME s = o.records[f].state PROVE FALSE
                OBVIOUS
            <4>1. Rows[f][s] = count
                BY DEF count, CountOf
            <4>2. GroupLength(count, g) = GroupRows(count)[g]
                BY <1>4, <1>5, GroupLengthFull
            <4>3. k \in 1 .. Len(rows)
                BY <1>5, <2>5, <2>6, <4>1, <4>2
            <4> QED BY <2>5, <2>8, <4>3
        <3>2. s \in o.records[f].state .. source[f] /\ o.records[f].state \in Nat /\ source[f] \in Nat
            BY <1>1, <1>4, <2>4, OpenTypes DEF Reached
        <3>3. source[f] > o.records[f].state
            BY <3>1, <3>2
        <3>4. GotGood(source, o, got'[u])
            BY <1>9, <2>3, <2>8, <3>3
        <3> QED BY <1>10, <2>2, <2>3, <3>4
    <2> QED BY <2>7, <2>8
<1> QED BY <1>11, <1>12

\* A scan that ends has the rows of its share, or failed on a file that was rewritten.
LEMMA EndScanKeeps ==
    ASSUME RowsInv, NEW u \in Users, opened[u] # Nil, scan[u] # Nil, Reading(u),
           NEW broken \in BOOLEAN, EndScan(u, broken),
           handles' = [handles EXCEPT ![u] = handles'[u]],
           handles'[u] \in Seq(GoodHandles(source, opened[u])),
           broken => \E f \in Files : source[f] > opened[u].records[f].state,
           ~broken => scan[u].file > Len(Rows)
    PROVE  RowsInv'
<1> DEFINE o == opened[u]
           s == scan[u]
           answer == Answer(s.share, s.indexes, s.rows, broken)
<1>1. /\ OpenGood(source, part, o) /\ ScanGood(source, o, s)
      /\ tables[u] \in Seq(GoodTables(source, o)) /\ handles[u] \in Seq(GoodHandles(source, o))
      /\ OverUsers(tables) /\ OverUsers(handles) /\ OverUsers(scan) /\ OverUsers(got)
    BY ReadHas
<1>2. /\ got' = [got EXCEPT ![u] = answer] /\ scan' = [scan EXCEPT ![u] = Nil]
      /\ UNCHANGED tables
    BY DEF EndScan
<1>3. /\ answer.share = s.share /\ answer.indexes = s.indexes /\ answer.rows = s.rows
      /\ answer.error = broken
    BY DEF Answer
<1> HIDE DEF answer
<1>4. GotGood(source, o, answer)
    <2>1. \A k \in DOMAIN s.rows : RightRow(source, o, s.indexes[k], s.rows[k])
        BY <1>1 DEF ScanGood
    <2>2. ~broken => ToSet(s.indexes) = ShareUpTo(s.share, Last(o.stops)) /\ Rising(s.indexes)
        BY <1>1 DEF ScanGood, ReachOf
    <2> QED BY <1>3, <2>1, <2>2 DEF GotGood
<1>5. /\ got'[u] = answer /\ got' = [got EXCEPT ![u] = got'[u]]
      /\ scan'[u] = Nil /\ scan' = [scan EXCEPT ![u] = scan'[u]]
    BY <1>1, <1>2 DEF OverUsers
<1>6. tables' = [tables EXCEPT ![u] = tables'[u]] /\ tables'[u] = tables[u]
    BY <1>1, <1>2, SameOver
<1>7. UserGood(source, part, opened[u], tables'[u], handles'[u], scan'[u], got'[u])
    BY <1>1, <1>4, <1>5, <1>6 DEF UserGood
<1> QED BY <1>5, <1>6, <1>7, UserKeeps

\* A scan that goes on keeps the invariant when its share does.
LEMMA ScansOn ==
    ASSUME RowsInv, NEW u \in Users, opened[u] # Nil, Reading(u), got' = got,
           scan' = [scan EXCEPT ![u] = scan'[u]], ScanGood(source, opened[u], scan'[u]),
           tables' = [tables EXCEPT ![u] = tables'[u]],
           handles' = [handles EXCEPT ![u] = handles'[u]],
           tables'[u] \in Seq(GoodTables(source, opened[u])),
           handles'[u] \in Seq(GoodHandles(source, opened[u]))
    PROVE  RowsInv'
<1>1. /\ OpenGood(source, part, opened[u])
      /\ got[u] # Nil => GotGood(source, opened[u], got[u])
      /\ OverUsers(got)
    BY ReadHas
<1>2. got' = [got EXCEPT ![u] = got'[u]] /\ got'[u] = got[u]
    BY <1>1, SameOver
<1>3. UserGood(source, part, opened[u], tables'[u], handles'[u], scan'[u], got'[u])
    BY <1>1, <1>2 DEF UserGood
<1> QED BY <1>2, <1>3, UserKeeps

LEMMA ScanMoves ==
    ASSUME RowsInv, NEW u \in Users, opened[u] # Nil, Reading(u), UNCHANGED <<tables, handles, got>>,
           NEW s, scan' = [scan EXCEPT ![u] = s], ScanGood(source, opened[u], s)
    PROVE  RowsInv'
<1>1. /\ tables[u] \in Seq(GoodTables(source, opened[u]))
      /\ handles[u] \in Seq(GoodHandles(source, opened[u]))
      /\ OverUsers(tables) /\ OverUsers(handles) /\ OverUsers(scan)
    BY ReadHas
<1>2. scan'[u] = s /\ scan' = [scan EXCEPT ![u] = scan'[u]]
    BY <1>1 DEF OverUsers
<1>3. /\ tables' = [tables EXCEPT ![u] = tables'[u]] /\ handles' = [handles EXCEPT ![u] = handles'[u]]
      /\ tables'[u] = tables[u] /\ handles'[u] = handles[u]
    BY <1>1, SameOver
<1> QED BY <1>1, <1>2, <1>3, ScansOn

LEMMA ScanGroupKeeps ==
    ASSUME RowsInv, NEW u \in Users, ScanGroup(u)
    PROVE  RowsInv'
<1> DEFINE o == opened[u]
           s == scan[u]
           f == s.file
           g == s.group
           count == CountOf(o, f)
           start == GroupStart(u, f, g)
           size == o.records[f].groups[g]
           offsets == ShareIn(s.share, start, size)
           rows == Fetched(u, f, g, offsets)
           more == [k \in DOMAIN offsets |-> start + offsets[k]]
<1>1. /\ s # Nil /\ Reading(u)
      /\ IF f > Len(Rows) THEN EndScan(u, FALSE) /\ UNCHANGED handles
         ELSE IF g > Len(o.records[f].groups)
         THEN /\ scan' = [scan EXCEPT ![u].file = f + 1, ![u].group = 1]
              /\ UNCHANGED <<tables, handles, got>>
         ELSE IF offsets = <<>>
         THEN /\ scan' = [scan EXCEPT ![u].group = @ + 1]
              /\ UNCHANGED <<tables, handles, got>>
         ELSE IF rows = <<>> THEN EndScan(u, TRUE) /\ OpenPart(u, f, g, offsets)
         ELSE /\ KeepGroup(u, f, g, offsets, rows)
              /\ OpenPart(u, f, g, offsets)
              /\ scan' = [scan EXCEPT ![u].group = @ + 1, ![u].indexes = @ \o more, ![u].rows = @ \o rows]
              /\ UNCHANGED got
    BY DEF ScanGroup
<1>2. o # Nil
    BY <1>1 DEF RowsInv, UserInv, UserGood
<1>3. /\ Reads(u) /\ OpenGood(source, part, o) /\ ScanGood(source, o, s)
      /\ \A e \in Files : source[e] \in DOMAIN Rows[e] /\ source[e] \in Nat
      /\ OverUsers(tables) /\ OverUsers(handles) /\ OverUsers(scan)
    BY <1>1, <1>2, ReadHas
<1>4. /\ DOMAIN s = {"share", "file", "group", "indexes", "rows"} /\ s.share \in Shares
      /\ f \in 1 .. Len(Rows) + 1 /\ (f <= Len(Rows) => g \in 1 .. GroupCount(count) + 1)
      /\ s.indexes \in Seq(Nat) /\ s.rows \in Seq(RowStates) /\ Len(s.rows) = Len(s.indexes)
      /\ ToSet(s.indexes) = ShareUpTo(s.share, ReachOf(o, s)) /\ Rising(s.indexes)
      /\ \A k \in DOMAIN s.rows : RightRow(source, o, s.indexes[k], s.rows[k])
    BY <1>3 DEF ScanGood
<1>5. Len(Rows) \in Nat /\ Files = 1 .. Len(Rows)
    BY FilesAre
<1>6. CASE f > Len(Rows)
    <2>1. EndScan(u, FALSE) /\ UNCHANGED handles
        BY <1>1, <1>6
    <2>2. /\ handles' = [handles EXCEPT ![u] = handles'[u]]
          /\ handles'[u] \in Seq(GoodHandles(source, o))
        <3>1. handles[u] \in Seq(GoodHandles(source, o))
            BY <1>3, ReaderHas
        <3> QED BY <1>3, <2>1, <3>1, SameOver
    <2> QED BY <1>1, <1>2, <1>6, <2>1, <2>2, EndScanKeeps
<1>7. ASSUME ~(f > Len(Rows)) PROVE RowsInv'
    <2>1. f \in Files /\ f \in Nat /\ f + 1 \in 1 .. Len(Rows) + 1 /\ f <= Len(Rows)
        BY <1>4, <1>5, <1>7
    <2>2. g \in 1 .. GroupCount(count) + 1
        BY <1>4, <2>1
    <2>3. /\ StartAt(o.stops, f) \in Nat /\ o.stops[f] = StartAt(o.stops, f) + count
          /\ StartAt(o.stops, f + 1) = o.stops[f]
          /\ Last(o.stops) = o.stops[Len(Rows)]
        BY <1>3, <2>1, StopsOf
    <2>4. /\ count \in Nat /\ GroupCount(count) \in Nat
          /\ Len(o.records[f].groups) = GroupCount(count)
          /\ \A h \in 1 .. GroupCount(count) :
                /\ o.records[f].groups[h] = GroupRows(count)[h]
                /\ GroupRows(count)[h] \in Nat /\ GroupBegin(h) \in Nat
                /\ StartAt(o.groupStops[f], h) = GroupBegin(h)
                /\ o.groupStops[f][h] = GroupBegin(h) + GroupRows(count)[h]
                /\ StartAt(o.groupStops[f], h + 1) = o.groupStops[f][h]
          /\ StartAt(o.groupStops[f], GroupCount(count) + 1) = count
        <3> HIDE DEF f, count, o
        <3>1. source[f] \in DOMAIN Rows[f] /\ f \in Files /\ OpenGood(source, part, o)
            BY <1>3, <2>1
        <3>2. /\ CountOf(o, f) \in Nat /\ GroupCount(CountOf(o, f)) \in Nat
              /\ Len(o.records[f].groups) = GroupCount(CountOf(o, f))
              /\ DOMAIN o.groupStops[f] = 1 .. GroupCount(CountOf(o, f))
              /\ \A h \in 1 .. GroupCount(CountOf(o, f)) :
                    /\ o.records[f].groups[h] = GroupRows(CountOf(o, f))[h]
                    /\ GroupRows(CountOf(o, f))[h] \in Nat /\ GroupBegin(h) \in Nat
                    /\ GroupBegin(h) + GroupRows(CountOf(o, f))[h] <= CountOf(o, f)
                    /\ StartAt(o.groupStops[f], h) = GroupBegin(h)
                    /\ o.groupStops[f][h] = GroupBegin(h) + GroupRows(CountOf(o, f))[h]
                    /\ StartAt(o.groupStops[f], h + 1) = o.groupStops[f][h]
              /\ StartAt(o.groupStops[f], 1) = 0
              /\ StartAt(o.groupStops[f], GroupCount(CountOf(o, f)) + 1) = CountOf(o, f)
            BY <3>1, GroupStopsOf
        <3> QED BY <3>2 DEF count
    <2>5. ReachOf(o, s) = StartOf(o, f, g)
        BY <2>1, <1>7 DEF ReachOf
    <2>6. g \in Nat /\ (g > GroupCount(count) => g = GroupCount(count) + 1)
        BY <2>2, <2>4
    <2>7. CASE g > Len(o.records[f].groups)
        <3> DEFINE t == [[s EXCEPT !.file = f + 1] EXCEPT !.group = 1]
        <3>1. scan' = [scan EXCEPT ![u].file = f + 1, ![u].group = 1]
              /\ UNCHANGED <<tables, handles, got>>
            BY <1>1, <1>7, <2>7
        <3>2. scan' = [scan EXCEPT ![u] = t]
            BY <1>3, <3>1 DEF OverUsers
        <3>3. /\ DOMAIN t = {"share", "file", "group", "indexes", "rows"}
              /\ t.share = s.share /\ t.file = f + 1 /\ t.group = 1
              /\ t.indexes = s.indexes /\ t.rows = s.rows
            BY <1>4
        <3> HIDE DEF t
        <3>4. ReachOf(o, s) = o.stops[f]
            <4>1. StartAt(o.groupStops[f], g) = count
                BY <2>4, <2>6, <2>7
            <4> QED BY <2>3, <2>5, <4>1 DEF StartOf
        <3>5. t.file <= Len(Rows) => t.file \in Files
            BY <1>5, <2>1, <3>3
        <3>6. ReachOf(o, t) = o.stops[f]
            <4>1. CASE t.file > Len(Rows)
                <5>1. f = Len(Rows)
                    BY <1>5, <2>1, <3>3, <4>1
                <5> QED BY <2>3, <4>1, <5>1 DEF ReachOf
            <4>2. CASE ~(t.file > Len(Rows))
                <5>1. f + 1 \in Files
                    BY <1>5, <2>1, <3>3, <4>2
                <5>2. StartAt(o.groupStops[f + 1], 1) = 0
                    BY <1>3, <5>1, GroupStopsOf
                <5>3. StartAt(o.stops, f + 1) \in Nat
                    BY <1>3, <5>1, StopsOf
                <5> QED BY <2>3, <3>3, <4>2, <5>2, <5>3 DEF ReachOf, StartOf
            <4> QED BY <4>1, <4>2
        <3>7. t.file <= Len(Rows) => t.group \in 1 .. GroupCount(CountOf(o, t.file)) + 1
            <4> SUFFICES ASSUME t.file <= Len(Rows)
                         PROVE  t.group \in 1 .. GroupCount(CountOf(o, t.file)) + 1
                OBVIOUS
            <4>1. GroupCount(CountOf(o, t.file)) \in Nat
                BY <1>3, <3>5, GroupStopsOf
            <4> QED BY <3>3, <4>1
        <3>8. ScanGood(source, o, t)
            BY <1>4, <2>1, <3>3, <3>4, <3>6, <3>7 DEF ScanGood
        <3> QED BY <1>1, <1>2, <3>1, <3>2, <3>8, ScanMoves
    <2>8. ASSUME ~(g > Len(o.records[f].groups)) PROVE RowsInv'
        <3>1. g \in 1 .. GroupCount(count) /\ g + 1 \in 1 .. GroupCount(count) + 1 /\ g \in Nat \ {0}
            BY <2>2, <2>4, <2>8
        <3>2. /\ size = GroupRows(count)[g] /\ size \in Nat /\ GroupBegin(g) \in Nat
              /\ start = StartOf(o, f, g) /\ start \in Nat
              /\ StartOf(o, f, g + 1) = start + size
            <4>1. /\ size = GroupRows(count)[g] /\ GroupRows(count)[g] \in Nat
                  /\ GroupBegin(g) \in Nat /\ StartAt(o.groupStops[f], g) = GroupBegin(g)
                  /\ StartAt(o.groupStops[f], g + 1) = GroupBegin(g) + GroupRows(count)[g]
                BY <2>4, <3>1
            <4>2. start = StartOf(o, f, g)
                BY DEF GroupStart, PartStart, StartOf
            <4>3. StartOf(o, f, g) = StartAt(o.stops, f) + GroupBegin(g)
                BY <4>1 DEF StartOf
            <4>4. StartOf(o, f, g + 1) = StartAt(o.stops, f) + (GroupBegin(g) + GroupRows(count)[g])
                BY <4>1 DEF StartOf
            <4> HIDE DEF size, start
            <4> QED BY <2>3, <4>1, <4>2, <4>3, <4>4
        <3> HIDE DEF start, size
        <3>3. ToSet(s.indexes) = ShareUpTo(s.share, start)
            BY <1>4, <2>5, <3>2
        <3>4. /\ offsets \in Seq(Nat) /\ more \in Seq(Nat) /\ Len(more) = Len(offsets)
              /\ \A k \in DOMAIN offsets : offsets[k] < size
              /\ s.indexes \o more \in Seq(Nat) /\ Rising(s.indexes \o more)
              /\ ToSet(s.indexes \o more) = ShareUpTo(s.share, start + size)
              /\ offsets = <<>> => ShareUpTo(s.share, start + size) = ShareUpTo(s.share, start)
            <4>1. /\ s.share \in Shares /\ start \in Nat /\ size \in Nat
                  /\ s.indexes \in Seq(Nat) /\ Rising(s.indexes)
                BY <1>4, <3>2
            <4>2. offsets = ShareIn(s.share, start, size)
                OBVIOUS
            <4> HIDE DEF offsets
            <4>3. more = [k \in DOMAIN offsets |-> start + offsets[k]]
                OBVIOUS
            <4> HIDE DEF more, s
            <4> QED BY <3>3, <4>1, <4>2, <4>3, ShareGrows
        <3>5. CASE offsets = <<>>
            <4> DEFINE t == [s EXCEPT !.group = g + 1]
            <4>1. scan' = [scan EXCEPT ![u].group = @ + 1] /\ UNCHANGED <<tables, handles, got>>
                BY <1>1, <1>7, <2>8, <3>5 DEF start, size
            <4>2. scan' = [scan EXCEPT ![u] = t]
                BY <1>3, <4>1 DEF OverUsers
            <4>3. /\ DOMAIN t = {"share", "file", "group", "indexes", "rows"}
                  /\ t.share = s.share /\ t.file = f /\ t.group = g + 1
                  /\ t.indexes = s.indexes /\ t.rows = s.rows
                BY <1>4
            <4> HIDE DEF t
            <4>4. ReachOf(o, t) = start + size
                BY <1>7, <3>2, <4>3 DEF ReachOf
            <4>5. ScanGood(source, o, t)
                BY <1>4, <3>1, <3>3, <3>4, <3>5, <4>3, <4>4 DEF ScanGood
            <4> QED BY <1>1, <1>2, <4>1, <4>2, <4>5, ScanMoves
        <3>6. ASSUME offsets # <<>> PROVE RowsInv'
            <4>1. offsets \in Offsets
                BY <3>4, <3>6 DEF Offsets
            <4>2. \A k \in DOMAIN offsets : offsets[k] < GroupRows(CountOf(o, f))[g]
                BY <3>2, <3>4
            <4>3. /\ rows # <<>> => GoodRows(source, o, f, g, offsets, rows)
                  /\ rows = <<>> => source[f] > o.records[f].state
                <5> HIDE DEF offsets
                <5> QED BY <1>3, <2>1, <3>1, <4>1, <4>2, FetchedGood
            <4>4. CASE rows = <<>>
                <5>1. EndScan(u, TRUE) /\ OpenPart(u, f, g, offsets)
                    BY <1>1, <1>7, <2>8, <3>6, <4>4 DEF start, size
                <5>2. \E e \in Files : source[e] > opened[u].records[e].state
                    BY <2>1, <4>3, <4>4
                <5>3. /\ handles' = [handles EXCEPT ![u] = handles'[u]]
                      /\ handles'[u] \in Seq(GoodHandles(source, o))
                    <6> HIDE DEF offsets
                    <6> QED BY <1>3, <2>1, <5>1, OpenedGood
                <5> QED BY <1>1, <1>2, <5>1, <5>2, <5>3, EndScanKeeps
            <4>5. CASE rows # <<>>
                <5>1. /\ KeepGroup(u, f, g, offsets, rows)
                      /\ OpenPart(u, f, g, offsets)
                      /\ scan' = [scan EXCEPT ![u].group = @ + 1, ![u].indexes = @ \o more,
                                              ![u].rows = @ \o rows]
                      /\ UNCHANGED got
                    BY <1>1, <1>7, <2>8, <3>6, <4>5 DEF start, size
                <5>2. /\ tables' = [tables EXCEPT ![u] = tables'[u]]
                      /\ handles' = [handles EXCEPT ![u] = handles'[u]]
                      /\ tables'[u] \in Seq(GoodTables(source, o))
                      /\ handles'[u] \in Seq(GoodHandles(source, o))
                    <6>1. rows = Fetched(u, f, g, offsets) /\ GoodRows(source, o, f, g, offsets, rows)
                        BY <4>3, <4>5
                    <6> HIDE DEF offsets, rows
                    <6> QED BY <1>3, <2>1, <3>1, <4>1, <4>5, <5>1, <6>1, KeptGood
                <5>3. PICK state \in Reached(source, o, f) :
                        state \in Nat /\ Rows[f][state] \in Nat /\ RowsOf(f, state, g, offsets, rows)
                    <6> HIDE DEF offsets, rows
                    <6> QED BY <1>3, <2>1, <3>1, <4>1, <4>3, <4>5, GoodRowsAre
                <5>4. offsets # Whole
                    <6>1. Whole \notin Seq(Nat)
                        <7>1. Whole[1] = -1 /\ Len(Whole) = 1
                            BY DEF Whole
                        <7> HIDE DEF Whole
                        <7>2. ASSUME Whole \in Seq(Nat) PROVE FALSE
                            <8>1. \A k \in 1 .. Len(Whole) : Whole[k] \in Nat
                                BY <7>2
                            <8>2. Whole[1] \in Nat
                                BY <7>1, <8>1
                            <8> QED BY <7>1, <8>2
                        <7> QED BY <7>2
                    <6> QED BY <3>4, <6>1
                <5>5. rows \in Seq(RowStates) /\ Len(rows) = Len(offsets)
                    BY <5>3, <5>4 DEF RowsOf
                <5> DEFINE t == [[[s EXCEPT !.group = g + 1] EXCEPT !.indexes = s.indexes \o more]
                                    EXCEPT !.rows = s.rows \o rows]
                <5>6. scan' = [scan EXCEPT ![u] = t]
                    <6> HIDE DEF rows, more
                    <6> QED BY <1>3, <1>4, <5>1 DEF OverUsers
                <5>7. /\ DOMAIN t = {"share", "file", "group", "indexes", "rows"}
                      /\ t.share = s.share /\ t.file = f /\ t.group = g + 1
                      /\ t.indexes = s.indexes \o more /\ t.rows = s.rows \o rows
                    BY <1>4
                <5> HIDE DEF t
                <5>8. ReachOf(o, t) = start + size
                    BY <1>7, <3>2, <5>7 DEF ReachOf
                <5> HIDE DEF rows
                <5>9. /\ t.rows \in Seq(RowStates) /\ Len(t.rows) = Len(s.rows) + Len(rows)
                      /\ DOMAIN t.rows = 1 .. Len(s.rows) + Len(rows)
                      /\ \A k \in 1 .. Len(s.rows) : t.rows[k] = s.rows[k]
                      /\ \A k \in 1 .. Len(rows) : t.rows[Len(s.rows) + k] = rows[k]
                    <6>1. s.rows \in Seq(RowStates) /\ rows \in Seq(RowStates)
                        BY <1>4, <5>5
                    <6> HIDE DEF s
                    <6>2. /\ s.rows \o rows \in Seq(RowStates)
                          /\ Len(s.rows \o rows) = Len(s.rows) + Len(rows)
                          /\ DOMAIN (s.rows \o rows) = 1 .. Len(s.rows) + Len(rows)
                          /\ \A k \in 1 .. Len(s.rows) : (s.rows \o rows)[k] = s.rows[k]
                          /\ \A k \in 1 .. Len(rows) : (s.rows \o rows)[Len(s.rows) + k] = rows[k]
                        BY <6>1, Joined
                    <6>3. t.rows = s.rows \o rows
                        BY <5>7
                    <6> QED BY <6>2, <6>3
                <5> HIDE DEF more
                <5>10. /\ t.indexes \in Seq(Nat) /\ Len(t.indexes) = Len(s.indexes) + Len(more)
                       /\ \A k \in 1 .. Len(s.indexes) : t.indexes[k] = s.indexes[k]
                       /\ \A k \in 1 .. Len(more) : t.indexes[Len(s.indexes) + k] = more[k]
                    <6>1. s.indexes \in Seq(Nat) /\ more \in Seq(Nat)
                        BY <1>4, <3>4
                    <6> HIDE DEF s
                    <6>2. /\ s.indexes \o more \in Seq(Nat)
                          /\ Len(s.indexes \o more) = Len(s.indexes) + Len(more)
                          /\ \A k \in 1 .. Len(s.indexes) : (s.indexes \o more)[k] = s.indexes[k]
                          /\ \A k \in 1 .. Len(more) : (s.indexes \o more)[Len(s.indexes) + k] = more[k]
                        BY <6>1, Joined
                    <6>3. t.indexes = s.indexes \o more
                        BY <5>7
                    <6> QED BY <6>2, <6>3
                <5> HIDE DEF offsets
                <5>11. \A k \in DOMAIN offsets : more[k] = start + offsets[k] /\ offsets[k] \in Nat
                    BY <3>4 DEF more
                <5>12. /\ Len(s.rows) \in Nat /\ Len(rows) \in Nat /\ DOMAIN s.rows = 1 .. Len(s.rows)
                       /\ DOMAIN offsets = 1 .. Len(rows) /\ Len(more) = Len(rows)
                    BY <1>4, <3>4, <5>5
                <5>13. ASSUME NEW k \in DOMAIN t.rows
                       PROVE  RightRow(source, o, t.indexes[k], t.rows[k])
                    <6>1. CASE k \in 1 .. Len(s.rows)
                        <7>1. t.rows[k] = s.rows[k] /\ t.indexes[k] = s.indexes[k] /\ k \in DOMAIN s.rows
                            BY <1>4, <5>9, <5>10, <5>12, <6>1
                        <7> QED BY <1>4, <7>1
                    <6>2. CASE k \notin 1 .. Len(s.rows)
                        <7>1. PICK j \in 1 .. Len(rows) : k = Len(s.rows) + j
                            <8>1. PICK m \in Nat, n \in Nat : m = Len(s.rows) /\ n = Len(rows)
                                BY <5>12
                            <8>2. k \in 1 .. m + n /\ k \notin 1 .. m
                                BY <5>9, <6>2, <8>1
                            <8>3. k - m \in 1 .. n /\ k = m + (k - m)
                                BY <8>2
                            <8> QED BY <8>1, <8>3
                        <7>2. PICK at \in Nat : at = offsets[j] /\ at < GroupRows(CountOf(o, f))[g]
                            BY <4>2, <5>11, <5>12
                        <7>3. t.rows[k] = rows[j] /\ t.indexes[k] = StartOf(o, f, g) + at
                            <8>1. t.rows[k] = rows[j]
                                BY <5>9, <7>1
                            <8>2. t.indexes[k] = more[j]
                                BY <1>4, <5>10, <5>12, <7>1
                            <8>3. more[j] = start + at
                                BY <5>11, <5>12, <7>2
                            <8> QED BY <3>2, <8>1, <8>2, <8>3
                        <7>4. at = IF offsets = Whole THEN j - 1 ELSE offsets[j]
                            BY <5>4, <7>2
                        <7>5. RightRow(source, o, StartOf(o, f, g) + at, rows[j])
                            BY <1>3, <2>1, <3>1, <5>3, <7>2, <7>4, RowInGroup
                        <7> QED BY <7>3, <7>5
                    <6> QED BY <6>1, <6>2
                <5>14. Len(t.rows) = Len(t.indexes)
                    BY <1>4, <5>9, <5>10, <5>12
                <5>15. ToSet(t.indexes) = ShareUpTo(t.share, ReachOf(o, t)) /\ Rising(t.indexes)
                    BY <3>4, <5>7, <5>8
                <5>16. t.file \in 1 .. Len(Rows) + 1 /\ t.group \in 1 .. GroupCount(CountOf(o, t.file)) + 1
                    BY <1>4, <3>1, <5>7
                <5>17. ScanGood(source, o, t)
                    BY <1>4, <5>7, <5>9, <5>10, <5>13, <5>14, <5>15, <5>16 DEF ScanGood
                <5>18. scan'[u] = t /\ scan' = [scan EXCEPT ![u] = scan'[u]]
                    BY <1>3, <5>6 DEF OverUsers
                <5> QED BY <1>1, <1>2, <5>1, <5>2, <5>17, <5>18, ScansOn
            <4> QED BY <4>4, <4>5
        <3> QED BY <3>5, <3>6
    <2> QED BY <2>7, <2>8
<1> QED BY <1>6, <1>7

-----------------------------------------------------------------------------
(* TabularParts: every step keeps the invariant, and it says what holds.   *)

LEMMA RowsStep ==
    ASSUME RowsInv, [TNext]_tvars
    PROVE  RowsInv'
<1>1. CASE UNCHANGED tvars
    BY <1>1 DEF tvars, RowsInv, RowsTypeOK, UserInv
<1>2. ASSUME NEW f \in Files, Rewrite(f) PROVE RowsInv'
    BY <1>2, RewriteKeeps
<1>3. ASSUME NEW u \in Users,
             BeginPrepare(u) \/ Look(u) \/ TakeLock(u) \/ PlanFile(u)
      PROVE  RowsInv'
    BY <1>3, BeginPrepareKeeps, LookKeeps, TakeLockKeeps, PlanFileKeeps
<1>4. ASSUME NEW u \in Users, NEW f \in Files,
             BeginJob(u, f) \/ ReadHead(u, f) \/ ReadTail(u, f) \/ ReplacePart(u, f) \/ EndJob(u, f)
      PROVE  RowsInv'
    BY <1>4, BeginJobKeeps, ReadHeadKeeps, ReadTailKeeps, ReplacePartKeeps, EndJobKeeps
<1>5. ASSUME NEW u \in Users,
             WriteManifest(u) \/ EndBuild(u) \/ FailBuild(u) \/ Die(u)
      PROVE  RowsInv'
    BY <1>5, WriteManifestKeeps, EndBuildKeeps, FailBuildKeeps, DieKeeps
<1>6. ASSUME NEW u \in Users, opened[u] # Nil, NEW i \in 0 .. RowCount(u) - 1, ReadRow(u, i)
      PROVE  RowsInv'
    BY <1>6, ReadRowKeeps
<1>7. ASSUME NEW u \in Users, NEW share \in Shares, BeginScan(u, share) PROVE RowsInv'
    BY <1>7, BeginScanKeeps
<1>8. ASSUME NEW u \in Users, ScanGroup(u) \/ CloseReader(u) PROVE RowsInv'
    BY <1>8, ScanGroupKeeps, CloseReaderKeeps
<1>9. ASSUME NEW u \in Users, NEW v \in Users, Inherit(u, v) PROVE RowsInv'
    BY <1>9, InheritKeeps
<1>10. CASE TNext
    BY <1>2, <1>3, <1>4, <1>5, <1>6, <1>7, <1>8, <1>9, <1>10 DEF TNext
<1> QED BY <1>1, <1>10

\* A part is of one state, and a record that is valid for the file is of its part.
LEMMA PartsHold == RowsInv => PartsAreWhole
<1> SUFFICES ASSUME RowsInv, NEW f \in Files
             PROVE  /\ part[f] # Nil => Cardinality(ToSet(part[f])) <= 1
                    /\ manifest # Nil /\ ValidRecord(f, manifest[f]) =>
                            ToSet(part[f]) \subseteq {source[f]}
    BY DEF PartsAreWhole
<1>1. /\ part[f] # Nil => PartSince(source, part, f, 1)
      /\ manifest # Nil => GoodRecord(source, part, f, manifest[f])
      /\ source[f] \in Nat
    <2>1. WorldGood(source, part, manifest)
        BY DEF RowsInv
    <2> QED BY <2>1, FilesAre DEF WorldGood
<1>2. ASSUME NEW s, IsPart(f, s, part[f]) PROVE ToSet(part[f]) \subseteq {s}
    <2>1. part[f] = [k \in 1 .. Rows[f][s] |-> s]
        BY <1>2 DEF IsPart, WholePart
    <2> QED BY <2>1 DEF ToSet
<1>3. ASSUME part[f] # Nil PROVE Cardinality(ToSet(part[f])) <= 1
    <2>1. PICK s \in 1 .. source[f] : IsPart(f, s, part[f])
        BY <1>1, <1>3 DEF PartSince
    <2>2. ToSet(part[f]) = {} \/ ToSet(part[f]) = {s}
        BY <1>2, <2>1
    <2>3. Cardinality({}) = 0 /\ Cardinality({s}) = 1
        BY FS_EmptySet, FS_Singleton
    <2> QED BY <2>2, <2>3
<1>4. ASSUME manifest # Nil, ValidRecord(f, manifest[f])
      PROVE  ToSet(part[f]) \subseteq {source[f]}
    <2>1. manifest[f].state = source[f]
        BY <1>4 DEF ValidRecord
    <2>2. PartSince(source, part, f, source[f])
        BY <1>1, <1>4, <2>1 DEF GoodRecord
    <2>3. PICK s \in source[f] .. source[f] : IsPart(f, s, part[f])
        BY <2>2 DEF PartSince
    <2>4. s = source[f]
        BY <1>1
    <2> QED BY <1>2, <2>3, <2>4
<1> QED BY <1>3, <1>4

\* What was read is right, by the places that bisection finds.
LEMMA AnswersHold ==
    ASSUME RowsInv, NEW u \in Users, opened[u] # Nil, got[u] # Nil
    PROVE  AnswerIsRight(u)
<1> DEFINE o == opened[u]
           a == got[u]
<1>1. /\ OpenGood(source, part, o) /\ GotGood(source, o, a)
      /\ \A f \in Files : source[f] \in DOMAIN Rows[f]
    BY ReadHas
<1>2. /\ a.error => \E f \in Files : source[f] > o.records[f].state
      /\ \A k \in DOMAIN a.rows : RightRow(source, o, a.indexes[k], a.rows[k])
      /\ a.share # Nil /\ ~a.error =>
            ToSet(a.indexes) = ShareUpTo(a.share, Last(o.stops)) /\ Rising(a.indexes)
    BY <1>1 DEF GotGood
<1>3. ASSUME NEW k \in DOMAIN a.rows
      PROVE  /\ a.rows[k].file = PartOf(u, a.indexes[k])
             /\ a.rows[k].row = a.indexes[k] - PartStart(u, PartOf(u, a.indexes[k]))
             /\ a.rows[k].state \in o.records[PartOf(u, a.indexes[k])].state
                                        .. source[PartOf(u, a.indexes[k])]
    <2> DEFINE i == a.indexes[k]
               row == a.rows[k]
    <2>1. PICK f \in Files :
            /\ i \in Nat /\ StartAt(o.stops, f) <= i /\ i < o.stops[f]
            /\ row.file = f /\ row.row = i - StartAt(o.stops, f)
            /\ row.state \in Reached(source, o, f)
        BY <1>2 DEF RightRow
    <2> HIDE DEF i, row
    <2>2. \A e \in Files : StartAt(o.stops, e) <= i /\ i < o.stops[e] => e = f
        BY <1>1, <2>1, StopsOf
    <2>3. PartOf(u, i) = f
        BY <2>1, <2>2 DEF PartOf, PartStart
    <2> QED BY <2>1, <2>3 DEF i, row, PartStart, Reached
<1>4. ASSUME a.share # Nil, ~a.error
      PROVE  /\ ToSet(a.indexes) = {i \in 0 .. RowCount(u) - 1 : i % a.share[1] = a.share[2]}
             /\ \A k \in 1 .. Len(a.indexes) - 1 : a.indexes[k] < a.indexes[k + 1]
    BY <1>2, <1>4 DEF ShareUpTo, Rising, RowCount
<1> QED BY <1>2, <1>3, <1>4 DEF AnswerIsRight

LEMMA RowsAreHeld == RowsInv => RowsHold
<1> SUFFICES ASSUME RowsInv PROVE RowsHold
    OBVIOUS
<1>1. PartsAreWhole
    BY PartsHold
<1>2. ASSUME NEW u \in Users, opened[u] # Nil PROVE OpenedIsFresh(u)
    <2>1. OpenGood(source, part, opened[u])
        BY <1>2, ReadHas
    <2>2. ASSUME NEW f \in Files
          PROVE  opened[u].records[f].state \in opened[u].since[f] .. source[f]
        <3>1. /\ opened[u].records[f].state \in 1 .. source[f] /\ opened[u].since[f] \in Nat
              /\ opened[u].since[f] <= opened[u].records[f].state
            BY <2>1 DEF OpenGood, NewRecord, GoodRecord
        <3>2. source[f] \in Nat
            BY <1>2, ReadHas
        <3> QED BY <3>1, <3>2
    <2> QED BY <2>2 DEF OpenedIsFresh
<1>3. ASSUME NEW u \in Users, opened[u] # Nil, got[u] # Nil PROVE AnswerIsRight(u)
    BY <1>3, AnswersHold
<1> QED BY <1>1, <1>2, <1>3 DEF RowsHold

-----------------------------------------------------------------------------
\* Under the lock a call plans by records that still hold, a conversion that ends has
\* the rows of one state, and what readers keep are groups of states since the records
\* that they were made of (_tabular_parquet.py:190, 440, 583, 696); who lists a Hub
\* repository has the lock, and the names that a process uses are those on disk.
THEOREM SourcesInvariant == SourcesSpec => [](RowsInv /\ HubInv)
<1>1. SourcesInit => RowsInv /\ HubInv
    BY RowsInit, HubInit DEF SourcesInit
<1>2. RowsInv /\ HubInv /\ [SourcesNext]_<<tvars, hvars>> => (RowsInv /\ HubInv)'
    <2> SUFFICES ASSUME RowsInv, HubInv, [SourcesNext]_<<tvars, hvars>>
                 PROVE  RowsInv' /\ HubInv'
        OBVIOUS
    <2>1. [TNext]_tvars /\ [HNext]_hvars
        BY DEF SourcesNext
    <2> QED BY <2>1, RowsStep, HubStep
<1> QED BY <1>1, <1>2, PTL DEF SourcesSpec

\* No part mixes two states of its file, a reader speaks of states since its call began,
\* every row it returns is the one of its number, a share has its rows each once and in
\* order, and no read fails unless a file was rewritten (_tabular_parquet.py); every
\* process numbers the files of a Hub repository the same (hub_files.py).
THEOREM SourcesSafe == SourcesSpec => []SourcesHold
<1>1. RowsInv /\ HubInv => SourcesHold
    BY RowsAreHeld, HubAgrees DEF SourcesHold
<1> QED BY <1>1, SourcesInvariant, PTL

=============================================================================
