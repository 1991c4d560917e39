----------------------------- MODULE BatchPlan -----------------------------
(***************************************************************************)
(* The batch planner of dataset/batching.py over one group of samples: a   *)
(* window of pending records, and the batch that is cut from it next.  A   *)
(* record is [arrival, index]; Cost(index) is its memory.  A padding ratio *)
(* is a fraction <<numerator, denominator>>.                               *)
(*                                                                         *)
(* A planner is [groups, pending, next]: the samples not read yet, group   *)
(* by group, the window, and the next arrival in the present group.        *)
(***************************************************************************)
EXTENDS Integers, Sequences, FiniteSets, SequencesExt

CONSTANTS
    Cost(_),      \* cost_fn of the sample with this index
    Budget,       \* max_batch_memory
    Window,       \* planning_window
    MaxPadding    \* max_padding_ratio

ASSUME PlanAssumption == Budget > 0 /\ Window > 0

Unbounded == 0    \* max_batch_samples is None

-----------------------------------------------------------------------------
(* Candidates: ranges of the pending records in the order of their costs.  *)

AtMost(ratio, other) == ratio[1] * other[2] <= other[1] * ratio[2]
Same(ratio, other) == AtMost(ratio, other) /\ AtMost(other, ratio)

\* The costs are positive, so that no range is without padded memory.
PaddingRatio(cost, most, count) == <<most * count - cost, most * count>>

ByCost(pending) ==
    SetToSortSeq(pending, LAMBDA r, s : \/ Cost(r.index) < Cost(s.index)
                                        \/ Cost(r.index) = Cost(s.index) /\ r.arrival < s.arrival)

\* prefix_costs[stop + 1] - prefix_costs[start]
RangeCost(sorted, start, stop) ==
    FoldLeft(LAMBDA sum, r : sum + Cost(r.index), 0, SubSeq(sorted, start, stop))

\* minimum_arrival
FirstArrival(sorted, start, stop) ==
    CHOOSE a \in {sorted[k].arrival : k \in start .. stop} :
        \A k \in start .. stop : a <= sorted[k].arrival

RangePadding(sorted, start, stop) ==
    PaddingRatio(RangeCost(sorted, start, stop), Cost(sorted[stop].index), stop - start + 1)

\* candidate_range
Candidate(sorted, start, stop) ==
    [start |-> start, stop |-> stop, cost |-> RangeCost(sorted, start, stop),
     padding |-> RangePadding(sorted, start, stop),
     arrival |-> FirstArrival(sorted, start, stop)]

\* Binary search for the first of left .. right, which the last one satisfies.
FirstThat(left, right, P(_)) ==
    LET search[l \in left .. right, r \in left .. right] ==
            IF l >= r THEN l
            ELSE IF P((l + r) \div 2) THEN search[l, (l + r) \div 2]
            ELSE search[(l + r) \div 2 + 1, r]
    IN search[left, right]

\* The first start of the range up to stop that fits the budget and the count.
FirstFitting(sorted, stop, maxSamples) ==
    LET fits == CHOOSE s \in 1 .. stop + 1 :
                    /\ RangeCost(sorted, s, stop) <= Budget
                    /\ \A t \in 1 .. s - 1 : RangeCost(sorted, t, stop) > Budget
        capped == stop - maxSamples + 1
    IN IF maxSamples # Unbounded /\ capped > fits THEN capped ELSE fits

\* Mutant: the search stops one sample short.
FirstPaddedShort(sorted, start, stop, most) ==
    IF start < stop - 1 /\ ~AtMost(RangePadding(sorted, start, stop), most)
    THEN stop - 1
    ELSE start

\* first_start_with_padding_at_most
FirstPadded(sorted, start, stop, most) ==
    FirstThat(start, stop - 1, LAMBDA s : AtMost(RangePadding(sorted, s, stop), most))

\* feasible_ranges: the ends of ranges of two samples or more, with their first start.
FeasibleEnds(sorted, maxSamples) ==
    IF maxSamples = 1 THEN {}
    ELSE {t \in 2 .. Len(sorted) : FirstFitting(sorted, t, maxSamples) < t}

\* The two orders of the candidates; a tie is broken by age and place.
Earlier(c, d) ==
    \/ c.arrival < d.arrival
    \/ c.arrival = d.arrival /\ (c.start < d.start \/ (c.start = d.start /\ c.stop < d.stop))
Fuller(c, d) ==
    \/ c.cost > d.cost
    \/ c.cost = d.cost /\ ~AtMost(d.padding, c.padding)
    \/ c.cost = d.cost /\ Same(c.padding, d.padding) /\ Earlier(c, d)
Tighter(c, d) ==
    \/ ~AtMost(d.padding, c.padding)
    \/ Same(c.padding, d.padding) /\ (c.cost > d.cost \/ (c.cost = d.cost /\ Earlier(c, d)))

BestOf(candidates, Better(_, _)) ==
    CHOOSE c \in candidates : \A d \in candidates \ {c} : Better(c, d)

\* best_threshold is the best of these
ThresholdRanges(sorted, ends, maxSamples) ==
    {Candidate(sorted, FirstPadded(sorted, FirstFitting(sorted, t, maxSamples), t, MaxPadding), t) :
        t \in {e \in ends : AtMost(RangePadding(sorted, e - 1, e), MaxPadding)}}

\* best_fallback is the best of these
FallbackRanges(sorted, ends, maxSamples) ==
    {Candidate(sorted, FirstPadded(sorted, FirstFitting(sorted, t, maxSamples), t,
                                   RangePadding(sorted, t - 1, t)), t) : t \in ends}

\* The single sample: the largest that fits, the oldest of these.
LargestFitting(sorted) ==
    CHOOSE r \in ToSet(sorted) :
        /\ Cost(r.index) <= Budget
        /\ \A s \in ToSet(sorted) : Cost(s.index) <= Budget =>
            \/ Cost(s.index) < Cost(r.index)
            \/ Cost(s.index) = Cost(r.index) /\ r.arrival <= s.arrival

RecordsOf(sorted, range) == ToSet(SubSeq(sorted, range.start, range.stop))

SelectFrom(sorted, thresholds, fallbacks) ==
    IF thresholds # {} THEN RecordsOf(sorted, BestOf(thresholds, Fuller))
    ELSE IF fallbacks # {} THEN RecordsOf(sorted, BestOf(fallbacks, Tighter))
    ELSE {LargestFitting(sorted)}

SelectRanges(sorted, ends, maxSamples) ==
    SelectFrom(sorted, ThresholdRanges(sorted, ends, maxSamples),
               FallbackRanges(sorted, ends, maxSamples))

SelectSorted(sorted, maxSamples) ==
    SelectRanges(sorted, FeasibleEnds(sorted, maxSamples), maxSamples)

\* _select_candidate: the records of the next batch.
SelectCandidate(pending, maxSamples) == SelectSorted(ByCost(pending), maxSamples)

-----------------------------------------------------------------------------
(* The reference: of all ranges that fit, the best.                        *)

FittingRanges(sorted, maxSamples) ==
    {Candidate(sorted, p[1], p[2]) :
        p \in {q \in (DOMAIN sorted) \X (DOMAIN sorted) :
                /\ q[1] < q[2]
                /\ (maxSamples # Unbounded => q[2] - q[1] < maxSamples)
                /\ RangeCost(sorted, q[1], q[2]) <= Budget}}

ReferenceCandidate(sorted, maxSamples) ==
    SelectFrom(sorted,
               {c \in FittingRanges(sorted, maxSamples) : AtMost(c.padding, MaxPadding)},
               FittingRanges(sorted, maxSamples))

-----------------------------------------------------------------------------
(* The planner.                                                            *)

NewPlanner(groups) == [groups |-> groups, pending |-> {}, next |-> 0]

PlannerDone(planner) == planner.groups = <<>>

\* A group that is read and planned is left.
LeaveGroup(planner) ==
    IF planner.pending = {} /\ Head(planner.groups) = <<>>
    THEN NewPlanner(Tail(planner.groups))
    ELSE planner

ReadRecords(planner, count) ==
    [planner EXCEPT
        !.groups[1] = SubSeq(@, count + 1, Len(@)),
        !.pending = @ \cup {[arrival |-> planner.next + k - 1,
                             index |-> Head(planner.groups)[k]] : k \in 1 .. count},
        !.next = @ + count]

WindowFor(maxSamples) == IF maxSamples = 1 THEN 1 ELSE Window

\* The inner loop of _plans: read up to the window.
FillWindow(planner, maxSamples) ==
    ReadRecords(planner,
        LET room == WindowFor(maxSamples) - Cardinality(planner.pending)
        IN IF room < Len(Head(planner.groups)) THEN room ELSE Len(Head(planner.groups)))

Oldest(pending) == CHOOSE r \in pending : \A s \in pending : r.arrival <= s.arrival

\* _sample_cost refuses a cost, or the oldest sample is over the budget.
CannotPlan(filled) ==
    \/ \E r \in filled.pending : Cost(r.index) <= 0
    \/ Cost(Oldest(filled.pending).index) > Budget

\* The samples of a batch in the order of their arrival.
BatchOf(records) ==
    LET ordered == SetToSortSeq(records, LAMBDA r, s : r.arrival < s.arrival)
    IN [k \in DOMAIN ordered |-> ordered[k].index]

AfterBatch(filled, records) == LeaveGroup([filled EXCEPT !.pending = @ \ records])
=============================================================================
