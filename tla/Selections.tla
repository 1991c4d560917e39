----------------------------- MODULE Selections -----------------------------
(***************************************************************************)
(* Selections over a universe of samples.  A universe is the sequence of   *)
(* its sample ids; a state of a sample is "yes", "no" or "unknown".  A     *)
(* selection is given by the states of all samples, position by position,  *)
(* a view by the sequence of its selections.  Positions count from 0.      *)
(***************************************************************************)
EXTENDS Integers, Sequences, FiniteSets, SequencesExt

CONSTANT None

States == {"yes", "no", "unknown"}

\* A set of labels, or None for all of them, applied to a label or to None.
StateOf(label, labels) ==
    IF label = None THEN "unknown"
    ELSE IF labels = None \/ label \in labels THEN "yes"
    ELSE "no"

\* DecisionSet and StaticSelection
Static(decisions, labels) == [k \in DOMAIN decisions |-> StateOf(decisions[k], labels)]

\* SelectionView.contains: the first "no" decides.
Meet(states) ==
    IF "no" \in states THEN "no" ELSE IF "unknown" \in states THEN "unknown" ELSE "yes"

\* _selected_indices, when nothing is unknown.
SelectedIndices(states) ==
    LET positions == [k \in DOMAIN states |-> k - 1]
    IN SelectSeq(positions, LAMBDA u : states[u + 1] = "yes")

\* rebase_selection and project_selection: where the samples of target are in
\* source, or None.  Samples of source may only be left out by a projection.
Lineage(source, target, projected) ==
    IF /\ IsInjective(source) /\ IsInjective(target)
       /\ ToSet(target) \subseteq ToSet(source)
       /\ projected \/ Len(target) = Len(source)
    THEN [k \in DOMAIN target |-> CHOOSE p \in DOMAIN source : source[p] = target[k]]
    ELSE None

-----------------------------------------------------------------------------
(* Snapshots: segments [id, start, count] that adjoin.                      *)

SegmentsAdjoin(segments) ==
    /\ \A k \in DOMAIN segments :
        segments[k].start = (IF k = 1 THEN 0 ELSE segments[k - 1].start + segments[k - 1].count)
    /\ \A k, l \in DOMAIN segments : segments[k].id = segments[l].id => k = l

SamplesIn(segments) == FoldLeft(LAMBDA sum, s : sum + s.count, 0, segments)

\* SnapshotCatalogDataset._locate: the segment of a position.
SegmentAt(segments, position) ==
    CHOOSE k \in DOMAIN segments :
        segments[k].start <= position /\ position < segments[k].start + segments[k].count

\* _segments: large snapshots are cut into windows.
WindowsOf(segment, size) ==
    IF segment.count <= size THEN <<[segment EXCEPT !.id = <<@, 0, segment.count, 0>>]>>
    ELSE [w \in 1 .. (segment.count + size - 1) \div size |->
            [segment EXCEPT
                !.id = <<@, (w - 1) * size, segment.count,
                         IF w * size <= segment.count THEN size ELSE segment.count % size>>,
                !.start = @ + (w - 1) * size,
                !.count = IF w * size <= segment.count THEN size ELSE segment.count % size]]

Windows(segments, size) ==
    FlattenSeq([k \in DOMAIN segments |-> WindowsOf(segments[k], size)])
=============================================================================
