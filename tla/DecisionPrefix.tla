--------------------------- MODULE DecisionPrefix ---------------------------
(***************************************************************************)
(* DecisionView: decisions of a rule over an input that grows.  The input  *)
(* is cut into windows, produce() publishes the first one that is missing, *)
(* status() counts and load() opens the windows that are published.  Calls *)
(* of several workers interleave window by window.  How one window becomes *)
(* a generation is FilterCache's business: here it is one step.            *)
(***************************************************************************)
EXTENDS Selections

CONSTANTS
    Workers,       \* the processes that call
    MaxNew,        \* max_new_samples
    MaxWork,       \* bound: calls
    DecisionInputs \* the inputs to check

ASSUME WindowAssumption == MaxNew \in Nat \ {0}

\* An input: the sizes of its snapshots, committed one after the other; whether
\* it is a catalog of snapshots or one plain dataset that becomes longer; the
\* labels the rule may give to each sample; the labels that load selects; and the
\* option rebuild.

VARIABLES
    input,       \* the input
    committed,   \* snapshots that are committed
    ready,       \* window id -> the labels of its samples
    work,        \* worker -> its call, or None
    worked,      \* calls so far
    returned     \* what status, produce and load returned

dvars == <<input, committed, ready, work, worked, returned>>

DInit ==
    /\ input \in DecisionInputs
    /\ committed = 0
    /\ ready = <<>>
    /\ work = [w \in Workers |-> None]
    /\ worked = 0
    /\ returned = {}

\* A snapshot is appended to the input.
Commit ==
    /\ committed < Len(input.sizes)
    /\ committed' = committed + 1
    /\ UNCHANGED <<input, ready, work, worked, returned>>

SizeOf(snapshots) == FoldLeft(LAMBDA sum, n : sum + n, 0, SubSeq(input.sizes, 1, snapshots))

\* snapshot_segments of the input when so many snapshots are committed: a plain
\* dataset is one segment, with an id of its length.
SegmentsOf(snapshots) ==
    IF input.catalog
    THEN [k \in 1 .. snapshots |-> [id |-> k, start |-> SizeOf(k - 1), count |-> input.sizes[k]]]
    ELSE IF SizeOf(snapshots) = 0 THEN <<>>
    ELSE <<[id |-> -SizeOf(snapshots), start |-> 0, count |-> SizeOf(snapshots)]>>

\* The dataset is opened: what is committed later is not seen by the call.
\* floor is the most an earlier call has returned.
Start(w, op) ==
    /\ work[w] = None /\ worked < MaxWork
    /\ worked' = worked + 1
    /\ work' = [work EXCEPT ![w] =
                    [op |-> op, segments |-> SegmentsOf(committed),
                     windows |-> Windows(SegmentsOf(committed), MaxNew),
                     at |-> 1, phase |-> IF op = "produce" THEN "find" ELSE "count",
                     covered |-> 0, chosen |-> <<>>, leases |-> {},
                     floor |-> Max({0} \cup {r.covered : r \in returned})]]
    /\ UNCHANGED <<input, committed, ready, returned>>

Doing(w, phase) == work[w] # None /\ work[w].phase = phase

AtEnd(c) == c.at > Len(c.windows)
WindowAt(c) == c.windows[c.at]
IsReady(c) == WindowAt(c).id \in DOMAIN ready

\* The loop over the windows that looks for the target of produce.
FindTarget(w) ==
    /\ Doing(w, "find")
    /\ work' = [work EXCEPT ![w] =
                    IF AtEnd(@) THEN [@ EXCEPT !.at = 1, !.phase = "count"]
                    ELSE IF IsReady(@) THEN [@ EXCEPT !.at = @ + 1]
                    ELSE [@ EXCEPT !.phase = "apply"]]
    /\ UNCHANGED <<input, committed, ready, worked, returned>>

LabelsOf(window) ==
    {d \in [1 .. window.count -> UNION ToSet(input.rule)] :
        \A k \in 1 .. window.count : d[k] \in input.rule[window.start + k]}

\* apply_filter: another worker may have published the window meanwhile.
ApplyWindow(w) ==
    /\ Doing(w, "apply")
    /\ LET window == WindowAt(work[w]) IN
        IF window.id \in DOMAIN ready /\ ~input.rebuild THEN ready' = ready
        ELSE \E d \in LabelsOf(window) :
                ready' = [i \in DOMAIN ready \cup {window.id} |->
                            IF i = window.id THEN d ELSE ready[i]]
    /\ work' = [work EXCEPT ![w] = [@ EXCEPT !.at = 1, !.phase = "count"]]
    /\ UNCHANGED <<input, committed, worked, returned>>

\* The rule or a read raises, or the process ends: the call is gone.
WorkFails(w) ==
    /\ work[w] # None
    /\ work' = [work EXCEPT ![w] = None]
    /\ UNCHANGED <<input, committed, ready, worked, returned>>

\* selected_index of the partitions of a window, moved to its start
ChosenIn(window, labels) ==
    [k \in DOMAIN SelectedIndices(Static(ready[window.id], labels)) |->
        window.start + SelectedIndices(Static(ready[window.id], labels))[k]]

\* A window that is published is counted; load reads and leases it.
Counted(c) ==
    [c EXCEPT !.at = @ + 1,
              !.covered = @ + WindowAt(c).count,
              !.chosen = IF c.op = "load" THEN @ \o ChosenIn(WindowAt(c), input.labels) ELSE @,
              !.leases = IF c.op = "load" THEN @ \cup {WindowAt(c).id} ELSE @]

\* A view that load returns reads the sample of an index from the segment it is in.
SampleAt(segments, u) ==
    <<SegmentAt(segments, u), u - segments[SegmentAt(segments, u)].start>>

\* Mutant: the loop goes on past a window that is missing.
CountPast(w) ==
    /\ Doing(w, "count")
    /\ LET c == work[w] IN
        IF ~AtEnd(c)
        THEN /\ work' = [work EXCEPT ![w] = IF IsReady(c) THEN Counted(c)
                                            ELSE [c EXCEPT !.at = @ + 1]]
             /\ UNCHANGED returned
        ELSE /\ work' = [work EXCEPT ![w] = None]
             /\ returned' = returned \cup
                    {[op |-> c.op, expected |-> SamplesIn(c.segments), covered |-> c.covered,
                      chosen |-> c.chosen, leases |-> c.leases, floor |-> c.floor,
                      samples |-> [k \in DOMAIN c.chosen |-> SampleAt(c.segments, c.chosen[k])]]}
    /\ UNCHANGED <<input, committed, ready, worked>>

\* The loop that counts the published windows up to the first missing one; the
\* status is returned, or the view, unless it would be empty of a non-empty input.
CountReady(w) ==
    /\ Doing(w, "count")
    /\ LET c == work[w] IN
        IF ~AtEnd(c) /\ IsReady(c)
        THEN work' = [work EXCEPT ![w] = Counted(c)] /\ UNCHANGED returned
        ELSE /\ work' = [work EXCEPT ![w] = None]
             /\ returned' =
                    IF c.op = "load" /\ c.windows # <<>> /\ c.covered = 0 THEN returned
                    ELSE returned \cup
                        {[op |-> c.op, expected |-> SamplesIn(c.segments), covered |-> c.covered,
                          chosen |-> c.chosen, leases |-> c.leases, floor |-> c.floor,
                          samples |-> [k \in DOMAIN c.chosen |->
                                        SampleAt(c.segments, c.chosen[k])]]}
    /\ UNCHANGED <<input, committed, ready, worked>>

DNext ==
    \/ Commit
    \/ \E w \in Workers :
        \/ \E op \in {"produce", "status", "load"} : Start(w, op)
        \/ FindTarget(w) \/ ApplyWindow(w) \/ CountReady(w) \/ WorkFails(w)

-----------------------------------------------------------------------------
\* The windows of the input as it is, and of a catalog as it will be.
AllWindows == Windows(SegmentsOf(IF input.catalog THEN Len(input.sizes) ELSE committed), MaxNew)

\* The snapshot a position was committed with.
Committed(u) ==
    LET k == CHOOSE n \in DOMAIN input.sizes : SizeOf(n - 1) <= u /\ u < SizeOf(n)
    IN <<k, u - SizeOf(k - 1)>>

Loads == {r \in returned : r.op = "load"}

\* What is published over a catalog is always a prefix of its windows, whatever
\* workers race, fail or see of the input: the cut does not move when the input
\* grows.  Two views opened at any time agree on what both cover, a view holds
\* the generations of what it covers, each of its indexes reads the sample it was
\* decided for, and no call finds less published than an earlier one returned
\* (decision.py, status, produce and load).
PrefixesHold ==
    /\ input.catalog =>
        /\ \A k \in DOMAIN AllWindows : AllWindows[k].id \in DOMAIN ready =>
                \A l \in 1 .. k : AllWindows[l].id \in DOMAIN ready
        /\ \A a, b \in Loads : a.covered <= b.covered =>
                a.chosen = SelectSeq(b.chosen, LAMBDA u : u < a.covered)
        /\ \A r \in returned : r.floor <= r.covered
        /\ \A r \in Loads : \A k \in DOMAIN r.chosen : r.samples[k] = Committed(r.chosen[k])
    /\ \A r \in returned :
        /\ r.covered <= r.expected /\ SegmentsAdjoin(AllWindows)
        /\ r.op = "load" => r.leases = {w.id : w \in {AllWindows[k] :
                                k \in {l \in DOMAIN AllWindows :
                                         AllWindows[l].start < r.covered}}}
                            \/ ~input.catalog
=============================================================================
