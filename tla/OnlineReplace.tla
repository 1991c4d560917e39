--------------------------- MODULE OnlineReplace ---------------------------
(* RejectReplaceDataset: a dataset of the same length that serves another     *)
(* sample where the predicate rejects one (filter/online.py).  One worker     *)
(* reads; a sample is the index it comes from, the ratios are in percent.     *)
EXTENDS Naturals, Sequences, SequencesExt, FiniteSets

CONSTANTS
    Sources,      \* the datasets: index + 1 -> what the predicate does with it
    BufferSize, MinBuffer, MaxProbe, StatsWindow, MaxRejectRatio,
    MaxPrimary    \* bound: reads of one behaviour

ASSUME ReplaceAssumption ==
    /\ Sources \subseteq Seq({"accept", "reject", "raise"})
    /\ MinBuffer \in 1 .. BufferSize
    /\ MaxProbe \in Nat \ {0} /\ StatsWindow \in Nat \ {0}
    /\ MaxRejectRatio \in 0 .. 100

VARIABLES
    primary,    \* the wrapped dataset
    buffer,     \* _buffer
    served,     \* _served
    stats,      \* _stats
    outcome,    \* the last read: its index, how it ended, the sample it gave
    tries       \* reads so far

ovars == <<primary, buffer, served, stats, outcome, tries>>

OInit ==
    /\ primary \in Sources
    /\ buffer = <<>> /\ served = <<>> /\ stats = <<>>
    /\ outcome = [index |-> 0, ended |-> "refused", sample |-> 0] /\ tries = 0

-----------------------------------------------------------------------------
SourceLength == Len(primary)
Verdict(index) == primary[index + 1]

\* _stats is a deque of StatsWindow primary reads.
Record(accepted) ==
    LET kept == IF Len(stats) < StatsWindow THEN stats ELSE Tail(stats)
    IN Append(kept, accepted)

Rejects(window) == Cardinality({k \in DOMAIN window : ~window[k]})

\* _check_rates, over the window with the present read.
TooManyRejects(window) ==
    /\ Len(window) = StatsWindow
    /\ 100 * Rejects(window) >= MaxRejectRatio * Len(window)

\* _store appends until the buffer is full, then it may replace any entry.
Stored(sample) ==
    IF Len(buffer) < BufferSize THEN {Append(buffer, sample)}
    ELSE {buffer} \cup {[buffer EXCEPT ![k] = sample] : k \in DOMAIN buffer}

ProbeAt(index, offset) == (index + offset) % SourceLength

\* The offset the probe stops at: the first candidate that is not rejected, its
\* own index left out; MaxProbe + 1 when there is none.
Probe(index) ==
    LET ends(offset) == ProbeAt(index, offset) # index /\ Verdict(ProbeAt(index, offset)) # "reject"
    IN CHOOSE stop \in 1 .. MaxProbe + 1 :
           /\ stop = MaxProbe + 1 \/ ends(stop)
           /\ \A offset \in 1 .. stop - 1 : ~ends(offset)

EndsWith(index, how, sample) == outcome' = [index |-> index, ended |-> how, sample |-> sample]

ServeUnmarked(index, sample) == EndsWith(index, "served", sample) /\ UNCHANGED served

\* global_index knows the sample that was given for an index.
Serve(index, sample) ==
    /\ EndsWith(index, "served", sample)
    /\ served' = [i \in DOMAIN served \cup {index} |-> IF i = index THEN sample ELSE served[i]]

GlobalIndex(index) == IF index \in DOMAIN served THEN served[index] ELSE index

Fails(index, how) == EndsWith(index, how, index) /\ UNCHANGED <<buffer, served>>

KeepOwn(index) ==
    /\ Verdict(index) = "accept"
    /\ stats' = Record(TRUE)
    /\ buffer' \in Stored(index)
    /\ Serve(index, index)

\* The predicate raises: nothing is recorded.
Break(index) ==
    /\ Verdict(index) = "raise"
    /\ Fails(index, "raised")
    /\ UNCHANGED stats

FromNeighbour(index, candidate) ==
    \/ /\ Verdict(candidate) = "accept"
       /\ buffer' \in Stored(candidate)
       /\ Serve(index, candidate)
    \/ Verdict(candidate) = "raise" /\ Fails(index, "raised")

FromBuffer(index) ==
    /\ Len(buffer) >= MinBuffer
    /\ \E k \in DOMAIN buffer : Serve(index, buffer[k])
    /\ UNCHANGED buffer

ReplaceSample(index, stop) ==
    /\ Verdict(index) = "reject"
    /\ stats' = Record(FALSE)
    /\ \/ TooManyRejects(stats') /\ Fails(index, "refused")
       \/ /\ ~TooManyRejects(stats')
          /\ \/ stop <= MaxProbe /\ FromNeighbour(index, ProbeAt(index, stop))
             \/ stop > MaxProbe /\ FromBuffer(index)
             \/ stop > MaxProbe /\ Len(buffer) < MinBuffer /\ Fails(index, "refused")

ONext ==
    /\ tries < MaxPrimary
    /\ tries' = tries + 1
    /\ \E index \in 0 .. SourceLength - 1 : KeepOwn(index) \/ Break(index) \/ ReplaceSample(index, Probe(index))
    /\ UNCHANGED primary

-----------------------------------------------------------------------------
\* How far the probe has to go from index to sample.
Distance(index, sample) == (sample + SourceLength - index) % SourceLength

Acceptable == {i \in 0 .. SourceLength - 1 : Verdict(i) = "accept"}
Nearby(index) == {i \in 0 .. SourceLength - 1 : Distance(index, i) \in 1 .. MaxProbe /\ Verdict(i) # "reject"}

\* A read gives a sample the predicate accepts, its own if it can, else the one
\* nearest after it, and global_index names what was given; it is refused only
\* when nothing is in reach of the probe or rejects are too frequent, and gives
\* nothing that was rejected, whatever the buffer has gone through (online.py,
\* __getitem__ and global_index).
ReplacementsHold ==
    /\ ToSet(buffer) \subseteq Acceptable /\ Len(buffer) <= BufferSize
    /\ \A i \in DOMAIN served : served[i] \in Acceptable
    /\ outcome.ended = "served" =>
        /\ outcome.sample \in Acceptable
        /\ GlobalIndex(outcome.index) = outcome.sample
        /\ outcome.index \in Acceptable => outcome.sample = outcome.index
        /\ outcome.index \notin Acceptable =>
            \A i \in Nearby(outcome.index) :
                Distance(outcome.index, outcome.sample) <= Distance(outcome.index, i)
    /\ outcome.ended = "refused" /\ tries > 0 =>
        Nearby(outcome.index) = {} \/ TooManyRejects(stats)
=============================================================================
