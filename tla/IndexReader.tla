---------------------------- MODULE IndexReader ----------------------------
(***************************************************************************)
(* A reader of a filter generation: the indexes its labels were given are  *)
(* written, some labels are opened, and positions and slices are read in   *)
(* any order, each read leaving its mark on the cached pages and on the    *)
(* merge that is kept open.                                                *)
(***************************************************************************)
EXTENDS PartitionIndex

CONSTANTS
    MaxReads,    \* bound: reads
    Generations  \* [chunks: what was written, open: the labels that are opened]

VARIABLES
    generation,  \* the generation that is read
    index,       \* the merged index
    reads,       \* reads so far
    result       \* the last read and what it returned

ivars == <<generation, index, reads, result>>

NoRead == [first |-> 0, stop |-> 0, step |-> 1, values |-> <<>>]

IInit ==
    /\ generation \in Generations
    /\ index = OpenIndex(SelectedParts(WrittenPartitions(generation.chunks), generation.open))
    /\ reads = 0
    /\ result = NoRead

Length == LengthOf(index)

\* merged_index gives a single part as it is, and none as an empty one.
SinglePart == Len(index.parts) = 1

Returns(first, stop, step, values) ==
    /\ reads < MaxReads
    /\ reads' = reads + 1
    /\ result' = [first |-> first, stop |-> stop, step |-> step, values |-> values]

\* index[position] of several parts
ReadMerged(position) ==
    /\ ~SinglePart /\ ~index.failed
    /\ index' = LoadPage(index, position \div PageSize)
    /\ IF index'.failed THEN Returns(0, 0, 1, <<>>)
       ELSE Returns(position, position + 1, 1, <<ItemOfPage(index', position)>>)
    /\ UNCHANGED generation

\* index[position] and index[first:stop:step] of one part
ReadFile(position) ==
    /\ SinglePart
    /\ Returns(position, position + 1, 1, <<ItemAt(index.parts[1], position)>>)
    /\ UNCHANGED <<generation, index>>

ReadSlice(first, stop, step) ==
    /\ SinglePart
    /\ Returns(first, stop, step, SliceFrom(index.parts[1], first, stop, step))
    /\ UNCHANGED <<generation, index>>

INext ==
    \/ \E position \in 0 .. Length - 1 : ReadMerged(position) \/ ReadFile(position)
    \/ \E first, stop \in 0 .. Length : \E step \in 1 .. 3 : ReadSlice(first, stop, step)

-----------------------------------------------------------------------------
\* What the opened labels hold, in increasing order.
Chosen ==
    Increasing(
        UNION {UNION {ToSet(generation.chunks[c][l]) :
                        l \in ToSet(generation.open) \cap DOMAIN generation.chunks[c]} :
               c \in DOMAIN generation.chunks})

\* A position read at random is the one a scan comes to: whatever pages were
\* looked up, evicted or reached by the open merge before, every read returns the
\* selected indexes in increasing order, and so does every page still cached; a
\* page that is read twice never fails the reader (storage.py, _MergedIndex and
\* _FileIndex).
ReadsAreExact ==
    /\ ~index.failed
    /\ result.values = [k \in 1 .. (IF result.stop <= result.first THEN 0
                                    ELSE (result.stop - result.first + result.step - 1)
                                            \div result.step) |->
                            Chosen[result.first + (k - 1) * result.step + 1]]
    /\ Len(index.pages) <= MaxPages
    /\ \A e \in ToSet(index.pages) :
        e[2] = SubSeq(Chosen, e[1] * PageSize + 1, e[1] * PageSize + PageCount(index, e[1]))
=============================================================================
