---------------------------- MODULE SampleOrder ----------------------------
(***************************************************************************)
(* Which rank reads which sample, and in what order: the index groups of a *)
(* dataset, their shuffling, and the shares of ranks and DataLoader        *)
(* workers.  Indexes and ranks count from 0, as in the code.               *)
(***************************************************************************)
EXTENDS Integers, Sequences, FiniteSets, SequencesExt

CONSTANT Shuffle(_, _)   \* random.Random(seed + epoch): the groups, shuffled

Least(a, b) == IF a < b THEN a ELSE b

\* range(first, stop)
Span(first, stop) == [k \in 1 .. stop - first |-> first + k - 1]

\* sequence[offset::step]
Strided(seq, offset, step) ==
    [k \in 1 .. (IF offset < Len(seq) THEN (Len(seq) - offset + step - 1) \div step ELSE 0) |->
        seq[offset + 1 + (k - 1) * step]]

\* index_groups
IndexGroups(length, size) ==
    [g \in 1 .. (length + size - 1) \div size |-> Span((g - 1) * size, Least(g * size, length))]

\* The running position of a group in the flattened order.
Position(groups, g) == Len(FlattenSeq(SubSeq(groups, 1, g - 1)))

\* The loop of shuffle_index_groups: rank takes every world-th sample of the
\* flattened order, group by group.
Share(groups, world, rank) ==
    SelectSeq([g \in DOMAIN groups |->
                  Strided(groups[g], (rank - Position(groups, g)) % world, world)],
              LAMBDA share : share # <<>>)

\* shuffle_index_groups
ShuffledShare(groups, shuffle, seed, world, rank) ==
    Share(IF shuffle THEN Shuffle(groups, seed) ELSE groups, world, rank)

\* MapStyleABC._shuffle and AppendOnlyMapStyleABC's: bounded groups of length samples
MapStyleShare(length, size, shuffle, seed, world, rank) ==
    IF shuffle THEN ShuffledShare(IndexGroups(length, size), TRUE, seed, world, rank)
    ELSE Share(<<Span(0, length)>>, world, rank)

\* selected_index_groups: the groups of the whole dataset, in its order, with the
\* positions of the selected samples, and the share of rank of these.
SelectedShare(groups, indices, world, rank) ==
    LET PositionOf(i) == (CHOOSE k \in DOMAIN indices : indices[k] = i) - 1
        Selected(group) == SelectSeq(group, LAMBDA i : Contains(indices, i))
        Positions(group) == [k \in DOMAIN group |-> PositionOf(group[k])]
    IN Share([g \in DOMAIN groups |-> Positions(Selected(groups[g]))], world, rank)

-----------------------------------------------------------------------------
(* Iterating without a loader plan.                                        *)

\* iter_map_style_shard
ShardRows(length, count, index) == {i \in 0 .. length - 1 : i % count = index}

\* Shard.flat_index
FlatShard(world, rank, worker) == worker * world + rank

\* iter_runtime_shard: what one DataLoader worker of one rank yields.
RuntimeRows(length, world, rank, workers, worker) ==
    IF world * workers > 1
    THEN {i \in ShardRows(length, world * workers, FlatShard(world, rank, worker)) :
            i < (length \div world) * world}
    ELSE 0 .. length - 1
=============================================================================
