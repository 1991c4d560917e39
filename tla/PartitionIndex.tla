--------------------------- MODULE PartitionIndex ---------------------------
(***************************************************************************)
(* The partitions of a filter generation on disk: for every label the      *)
(* increasing indexes it was given, cut into shards.  A reader opens some  *)
(* labels as one merged index and reads it by position, in any order, from *)
(* a cache of pages.  Positions and indexes count from 0, as in the code.  *)
(*                                                                         *)
(* A file index is the sequence of its shards.  A merged index is          *)
(* [parts, pages, next, failed]: the file indexes, the cached pages, the   *)
(* oldest use first, and the page its sequential merge comes to next.      *)
(***************************************************************************)
EXTENDS Integers, Sequences, FiniteSets, SequencesExt

CONSTANTS
    ShardSize,   \* max_shard_samples
    PageSize,    \* _MERGED_PAGE_SIZE
    MaxPages,    \* _MAX_CACHED_MERGED_PAGES
    MaxShards    \* _MAX_CACHED_INDEX_SHARDS: random pages are looked up in so many parts

ASSUME IndexAssumption ==
    /\ ShardSize \in Nat \ {0} /\ PageSize \in Nat \ {0}
    /\ MaxPages \in Nat \ {0} /\ MaxShards \in Nat \ {0}

-----------------------------------------------------------------------------
(* Writing.                                                                *)

EmptyShards == [buffer |-> <<>>, files |-> <<>>]

FlushShard(writer) == [buffer |-> <<>>, files |-> Append(writer.files, writer.buffer)]

\* BufferedShardWriter.write
WriteItems(writer, items) ==
    FoldLeft(LAMBDA w, item : IF Len(w.buffer) + 1 >= ShardSize
                              THEN FlushShard([w EXCEPT !.buffer = Append(@, item)])
                              ELSE [w EXCEPT !.buffer = Append(@, item)],
             writer, items)

\* close(flush_empty=True): a label has one shard at least.
CloseShards(writer) ==
    IF writer.buffer # <<>> \/ writer.files = <<>> THEN FlushShard(writer).files
    ELSE writer.files

\* PartitionWriter: the chunks are given one after the other; only labels with
\* an index have a partition.
WrittenPartitions(chunks) ==
    [label \in {l \in UNION {DOMAIN chunks[c] : c \in DOMAIN chunks} :
                  \E c \in DOMAIN chunks : l \in DOMAIN chunks[c] /\ chunks[c][l] # <<>>} |->
        CloseShards(FoldLeft(LAMBDA w, chunk : IF label \in DOMAIN chunk
                                               THEN WriteItems(w, chunk[label]) ELSE w,
                             EmptyShards, chunks))]

-----------------------------------------------------------------------------
(* A file index.                                                           *)

CountOf(files) == Len(FlattenSeq(files))

\* offsets[shard], where shards count from 1 and offsets[1] is 0
Offset(files, shard) == CountOf(SubSeq(files, 1, shard - 1))

\* bisect_right(offsets, position) - 1: the last shard that begins at position or
\* before it.
ShardAt(files, position) ==
    CHOOSE s \in 1 .. Len(files) + 1 :
        /\ Offset(files, s) <= position
        /\ \A t \in s + 1 .. Len(files) + 1 : Offset(files, t) > position

\* _FileIndex.__getitem__ of a position
ItemAt(files, position) ==
    files[ShardAt(files, position)][position - Offset(files, ShardAt(files, position)) + 1]

\* _iter_from
ItemsFrom(files, start) ==
    IF start = CountOf(files) THEN <<>>
    ELSE LET shard == ShardAt(files, start)
             rest == files[shard]
         IN SubSeq(rest, start - Offset(files, shard) + 1, Len(rest))
                \o FlattenSeq(SubSeq(files, shard + 1, Len(files)))

EveryNth(items, step) == [k \in 1 .. (Len(items) + step - 1) \div step |-> items[(k - 1) * step + 1]]

Before(a, b) == IF a < b THEN a ELSE b

\* Mutant: a step that goes beyond a shard starts again at the next one.
SliceFromUnaligned(files, start, stop, step) ==
    LET walk[shard \in 1 .. Len(files) + 1, position \in 0 .. stop + step] ==
            IF position >= stop \/ shard > Len(files) THEN <<>>
            ELSE EveryNth(SubSeq(files[shard], position - Offset(files, shard) + 1,
                                 Before(stop, Offset(files, shard + 1)) - Offset(files, shard)),
                          step)
                 \o walk[shard + 1, Before(stop, Offset(files, shard + 1))]
    IN IF start >= stop THEN <<>> ELSE walk[ShardAt(files, start), start]

\* _iter_slice: shard by shard, where position is the next one of the slice.
SliceFrom(files, start, stop, step) ==
    LET walk[shard \in 1 .. Len(files) + 1, position \in 0 .. stop + step] ==
            IF position >= stop \/ shard > Len(files) THEN <<>>
            ELSE EveryNth(SubSeq(files[shard], position - Offset(files, shard) + 1,
                                 Before(stop, Offset(files, shard + 1)) - Offset(files, shard)),
                          step)
                 \o walk[shard + 1,
                         position + ((Before(stop, Offset(files, shard + 1)) - position + step - 1)
                                        \div step) * step]
    IN IF start >= stop THEN <<>> ELSE walk[ShardAt(files, start), start]

-----------------------------------------------------------------------------
(* A merged index.                                                         *)

\* The members of a set of integers, the least first.
Increasing(S) ==
    [k \in 1 .. Cardinality(S) |-> CHOOSE v \in S : Cardinality({w \in S : w < v}) = k - 1]

\* heapq.merge of what follows the given positions; the parts share no index.
MergedFrom(parts, positions) ==
    Increasing(UNION {ToSet(ItemsFrom(parts[p], positions[p])) : p \in DOMAIN parts})

Merged(parts) == MergedFrom(parts, [p \in DOMAIN parts |-> 0])

\* selected_index: the partitions of the labels that are there, in their order.
SelectedParts(partitions, labels) ==
    LET there == SelectSeq(labels, LAMBDA l : l \in DOMAIN partitions)
    IN [k \in DOMAIN there |-> partitions[there[k]]]

OpenIndex(parts) == [parts |-> parts, pages |-> <<>>, next |-> 0, failed |-> FALSE]

LengthOf(index) == CountOf(FlattenSeq(index.parts))

PageCount(index, page) == Before(PageSize, LengthOf(index) - page * PageSize)

\* bisect_left and bisect_right
Below(files, value) == Len(SelectSeq(FlattenSeq(files), LAMBDA v : v < value))
UpTo(files, value) == Len(SelectSeq(FlattenSeq(files), LAMBDA v : v <= value))

RanksUpTo(parts, value) == FoldLeft(LAMBDA sum, files : sum + UpTo(files, value), 0, parts)

\* _select: the value with this rank, found by halving the range of the values.
SelectRank(parts, rank) ==
    LET values == UNION {ToSet(FlattenSeq(parts[p])) : p \in DOMAIN parts}
        lowest == CHOOSE v \in values : \A w \in values : v <= w
        highest == CHOOSE v \in values : \A w \in values : v >= w
        halve[low \in lowest .. highest, high \in lowest .. highest] ==
            IF low >= high THEN low
            ELSE IF RanksUpTo(parts, (low + high) \div 2) <= rank
                 THEN halve[(low + high) \div 2 + 1, high]
                 ELSE halve[low, (low + high) \div 2]
    IN halve[lowest, highest]

\* _read_page of what follows position start of items
PageOf(index, page, items, start) == SubSeq(items, start + 1, start + PageCount(index, page))

PageFrom(index, page, first) ==
    LET positions == [p \in DOMAIN index.parts |-> Below(index.parts[p], first)]
        before == FoldLeft(LAMBDA sum, k : sum + k, 0, positions)
    IN PageOf(index, page, MergedFrom(index.parts, positions), page * PageSize - before)

\* _random_page: with more parts than shards are cached the merge is run from
\* its beginning instead.
RandomPage(index, page) ==
    IF Len(index.parts) > MaxShards
    THEN PageOf(index, page, Merged(index.parts), page * PageSize)
    ELSE PageFrom(index, page, SelectRank(index.parts, page * PageSize))

\* The next page of the merge that is kept open.
SequentialPage(index) == PageOf(index, index.next, Merged(index.parts), index.next * PageSize)

CachedPage(index, page) == SelectSeq(index.pages, LAMBDA entry : entry[1] = page)

\* The page is the latest used; the oldest ones leave the cache.
UsePage(pages, entry) ==
    LET used == Append(SelectSeq(pages, LAMBDA e : e[1] # entry[1]), entry)
    IN SubSeq(used, 1 + (IF Len(used) > MaxPages THEN Len(used) - MaxPages ELSE 0), Len(used))

\* _page: a page that the merge comes to is read from it, also when it is cached
\* already, and must then be the same.
LoadPage(index, page) ==
    LET cached == CachedPage(index, page)
    IN IF page = index.next
       THEN IF cached # <<>> /\ cached[1][2] # SequentialPage(index)
            THEN [index EXCEPT !.failed = TRUE]
            ELSE [index EXCEPT !.next = @ + 1,
                               !.pages = UsePage(@, <<page, SequentialPage(index)>>)]
       ELSE IF cached # <<>> THEN [index EXCEPT !.pages = UsePage(@, cached[1])]
       ELSE [index EXCEPT !.pages = UsePage(@, <<page, RandomPage(index, page)>>)]

\* _MergedIndex.__getitem__ once the page was loaded
ItemOfPage(index, position) ==
    CachedPage(index, position \div PageSize)[1][2][(position % PageSize) + 1]
=============================================================================
