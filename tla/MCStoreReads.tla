---------------------------- MODULE MCStoreReads ----------------------------
(* Small instances of the snapshot catalog, the extracted store files, the *)
(* store reader and the sources of files for TLC.  They share no state: *)
(* the part that is chosen at the start takes all the steps.               *)
EXTENDS SnapshotCatalog, StoreFiles, StoreReader, TabularParts, HubFiles

VARIABLE turn

CONSTANTS p1, p2, c1, u1, u2

TwoProducers == {p1, p2}
OneConsumer == {c1}
TwoUsers == {u1, u2}
Interchangeable == Permutations(Producers) \cup Permutations(Users)

-----------------------------------------------------------------------------
Row(i, has) == [index |-> i, id |-> i, has |-> has]
Entry(i, s) == [index |-> i, shard |-> s]

\* Two shards, one with a damaged sidecar and one without.
Built ==
    [count |-> 3, samples |-> <<Row(0, TRUE), Row(1, TRUE), Row(2, TRUE)>>, sizes |-> <<2, 1>>,
     entries |-> <<Entry(0, "s"), Entry(1, "s"), Entry(2, "t")>>, groups |-> <<2, 1>>,
     shards |-> [s |-> <<0, 1>>, t |-> <<2>>],
     portable |-> [s |-> 1, t |-> 2],
     sidecars |-> [s |-> [stat |-> 1, portable |-> 1, members |-> (0 :> 2 @@ 1 :> 1)]]]

\* Other groups, a sample without the view, a shard of the same size and mtime with
\* its payloads in another order, and a copy of the sidecar of the old shard.
Rebuilt ==
    [count |-> 3, samples |-> <<Row(0, TRUE), Row(1, FALSE), Row(2, TRUE)>>, sizes |-> <<1, 2>>,
     entries |-> <<Entry(0, "s"), Entry(2, "s")>>, groups |-> <<1, 1>>,
     shards |-> [s |-> <<2, 0>>],
     portable |-> [s |-> 1],
     sidecars |-> [s |-> [stat |-> 1, portable |-> 1, members |-> (0 :> 1 @@ 1 :> 2)]]]

\* A store with one sample id for two samples.
Broken ==
    [Rebuilt EXCEPT !.count = 2, !.samples = <<Row(0, TRUE), [Row(1, FALSE) EXCEPT !.id = 0]>>,
                    !.sizes = <<2>>, !.entries = <<Entry(0, "s")>>, !.groups = <<1>>]

ThreeStores == <<Built, Rebuilt, Broken>>
SomeRequests == {<<2, 0>>, <<1, -2>>}

\* A file that loses its header and then gets shorter, and one that stays.
SomeRows == <<<<4, -1, 3>>, <<1>>>>
SomeShares == {<<1, 0>>, <<2, 1>>}

\* Files come and go between the pages.
SomeRevisions == <<<<1, 2, 4, 5>>, <<2, 3, 5>>, <<>>>>

-----------------------------------------------------------------------------
MCInit ==
    /\ Init /\ SInit /\ RInit /\ TInit /\ HInit
    /\ turn \in {"catalog", "files", "reader", "tabular", "hub"}

MCNext ==
    /\ UNCHANGED turn
    /\ \/ turn = "catalog" /\ Next /\ UNCHANGED <<svars, rvars, tvars, hvars>>
       \/ turn = "files" /\ SNext /\ UNCHANGED <<vars, rvars, tvars, hvars>>
       \/ turn = "reader" /\ RNext /\ UNCHANGED <<vars, svars, tvars, hvars>>
       \/ turn = "tabular" /\ TNext /\ UNCHANGED <<vars, svars, rvars, hvars>>
       \/ turn = "hub" /\ HNext /\ UNCHANGED <<vars, svars, rvars, tvars>>

MCSpec == MCInit /\ [][MCNext]_<<turn, vars, svars, rvars, tvars, hvars>>
=============================================================================
