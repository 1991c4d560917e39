------------------------- MODULE MCSnapshotCatalog -------------------------
(* Small instances of SnapshotCatalog for TLC. *)
EXTENDS SnapshotCatalog, TLC

CONSTANTS p1, p2, c1, c2

TwoProducers == {p1, p2}
OneConsumer == {c1}
TwoConsumers == {c1, c2}
Interchangeable == Permutations(Producers) \cup Permutations(Consumers)
=============================================================================
