----------------------------- MODULE MCCoverage -----------------------------
(* Small instances of Coverage for TLC. *)
EXTENDS Coverage, TLC

CONSTANTS t1, t2, t3

TwoThreads == {t1, t2}
ThreeThreads == {t1, t2, t3}
TwoIndexes == {0, 1}

\* A single claim and a batch of both indexes that names one twice.
SafeBatches == {<<0>>, <<0, 1, 1>>}

Interchangeable == Permutations(Threads)
=============================================================================
