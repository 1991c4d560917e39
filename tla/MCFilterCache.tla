--------------------------- MODULE MCFilterCache ---------------------------
(* A small instance of FilterCache for TLC. *)
EXTENDS FilterCache

CONSTANTS p1, p2, g1, g2, g3

Ensure(n, m, b) == [op |-> "ensure", count |-> n, metrics |-> m, rebuild |-> b]
SweepCall == [op |-> "cleanup", count |-> 0, metrics |-> FALSE, rebuild |-> FALSE]

TwoProcs == {p1, p2}
ThreeGens == {g1, g2, g3}

\* Two sample counts, with and without metrics, a rebuild and a cleanup.
VariantRequests ==
    {Ensure(1, FALSE, FALSE), Ensure(2, TRUE, FALSE), Ensure(1, FALSE, TRUE), SweepCall}
=============================================================================
