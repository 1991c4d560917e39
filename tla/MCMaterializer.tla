--------------------------- MODULE MCMaterializer ---------------------------
(***************************************************************************)
(* Two samples per fragment and stores merged two at a time; every sample  *)
(* but one has both views.                                                 *)
(***************************************************************************)
EXTENDS Materializer

Views(i) == IF i = 1 THEN {"v"} ELSE {"v", "w"}

Whole(devices) == [devices |-> devices, finalize |-> TRUE, limit |-> Every, id |-> "A"]
Staged(limit) == [devices |-> 2, finalize |-> FALSE, limit |-> limit, id |-> "A"]

Cast(calls, indexed, available) ==
    [calls |-> calls, indexed |-> indexed, available |-> available,
     faults |-> 2, crashes |-> 2, orphans |-> FALSE, writers |-> FALSE, snapshots |-> FALSE]

AllCasts ==
    {\* one and two devices in turn, killed and crashed
     Cast({Whole(1), Whole(2)}, TRUE, Expected),
     \* a stream, as long as it says or shorter
     Cast({Whole(1), Whole(2)}, FALSE, Expected),
     Cast({Whole(2)}, FALSE, Expected - 1),
     \* staged work, snapshots between
     [Cast({Whole(2), Staged(Every), Staged(2)}, TRUE, Expected)
        EXCEPT !.snapshots = TRUE, !.faults = 0],
     \* orphans, with the identity of the next call and with another one
     [Cast({Whole(2)}, TRUE, Expected) EXCEPT !.orphans = TRUE, !.faults = 0, !.crashes = 1],
     [Cast({Whole(1), [Whole(2) EXCEPT !.id = "B"]}, TRUE, Expected)
        EXCEPT !.orphans = TRUE, !.faults = 0, !.crashes = 1],
     \* a DatasetWriter on the same output
     [Cast({Whole(2)}, TRUE, Expected) EXCEPT !.writers = TRUE, !.faults = 1]}
=============================================================================
