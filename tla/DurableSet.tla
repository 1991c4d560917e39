----------------------------- MODULE DurableSet -----------------------------
(***************************************************************************)
(* What a write sink promises the block that uses it, without threads,     *)
(* queues or limits: what was accepted becomes durable in pieces and in    *)
(* any order, a piece is reported after it is durable, and the block only  *)
(* ends well when all that was accepted is durable and reported.           *)
(***************************************************************************)
CONSTANTS
    Indexes

VARIABLES
    accepted,
    stored,
    reported,
    result

vars == <<accepted, stored, reported, result>>

Init == accepted = {} /\ stored = {} /\ reported = {} /\ result = "open"

Accept ==
    /\ result = "open"
    /\ \E new \in SUBSET (Indexes \ accepted) : accepted' = accepted \cup new
    /\ UNCHANGED <<stored, reported, result>>

\* Also after a failure, as long as the block has not ended.
Store ==
    /\ result = "open"
    /\ \E piece \in SUBSET (accepted \ stored) : stored' = stored \cup piece
    /\ UNCHANGED <<accepted, reported, result>>

Report ==
    /\ result = "open"
    /\ \E piece \in SUBSET (stored \ reported) : reported' = reported \cup piece
    /\ UNCHANGED <<accepted, stored, result>>

StoreAndReport ==
    /\ result = "open"
    /\ \E piece \in SUBSET (accepted \ stored) :
        /\ stored' = stored \cup piece
        /\ reported' = reported \cup piece
    /\ UNCHANGED <<accepted, result>>

EndWell ==
    /\ result = "open"
    /\ stored = accepted /\ reported = accepted
    /\ result' = "closed"
    /\ UNCHANGED <<accepted, stored, reported>>

EndBadly ==
    /\ result = "open"
    /\ result' = "failed"
    /\ UNCHANGED <<accepted, stored, reported>>

Next == Accept \/ Store \/ Report \/ StoreAndReport \/ EndWell \/ EndBadly

Spec == Init /\ [][Next]_vars
=============================================================================
