---------------------------- MODULE OrderedScan ----------------------------
(***************************************************************************)
(* What collecting filter decisions promises, whatever executes it: the    *)
(* rows in order, cut into chunks of commit_samples, each once; complete   *)
(* only after the last of them.                                            *)
(***************************************************************************)
EXTENDS Integers, Sequences, SequencesExt

CONSTANT CommitSamples

VARIABLES
    wanted,  \* the rows to be delivered, in order
    chunks,  \* the chunks delivered so far
    outcome

vars == <<wanted, chunks, outcome>>

Delivered(s) == FlattenSeq(s)

\* The chunk that comes after s.
NextChunk(s) ==
    LET from == Len(Delivered(s))
        left == Len(wanted) - from
    IN SubSeq(wanted, from + 1, from + (IF left < CommitSamples THEN left ELSE CommitSamples))

Init == chunks = <<>> /\ outcome = "none"

Deliver ==
    /\ outcome = "none" /\ Delivered(chunks) # wanted
    /\ chunks' = Append(chunks, NextChunk(chunks))
    /\ UNCHANGED <<wanted, outcome>>

Complete ==
    /\ outcome = "none" /\ Delivered(chunks) = wanted
    /\ outcome' = "complete"
    /\ UNCHANGED <<wanted, chunks>>

\* The collection raises, or its consumer gives it up.
Stop ==
    /\ outcome = "none"
    /\ outcome' \in {"failed", "abandoned"}
    /\ UNCHANGED <<wanted, chunks>>

Next == Deliver \/ Complete \/ Stop

Spec == Init /\ [][Next]_vars
=============================================================================
