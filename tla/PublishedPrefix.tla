-------------------------- MODULE PublishedPrefix --------------------------
(***************************************************************************)
(* What an online materialization promises its readers, without files,     *)
(* locks or processes: one log of adjoining segments that only grows until *)
(* it is declared final, and readers that each hold the log as it was at   *)
(* one moment.                                                             *)
(***************************************************************************)
EXTENDS Integers, Sequences

CONSTANTS
    Readers,  \* the consumers
    Nothing   \* what a reader holds before it opens and after it closes

VARIABLES
    log,    \* the published segments, in order
    final,  \* whether the log may still grow
    held    \* reader -> the log and final flag it opened, or Nothing

vars == <<log, final, held>>

\* Where the next segment has to start.
End(s) == IF s = <<>> THEN 0 ELSE s[Len(s)].stop

Init ==
    /\ log = <<>>
    /\ final = FALSE
    /\ held = [r \in Readers |-> Nothing]

\* One segment is added where the log ends.
Publish ==
    /\ ~final
    /\ Len(log') = Len(log) + 1
    /\ \A k \in DOMAIN log : log'[k] = log[k]
    /\ log'[Len(log')].start = End(log)
    /\ log'[Len(log')].stop > End(log)
    /\ UNCHANGED <<final, held>>

Finalize ==
    /\ final' = TRUE
    /\ UNCHANGED <<log, held>>

Open(r) ==
    /\ held' = [held EXCEPT ![r] = [entries |-> log, sealed |-> final]]
    /\ UNCHANGED <<log, final>>

Close(r) ==
    /\ held' = [held EXCEPT ![r] = Nothing]
    /\ UNCHANGED <<log, final>>

Next ==
    \/ Publish
    \/ Finalize
    \/ \E r \in Readers : Open(r) \/ Close(r)

Spec == Init /\ [][Next]_vars
=============================================================================
