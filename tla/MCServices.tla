----------------------------- MODULE MCServices -----------------------------
(* Small instances of WriteSink and ProviderService for TLC.  They share no   *)
(* state: every behaviour runs one of them.                                  *)
EXTENDS WriteSink, ProviderService

SixIndexes == 0 .. 5

\* Single outputs, batches that overlap, and one with an index that is durable.
SomeBatches == {{1}, {1, 2}, {2, 3}, {4, 5}, {0, 5}}

InlineOrPool == {0, 2}

-----------------------------------------------------------------------------
SomeUse(discipline, n, m, d) ==
    [discipline |-> discipline, starts |-> n, calls |-> m, deaths |-> d]

NoUse == SomeUse("turns", 0, 0, 0)

\* Restarts with a client that closes and a kill; an owner that tries to start
\* while another is up; two owners in any order.
SomeUses ==
    {NoUse, SomeUse("turns", 2, 2, 1), SomeUse("guarded", 2, 2, 0),
     SomeUse("any", 1, 1, 0), SomeUse("any", 1, 0, 1)}

-----------------------------------------------------------------------------
VARIABLE turn   \* the part this behaviour runs

svars == <<vars, pvars, turn>>

SInit ==
    /\ Init /\ PInit
    /\ \/ turn = "sink" /\ use = NoUse
       \/ turn = "service" /\ use # NoUse /\ pool = 0

SNext ==
    /\ \/ turn = "sink" /\ Next /\ UNCHANGED pvars
       \/ turn = "service" /\ PNext /\ UNCHANGED vars
    /\ UNCHANGED turn

SSpec ==
    /\ SInit /\ [][SNext]_svars
    /\ WF_vars(Step) /\ \A j \in Jobs : WF_vars(Pool(j))
    /\ PFairness

\* Calls of a block (EveryCallEnds) and of a service (EveryRequestReturns).
EveryoneReturns == EveryCallEnds /\ EveryRequestReturns
=============================================================================
