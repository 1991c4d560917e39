SPECIFICATION FairSpec
CONSTANTS
    Nobody = Nobody
    t1 = t1  t2 = t2  t3 = t3
    Threads <- ThreeThreads
    Indexes <- TwoIndexes
    Completed0 = {1}
    Batches <- SafeBatches
    AttemptLimit = 6
    CallLimit = 3
INVARIANTS AttemptsAreExact NoLostValue
PROPERTIES EveryCallEnds
CHECK_DEADLOCK FALSE
