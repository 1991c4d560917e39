SPECIFICATION Spec
CONSTANTS
    Nobody = Nobody
    t1 = t1  t2 = t2  t3 = t3
    Threads <- ThreeThreads
    Indexes <- TwoIndexes
    Completed0 = {1}
    Batches <- SafeBatches
    AttemptLimit = 4
    CallLimit = 4
SYMMETRY Interchangeable
INVARIANT WaitersSeeTheFailure
CHECK_DEADLOCK FALSE
