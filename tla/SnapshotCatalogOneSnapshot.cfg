SPECIFICATION Spec
CONSTANTS
    Null = Null
    p1 = p1  p2 = p2  c1 = c1  c2 = c2
    Producers <- TwoProducers
    Consumers <- OneConsumer
    Sizes = {1, 2}
    MaxCount = 3
    CallLimit = 3
    CrashLimit = 1
SYMMETRY Interchangeable
INVARIANT OneSnapshotPerCall
CHECK_DEADLOCK FALSE
