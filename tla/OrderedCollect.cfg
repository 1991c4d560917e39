\* Two processes of two loader workers each.
SPECIFICATION FairSpec
CONSTANTS
    SampleCount = 7
    Workers = 2
    CommitSamples = 3
    WorkerCommit = 1
    QueueSize = 1
    Loaders = 2
    BatchSize = 2
    Resumable = {1}
    Deviation = 1
INVARIANTS
    SharesHold
    NothingIsHidden
PROPERTIES
    ImplementsScan
    EveryScanEnds
CHECK_DEADLOCK FALSE
