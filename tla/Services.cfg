\* Inline and with two threads, jobs of two outputs or fewer, two of them pending.
SPECIFICATION SSpec
CONSTANTS
    Indexes <- SixIndexes
    Completed = {0}
    Batches <- SomeBatches
    CommitSamples = 2
    PoolSizes <- InlineOrPool
    PendingLimit = 2
    JobLimit = 6
    NoPath = NoPath
    Owners = {o1, o2}
    Clients = {c1}
    Uses <- SomeUses
INVARIANTS ServersHold
PROPERTIES
    ImplementsDurableSet
    EveryoneReturns
CHECK_DEADLOCK FALSE
