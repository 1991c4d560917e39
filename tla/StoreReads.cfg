SPECIFICATION MCSpec
CONSTANTS
    Null = Null
    p1 = p1  p2 = p2  c1 = c1
    Producers <- TwoProducers
    Consumers <- OneConsumer
    Sizes = {1, 2}
    MaxCount = 4
    CallLimit = 4
    CrashLimit = 1
    None = None
    Procs = {p, q}
    First = p
    MaxFds = 3
    MaxLeases = 2
    MaxCleanups = 1
    MaxShard = 2
    Nothing = Nothing
    Readers = {r, w}
    FirstReader = r
    Stores <- ThreeStores
    Requests <- SomeRequests
    MaxRequests = 2
    MaxRowGroups = 1
    MaxArchives = 1
    Nil = Nil
    u1 = u1  u2 = u2
    Users <- TwoUsers
    Rows <- SomeRows
    RowGroupSize = 2
    MaxTables = 1
    MaxHandles = 1
    Shares <- SomeShares
    MaxReads = 2
    MaxDeaths = 1
    NoList = NoList
    Hosts = {h1, h2}
    Revisions <- SomeRevisions
    PageSize = 2
    MaxListDeaths = 1
SYMMETRY Interchangeable
INVARIANTS CatalogIsBacked NoRecompute PathsHold StoreReadsHold SourcesHold
PROPERTIES SealsCompleteInput ImplementsPrefix
CHECK_DEADLOCK FALSE
