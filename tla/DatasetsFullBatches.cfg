SPECIFICATION AllSpec
CONSTANTS
    Unset = Unset
    World = 2
    GroupSize = 8
    PlanWindow = 1
    Window = 4
    Budget = 8
    MaxLength = 11
    MaxEpochs = 2
    MaxFailures = 1
    Cost <- SomeCost
    Shuffle <- SomeShuffle
    MaxPadding <- Padding
    Jobs <- SomeJobs
    Sources <- SomeSources
    BufferSize = 2
    MinBuffer = 2
    MaxProbe = 2
    StatsWindow = 3
    MaxRejectRatio = 80
    MaxPrimary = 6
    Made <- SomeMade
    Voice <- SomeVoice
    GridViews = {"waveform", "bicodec"}
    Waveform = "waveform"
    MaxSamples = 3
    Missing = Missing
    Batches <- SomeBatches
    Specs <- SomeSpecs
    Tokens <- SomeTokens
    Resampled <- SomeResampled
    Rate = 16
    Channels = 1
    Absent = Absent
    None = None
    Threads = {t1, t2}
    MaxCalls = 1
    ChunkSize = 1
    FilterJobs <- SomeChains
    Workers = {w1, w2}
    MaxNew = 2
    MaxWork = 3
    DecisionInputs <- SomeInputs
    ShardSize = 2
    PageSize = 2
    MaxPages = 2
    MaxShards = 2
    MaxReads = 4
    Generations <- SomeGenerations
INVARIANT BatchesAreFull
CHECK_DEADLOCK FALSE
