SPECIFICATION FairSpec
CONSTANTS
    Failed = Failed
    Every = Every
    Absent = Absent
    FanIn = 2
    ViewsOf <- Views
    MaxIndex = 4
    Ids = {"A", "B"}
    Devices = 2
    Writers = {w}
    Expected = 5
    Commit = 2
    Window = 2
    ShardSize = 2
    Casts <- AllCasts
INVARIANTS OutputIsWhole FinishSucceeds
PROPERTIES WorkIsReused WritesEnd RetryPublishes
CHECK_DEADLOCK FALSE
