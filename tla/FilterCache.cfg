SPECIFICATION FairSpec
CONSTANTS
    Null = Null
    p1 = p1  p2 = p2
    g1 = g1  g2 = g2  g3 = g3
    Procs <- TwoProcs
    Gens <- ThreeGens
    Requests <- VariantRequests
    CallLimit = 3
    CrashLimit = 1
    LockTimesOut = TRUE
INVARIANTS LeasedStaysWhole CurrentIsWhole AnswerIsExact NoRejudge
PROPERTIES WorkIsKept EveryCallReturns
CHECK_DEADLOCK FALSE
