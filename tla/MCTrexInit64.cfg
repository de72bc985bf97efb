CONSTANTS
    LP64 = TRUE
    Sdks <- MCSdks64
    Threads <- MCThreads1
    Depth = 3
    MaxCalls = 2
SPECIFICATION FairSpec
INVARIANTS
    NoNullCall
    HookAtMostOnce
    SearchFindsClass
PROPERTIES
    OnLoadReturns
CHECK_DEADLOCK FALSE
