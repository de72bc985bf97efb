CONSTANTS
    LP64 = FALSE
    Sdks <- MCSdks32
    Threads <- MCThreads1
    Depth = 3
    MaxCalls = 2
SPECIFICATION FairSpec
INVARIANTS
    NoNullCall
    HookAtMostOnce
    SearchFindsClass
    DalvikNeverTouchesArt
PROPERTIES
    OnLoadReturns
CHECK_DEADLOCK FALSE
