CONSTANTS
    Names <- MCNames
    NoName = "none"
    NameIdx <- MCNameIdx
    Images <- MCImages
    Listings <- MCListings
    Lib <- MCLib
    LibMatches <- MCLibMatches
    FileStates <- MCFilePresent
    MapsFail = TRUE
SPECIFICATION Spec
INVARIANT NoCrashOnOpenFailure
CHECK_DEADLOCK FALSE
