CONSTANTS
    Names <- MCNames
    NoName = "none"
    NameIdx <- MCNameIdx
    Images <- MCImages
    Listings <- MCListings
    Lib <- MCLib
    LibMatches <- MCLibMatches
    FileStates <- MCFileEmpty
    MapsFail = FALSE
SPECIFICATION Spec
INVARIANT NoCrashOnOpenFailure
CHECK_DEADLOCK FALSE
