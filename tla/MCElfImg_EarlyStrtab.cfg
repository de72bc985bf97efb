CONSTANTS
    Names <- MCNames
    NoName = "none"
    NameIdx <- MCNameIdx
    Images <- MCImagesEarlyStrtab
    Listings <- MCListings
    Lib <- MCLib
    LibMatches <- MCLibMatches
    FileStates <- MCFileStates
    MapsFail = FALSE
SPECIFICATION Spec
INVARIANT DynStrtabIsFirst
CHECK_DEADLOCK FALSE
