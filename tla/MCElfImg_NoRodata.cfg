CONSTANTS
    Names <- MCNames
    NoName = "none"
    NameIdx <- MCNameIdx
    Images <- MCImagesNoRodata
    Listings <- MCListings
    Lib <- MCLib
    LibMatches <- MCLibMatches
    FileStates <- MCFileStates
    MapsFail = FALSE
SPECIFICATION Spec
INVARIANT AddressCorrect
CHECK_DEADLOCK FALSE
