CONSTANTS
    Names <- MCNames
    NoName = "none"
    NameIdx <- MCNameIdx
    Images <- MCImages
    Listings <- MCListings
    Lib <- MCLib
    LibMatches <- MCLibMatches
    FileStates <- MCFileStates
    MapsFail = TRUE
SPECIFICATION Spec
INVARIANTS
    BiasFromFirstQualifying
    LookupCorrect
    AddressCorrect
CHECK_DEADLOCK FALSE
