CONSTANTS
    Size <- MCSize
    Targets <- MCTargets
    Lengths <- MCLengths
SPECIFICATION Spec
INVARIANTS
    Covers
CHECK_DEADLOCK FALSE
