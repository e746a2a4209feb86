\* An upstream body cut before its declared length.
SPECIFICATION Spec
CONSTANTS
    Requests = {r1}
    MaxPieces = 2
    ForwardsLength = FALSE
    MayBeKilled = FALSE
CHECK_DEADLOCK FALSE
INVARIANT CompleteIsWhole
