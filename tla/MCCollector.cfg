\* receipt-collector.py, stopped at any time.
SPECIFICATION FairSpec
CONSTANTS
    Requests = {r1, r2}
    MaxPieces = 2
    ForwardsLength = FALSE
    MayBeKilled = TRUE
CHECK_DEADLOCK FALSE
INVARIANT TypeOK
PROPERTIES
    ImplementsReceiptLog
    EveryRequestIsRecorded
