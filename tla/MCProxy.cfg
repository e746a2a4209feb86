\* receipt-proxy.py, which may be killed at any time, and an export of its ledger.
SPECIFICATION ExportSpec
CONSTANTS
    Requests = {r1, r2}
    Contents <- MCContents
    MaxPieces = 2
    ForwardsLength = TRUE
    MayBeKilled = TRUE
CHECK_DEADLOCK FALSE
SYMMETRY MCRequestSymmetry
INVARIANTS ChunkedCompleteIsWhole AnswerAgreesWithReceipt HonestExportIsAccepted AnsweredExportIsAccepted
