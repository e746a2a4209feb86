\* Any number of invocations, each of which may fail or be cut off anywhere.
SPECIFICATION EppFairSpec
CONSTANTS
    EppPlans <- MCEppPlans
    EppReplicas = 1
    EppLevel = "custom"
    MODES <- MCModes
INVARIANTS
    EppTypeOK
    RestoredUnlessBlamed
    MeasuredUnderItsRule
    PickerAsExpected
PROPERTY CommandsEnd
