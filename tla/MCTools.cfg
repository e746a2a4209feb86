\* The evidence gate, the CLI probe, the body bindings, two labs, the Quickstart and the consent.
SPECIFICATION MCSpec
CONSTANTS
    EvRuns = {1, 2}
    EvMain = 2
    EvOutcomes <- MCOutcomes
    CliCases <- MCCliCases
    CliRuns = 2
    BdAssets = {"a1", "a2"}
    BdCount = 1
    BdVersions = {"v1", "v2"}
    BdCopies = 2
    BdHandEdits = 1
    LabRuns = 2
    LabArrivals = 5
    Tabs = {1, 2}
    QsAttempts = 2
    QsCopies = 2
CHECK_DEADLOCK FALSE
INVARIANTS
    ToolsTypeOK
    PublishedPassIsReal
    PassedProbeSentAsExpected
    ExitZeroIsThisRun
    LoadedIsCurrent
    PassedStrictIsOrdered
    PassedWereHeld
    CollectorsHaveConsent
    PassedTrafficIsOwn
    LeftAsFound
    PassedProbeMetTheHolder
