\* Two builds and a --check that may overlap, edits that never restore content, kills.
SPECIFICATION Spec
CONSTANTS
    Builds = {b1, b2}
    Checks = {c1}
    NFiles = 2
    MaxVersion = 2
    MaxEdits = 2
    MayRevert = FALSE
    ValidTrees <- MCValidTrees
    NoPackage = NoPackage
SYMMETRY MCBuildSymmetry
INVARIANTS
    TypeOK
    PublishesOneSnapshot
    TornDownloadIsReported
    UndisturbedIsExact
PROPERTY ImplementsSnapshotPublisher
CHECK_DEADLOCK FALSE
