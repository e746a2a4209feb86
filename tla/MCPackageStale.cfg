\* One build, one editor: the claim of the comment at line 40.
SPECIFICATION Spec
CONSTANTS
    Builds = {b1}
    Checks = {}
    NFiles = 2
    MaxVersion = 1
    MaxEdits = 1
    MayRevert = FALSE
    ValidTrees <- MCValidTrees
    NoPackage = NoPackage
CHECK_DEADLOCK FALSE
PROPERTY ConcurrentEditIsAnError
