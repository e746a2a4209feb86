\* One run over any tree that four file changes lead to.
SPECIFICATION Spec
CONSTANTS
    g1 = g1
    g2 = g2
    g3 = g3
    g4 = g4
    g5 = g5
    g6 = g6
    k1 = k1
    k2 = k2
    t1 = t1
    t2 = t2
    t3 = t3
    Commits = {g1, g3, g4}
    CliCommits = {k1}
    Texts = {t1, t3}
    Swagger <- MCSwagger
    Manifest <- MCManifest
    Evidence <- MCEvidence
    Buildable <- MCBuildable
    Classified <- MCClassified
    Blocks <- MCBlocks
    Headings <- MCHeadings
    Producers <- MCProducers
    Accepted <- MCAccepted
    DefaultCli = k1
    MaxRuns = 1
    MaxEdits = 4
    Main = Main
CHECK_DEADLOCK FALSE
INVARIANTS
    TypeOK
    PassedIsValid
    PagesAgreeWithContract
    FailedIsInvalid
    LedgerCoversCandidate
