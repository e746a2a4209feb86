\* Two changes by hand of the quickstart or of another page.
SPECIFICATION Spec
CONSTANTS
    Paths = {"quickstart", "page"}
    Quickstart = "quickstart"
    Commands = {"get", "post", "data", "joined", "gateway", "other", "remove", "wrong", "list", "preview", "create", "timedCreate"}
    Tokens <- MCTokens
    Options <- MCOptions
    JoinedMethod <- MCJoinedMethod
    JoinedData = {"--data={}"}
    Mentions <- MCMentions
    Route <- MCRoute
    NoRoute = NoRoute
    Operations <- MCOperations
    CliContract <- MCCliContract
    ValueFlags <- MCValueFlags
    Cleanup = {"remove"}
    Vocabulary = {"fence", "fence bash", "status Verified", "workflow quickstart-model-route", "workflow other", "get", "joined", "gateway", "create", "timedCreate", "comment"}
    Templates <- MCTemplates
    MaxEdits = 2
CHECK_DEADLOCK FALSE
INVARIANTS
    TypeOK
    ValidatedIsCurrent
    VerifiedMutationHasWorkflow
    RefreshSettles
