SPECIFICATION MCSpec
CONSTANTS
    Artifact <- MCArtifact
    Event = {}
    Call = {c1, c2}
    Peer = {"p"}
    Agent = {"a1"}
    Submission <- MCSubmission
    Request <- MCRequest
    Config <- MCConfig
    FailureLimit = 2
    Window = 2
    AwaitStart = TRUE
    MaxNow = 4
    None = None
CHECK_DEADLOCK FALSE
INVARIANTS
    DelegationsAuthorised
    ReloadsThrottled
    StorageOutlivesClients
PROPERTIES
    OnlyClientsHoldClose
