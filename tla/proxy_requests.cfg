CONSTANTS
    FailureThreshold = 1
    OpenTicks = 1
    ProbeFailures = 1
    ProbeSuccesses = 1
    get = get
    post = post
    Requests <- BothRequests
    Safe <- OnlyGet
    AllowUnsafe = FALSE
    Size <- TwoAndOne
    Weight <- EqualWeights
    AutoProtocol <- NoAuto
    Slots = 2
    EarlyAnswers = FALSE
    LateErrors = FALSE
    SiteDrains = FALSE
    Reloads = FALSE
    Clock = TRUE

SPECIFICATION FairSpec

PROPERTIES HalfOpenResolves AnsweredIfNobodyRecovers
