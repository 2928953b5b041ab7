CONSTANTS
    FailureThreshold = 1
    OpenTicks = 1
    ProbeFailures = 1
    ProbeSuccesses = 1
    get = get
    post = post
    Requests <- BothRequests
    Safe <- OnlyGet
    AllowUnsafe = FALSE
    Size <- OneEach
    Weight <- TwoOneWeights
    AutoProtocol <- FirstIsAuto
    Slots = 2
    EarlyAnswers = TRUE
    LateErrors = TRUE
    SiteDrains = TRUE
    Reloads = TRUE
    Clock = TRUE

SPECIFICATION Spec

\* After an uncaught exception the process is gone.
CHECK_DEADLOCK FALSE

INVARIANTS Consistent OneAttemptAtATime UnsafeSentOnce
