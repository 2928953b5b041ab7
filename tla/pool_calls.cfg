CONSTANTS
    FailureThreshold = 2
    OpenTicks = 1
    ProbeFailures = 2
    ProbeSuccesses = 1
    N = 2
    PoolReloads = TRUE
    PoolWeight <- MCWeight

SPECIFICATION FairPoolSpec

INVARIANTS OneProbePerPhase
PROPERTIES BackoffRespected NoStarvation
