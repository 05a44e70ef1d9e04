CONSTANTS
    ForceStop = FALSE
    AdbTimeout = 10
    HealthTimeout = 4
    CleanupTimeouts = {5, 15, 30}
    RetryDelay = 1
    MaxFailures = 3
SPECIFICATION AttemptSpec
INVARIANTS
    AttemptTypeOK
    NoneAbandoned
    FinishesInTime
