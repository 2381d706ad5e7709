\* The instance of RestartLifecycle.cfg, asked one question.
SPECIFICATION Spec
CONSTANTS
    MaxRestarts = 2
    WindowMs = 3
    CooldownMs = 1
    BackoffMs = 1
    BackoffMaxMs = 2
    DegradedAt = 2
    SafeModeAt = 3
    SafeModeOnLoop = TRUE
    ResetOnSuccess = TRUE
    MaxEntries = 12
    BoundaryTimeoutMs = 1
    ReadinessTimeoutMs = 1
    ReadinessAttempts = 1
    RequiredGates <- RuntimeOnly
    ProbedGates <- SupervisedGates
    Horizon = 4
    MaxResets = 1
PROPERTY
    CancelPreventsStop
CHECK_DEADLOCK FALSE
