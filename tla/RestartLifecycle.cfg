\* Two restarts in a window of three ticks; safe mode above the budget, as shipped.
SPECIFICATION Spec
CONSTANTS
    MaxRestarts = 2
    WindowMs = 3
    CooldownMs = 1
    BackoffMs = 1
    BackoffMaxMs = 2
    DegradedAt = 2
    SafeModeAt = 3
    SafeModeOnLoop = TRUE
    ResetOnSuccess = TRUE
    MaxEntries = 12
    BoundaryTimeoutMs = 1
    ReadinessTimeoutMs = 1
    ReadinessAttempts = 1
    RequiredGates <- RuntimeOnly
    ProbedGates <- SupervisedGates
    Horizon = 4
    MaxResets = 1
INVARIANTS
    TypeOK
    WindowBound
    BudgetIsSettled
PROPERTIES
    StopIsEarned
    KeepsPromise
CHECK_DEADLOCK FALSE
