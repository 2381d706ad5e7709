\* The lifecycle on a short horizon; the plugin, a companion and its successor, two of which
\* may die.
SPECIFICATION MCSpec
CONSTANTS
    MaxRestarts = 2
    WindowMs = 2
    CooldownMs = 1
    BackoffMs = 1
    BackoffMaxMs = 2
    DegradedAt = 2
    SafeModeAt = 3
    SafeModeOnLoop = TRUE
    ResetOnSuccess = TRUE
    MaxEntries = 12
    BoundaryTimeoutMs = 1
    ReadinessTimeoutMs = 1
    ReadinessAttempts = 1
    RequiredGates <- RuntimeOnly
    ProbedGates <- SupervisedGates
    Horizon = 3
    MaxResets = 1
    plugin = plugin
    companion = companion
    successor = successor
    Supervisors <- Three
    Companions <- Outside
    Ttl = 2
    MaxCrashes = 2
INVARIANTS
    
    ExecutorOwnsFile
PROPERTIES
    RunEnds
    KeepsPromiseFairly
    LockIsTakenOver
CHECK_DEADLOCK FALSE
