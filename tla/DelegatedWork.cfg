\* Three nodes, two workers and any two of the orders and faults, or duplicates and one;
\* two plans, or a plan and its edit, two starts of the application and two passes that
\* overlap in the first.
SPECIFICATION MCSpec
CONSTANTS
    N = 3
    Plan <- ThePlan
    Deps <- TheDeps
    Scope <- TheScope
    Files = {"a", "b"}
    Speculative = {1}
    MaxAttempts = 2
    MaxWorkers = 2
    MaxSpawns = 2
    MaxLives = 1
    MaxUpsets = 2
    MaxVersions = 2
    MaxStarts = 2
    Passes = {t1, t2}
    Kinds = {"worker", "none"}
    Parks = {"worker", "episode"}
SYMMETRY Symmetry
INVARIANTS
    TypeOK
    SamePlanDisjoint
    AttemptsBounded
    DependenciesDone
    BusyMeansWorking
    RebootTypeOK
    CleanTaskIsCarried
    
PROPERTIES
    CompletedIsFinal
    StopHolds
    NeverOverATask
CHECK_DEADLOCK FALSE
