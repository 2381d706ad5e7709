\* Two restarts over work that is started three times; or one episode and four shells,
\* one after another, or three of which two may live together.
SPECIFICATION MCSpec
CONSTANTS
    MaxRestarts = 2
    MaxStarts = 3
    Lives = 4
    MaxSeq = 5
    MaxAttempts = 2
    LivesTogether = 3
    MaxSeqTogether = 2
INVARIANTS
    TypeOK
    ParkedIsRecorded
    RecoveryTypeOK
    OneExecutor
    LoneShellIsCurrent
PROPERTIES
    RestartEnds
    EpisodeComesBack
    LifecycleOrder
CHECK_DEADLOCK FALSE
