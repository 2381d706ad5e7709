\* A headless task, which may run at any hour, and an official one, for one slot; two
\* orders or faults, two lives of the shell.
SPECIFICATION QueueFairSpec
CONSTANTS
    headless = headless
    official = official
    Tasks <- TheTasks
    Official <- TheOfficial
    Anytime <- TheAnytime
    Slots = 1
    MaxAttempts = 2
    Decisions = {"NO_ACTION", "PAUSE_NEW_WORK"}
    MaxUpsets = 2
    MaxLives = 2
INVARIANTS
    QueueTypeOK
    
    OneFate
PROPERTY
    QueueMoves
CHECK_DEADLOCK FALSE
