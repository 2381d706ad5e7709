\* One task and no orders or faults: a health decision that comes and goes.
SPECIFICATION QueueFairSpec
CONSTANTS
    headless = headless
    official = official
    Tasks <- OneTask
    Official <- NoTask
    Anytime <- OneTask
    Slots = 1
    MaxAttempts = 2
    Decisions = {"NO_ACTION", "PAUSE_NEW_WORK"}
    MaxUpsets = 0
    MaxLives = 1
PROPERTY
    HoldIsLifted
CHECK_DEADLOCK FALSE
