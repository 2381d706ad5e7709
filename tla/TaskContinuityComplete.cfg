\* The instance of TaskContinuity.cfg, asked one question.
SPECIFICATION Spec
CONSTANTS
    MaxRestarts = 2
    MaxStarts = 3
PROPERTY
    CompleteIsComplete
CHECK_DEADLOCK FALSE
