\* The instance of RestartHandover.cfg, asked one question.
SPECIFICATION Spec
CONSTANTS
    MaxApps = 3
    MayDie = FALSE
    MaxComps = 2
PROPERTY
    ExitStaysClosed
CHECK_DEADLOCK FALSE
