\* The adapters as app/reboot/targets.cjs has them: none has a park().
SPECIFICATION RebootSpec
CONSTANTS
    MaxVersions = 1
    MaxStarts = 1
    Passes = {"tick"}
    Kinds = {"worker", "episode"}
    Parks = {}
PROPERTY
    NeverOverATask
CHECK_DEADLOCK FALSE
