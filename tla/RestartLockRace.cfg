\* The plugin and one companion, nobody dying, claims that cannot expire in time.
SPECIFICATION LockSpec
CONSTANTS
    plugin = plugin
    companion = companion
    successor = successor
    Supervisors <- Two
    Companions <- OneOutside
    Ttl = 30
    MaxCrashes = 0
INVARIANT
    AtMostOneExecutor
