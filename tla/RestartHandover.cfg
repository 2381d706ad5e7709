\* Three applications and two companions, any of which may die; and the hosts of one
\* instance: three, three Harnesses and two faults for one client, or two, two and one
\* for two clients.
SPECIFICATION MCSpec
CONSTANTS
    MaxApps = 3
    MayDie = TRUE
    MaxComps = 2
    MaxHosts = 3
    MaxKids = 3
    Clients = {"shell", "cli"}
    MaxOpens = 2
    MaxFaults = 2
    Lone = "shell"
    Few = 2
    FewFaults = 1
INVARIANTS
    TypeOK
    CleanMeansOneWatcher
    
PROPERTIES
    
    StandsDown
    LiveOwnerIsSpared
    ClientReturns
CHECK_DEADLOCK FALSE
