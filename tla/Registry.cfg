SPECIFICATION FairSpec
CONSTANTS
    Sockets = {s1, s2}
    FlushThreshold = 2
    MaxTries = 2
    MaxActors = 2
    MaxCommands = 2
    MaxFaults = 2
INVARIANTS
    OneActor
    QuietEviction
    ShutdownKeepsTold
PROPERTIES
    IdleIsEvicted
CHECK_DEADLOCK FALSE
