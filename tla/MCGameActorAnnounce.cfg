SPECIFICATION FairSpec
CONSTANTS
    c1 = c1
    R = R
    W = W
    lowR = lowR
    lowW = lowW
    Cells <- MCCells
    SolutionCells <- MCCells
    Targets <- MCCells
    Values <- MCValues
    Inputs <- MCInputs
    Normalized <- MCNormalized
    Accepted <- MCAccepted
    NoValue = NoValue
    NoVote = NoVote
    NoTime = NoTime
    RecentLimit = 5
    MaxSendSeq = 12
    Users = {u1}
    Spectators = {}
    CommandIds = {k1}
    FlushThreshold = 2
    Ttl = 1
    MaxQueue = 1
    MaxFaults = 1
    MaxCrashes = 0
PROPERTIES
    CompletionIsAnnounced
