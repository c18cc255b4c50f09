SPECIFICATION FairSpec
CONSTANTS
    c1 = c1
    R = R
    W = W
    lowR = lowR
    lowW = lowW
    Cells <- MCCells
    SolutionCells <- MCCells
    Targets <- MCCells
    Values <- MCValues
    Inputs <- MCInputs
    Normalized <- MCNormalized
    Accepted <- MCAccepted
    CommandIds <- MCCommandIds
    NoValue = NoValue
    NoVote = NoVote
    Users = {u1}
    MaxCommands = 2
    RecentLimit = 1
    MaxDrops = 1
    MaxLost = 1
    MaxCrashes = 1
    MaxFaults = 0
INVARIANTS
    LiveViewIsBoard
    NotAppliedAgainSoon
PROPERTIES
    NothingVanishes
    Converges
CHECK_DEADLOCK FALSE
