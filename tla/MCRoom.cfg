SPECIFICATION Spec
CONSTANTS
    c1 = c1
    R = R
    W = W
    lowR = lowR
    lowW = lowW
    Cells <- MCCells
    SolutionCells <- MCCells
    Targets <- MCCells
    Values <- MCValues
    Inputs <- MCInputs
    Normalized <- MCNormalized
    Accepted <- MCAccepted
    CommandIds <- MCCommandIds
    NoValue = NoValue
    NoVote = NoVote
    Users = {u1, u2}
    MaxCommands = 2
    RecentLimit = 5
    MaxDrops = 0
    MaxLost = 1
    MaxCrashes = 0
    MaxFaults = 1
SYMMETRY MCSymmetry
INVARIANTS
    LiveViewIsBoard
    CompletionIsDurable
CHECK_DEADLOCK FALSE
