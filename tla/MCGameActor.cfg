SPECIFICATION Spec
CONSTANTS
    c1 = c1
    R = R
    W = W
    lowR = lowR
    lowW = lowW
    Cells <- MCCells
    SolutionCells <- MCCells
    Targets <- MCCells
    Values <- MCValues
    Inputs <- MCInputs
    Normalized <- MCNormalized
    Accepted <- MCAccepted
    NoValue = NoValue
    NoVote = NoVote
    NoTime = NoTime
    RecentLimit = 2
    MaxSendSeq = 5
    Users = {u1, u2}
    Spectators = {}
    CommandIds = {k1, k2, k3}
    FlushThreshold = 2
    Ttl = 1
    MaxQueue = 1
    MaxFaults = 1
    MaxCrashes = 1
SYMMETRY MCSymmetry
INVARIANTS
    RowAndLogAgree
    TerminalIsDurableFirst
    NeverRefused
    OpenVoteIsTimed
    LostTailIsBounded
PROPERTIES
    KeepsPromise
