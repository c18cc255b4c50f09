SPECIFICATION EGSpec
CONSTANTS
    c1 = c1  c2 = c2  block = block
    A = A  R = R  lowerA = lowerA  bad = bad
    u1 = u1  u2 = u2  u3 = u3
    Cells <- MCCells
    SolutionCells <- MCCells
    Targets <- MCTargets
    Values <- MCValues
    Inputs <- MCInputs
    Normalized <- MCNormalized
    Accepted <- MCAccepted
    Users <- MCUsers
    CommandIds = {1}
    NoValue = NoValue
    NoVote = NoVote
    MaxSeq = 7
SYMMETRY Symmetry
CHECK_DEADLOCK FALSE
INVARIANTS
    BoardIsGood
    SeqIsContiguous
    VotesAreSerial
    OutcomeFollowsBallots
    ReplayRebuildsBoard
PROPERTIES
    TerminalIsFrozen
