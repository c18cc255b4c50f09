SPECIFICATION Spec
CONSTANTS
    Users = {u1, u2}
    Cells = 2
    NoUser = NoUser
    NoFrame = NoFrame
    NoTime = NoTime
    Debounce = 2
    Announce = 1
    Boundary = 3
    MaxTime = 3
    MaxEvents = 5
    MaxFaults = 1
INVARIANTS
    IslandsAreCurrent
    ClockIsTimed
PROPERTIES
    FillsAreSpaced
SYMMETRY UserSymmetry
CHECK_DEADLOCK FALSE
