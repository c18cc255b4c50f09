SPECIFICATION FairSpec
CONSTANTS
    Users = {u1, u2}
    Names = {n}
    Provided = {p}
    None = None
    Slots = {a}
    Fetchers = {f1, f2}
    MaxKeys = 2
    MaxRequests = 2
    MaxSignIns = 2
    MaxFaults = 1
INVARIANTS
    ShownNameIsTheirs
    ChosenNameStays
    ReportsAreTrue
PROPERTIES
    KeysCatchUp
CHECK_DEADLOCK FALSE
