SPECIFICATION FairSpec
CONSTANTS
    None = None
    Silent = silent
    Interactive = {i1}
    Flights = {r1, r2}
    Wrap = 2
    MaxSignIns = 2
    MaxSignOuts = 1
    MaxFaults = 1
    MaxKills = 1
PROPERTIES
    NeverSignedOutUnasked
    SessionIsRefreshed
CHECK_DEADLOCK FALSE
