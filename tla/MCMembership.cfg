SPECIFICATION Spec
CONSTANTS
    Users = {u1, u2, u3}
    Creator = u1
    Guests = {u3}
    NoUser = NoUser
    Slots = {a, b}
    MaxRequests = 4
    MaxLost = 1
INVARIANTS
    OneHost
    NoHalfState
    SocketsFollowMembership
SYMMETRY SlotSymmetry
CHECK_DEADLOCK FALSE
