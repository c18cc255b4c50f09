SPECIFICATION Spec
CONSTANTS
    Solvers = {1, 2}
    Rows = 2
    Cols = 3
    Cells <- MCCells
    Slots <- MCSlots
    Steps <- MCSteps
    MomentumSamples = 3
    BurstWindow = 1
    SittingGap = 4
    StretchShare = 5
    StallFloor = 2
    SaboteurMin = 1
    OneHitRoom = 2
    BullseyeMin = 2
    SprinterMin = 2
    MeddlerMin = 2
    MarqueeMin = 2
    NULL = NULL
    FocusScale = 6
    UsualStep = 1
    MaxEvents = 5
    MaxMess = 2
    MaxWrong = 1
    MaxJumps = 1
INVARIANTS
    CachedViewIsFinal
    ViewIsConsistent
    EveryFillerIsTitled
CHECK_DEADLOCK FALSE
