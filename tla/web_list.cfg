SPECIFICATION FairSpec
CONSTANTS
    w1 = w1
    c1 = c1
    c2 = c2
    NoWorkspace = NoWorkspace
    Workspaces = {w1}
    Slots = {c1, c2}
    MaxFaults = 1
INVARIANTS
    TypeOK
    LockIsExact
    PreparationIsWatched
    OfferedIsAccepted
PROPERTIES
    PreparationEndsOnPage
CHECK_DEADLOCK FALSE
