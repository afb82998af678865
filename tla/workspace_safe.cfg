SPECIFICATION Spec
CONSTANTS
    w1 = w1
    q1 = q1
    q2 = q2
    NoWorkspace = NoWorkspace
    Workspaces = {w1}
    Requests = {q1, q2}
    NewBranch <- MCNewBranch
    MaxQueue = 1
SYMMETRY RequestSymmetry
INVARIANTS
    TypeOK
    InitializingIsServed
    ReadyIsPrepared
    NoOrphanTree
PROPERTIES
    PreparedStays
    QuietDeletionIsFinal
    WaitingIsServed
