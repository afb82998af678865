SPECIFICATION Spec
CONSTANTS
    r1 = r1
    r2 = r2
    r3 = r3
    wsA = wsA
    wsB = wsB
    alice = alice
    NoRun = NoRun
    Runs = {r1}
    Workers = {w1, w2}
    WorkspaceOf <- MCOneWorkspace
    UserOf <- MCOneUser
    Serialized = FALSE
    SweepsLeases = TRUE
    MaxPerUser = 1
    MaxPerWorkspace = 1
    MaxGlobal = 1
    MaxSteps = 2
    MaxCalls = 2
SYMMETRY RoomSymmetry
INVARIANTS
    SoleExecutor
    ReplayOnce
    JournalIsPrefix
    MemoryFollowsJournal
    RevokedRoomStops
    CallsAreRun
