SPECIFICATION Spec
CONSTANTS
    r1 = r1
    r2 = r2
    r3 = r3
    wsA = wsA
    wsB = wsB
    alice = alice
    NoRun = NoRun
    Runs = {r1, r2}
    Workers = {w1}
    WorkspaceOf <- MCOneWorkspace
    UserOf <- MCOneUser
    Serialized = TRUE
    SweepsLeases = FALSE
    MaxPerUser = 2
    MaxPerWorkspace = 1
    MaxGlobal = 64
    MaxSteps = 2
    MaxCalls = 1
SYMMETRY RoomSymmetry
INVARIANTS
    TypeOK
    SlotsRespected
    NoStepTwice
PROPERTIES
    AdmissionSpec
