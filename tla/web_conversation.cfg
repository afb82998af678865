SPECIFICATION Spec
CONSTANTS
    w1 = w1
    a = a
    b = b
    NoKey = NoKey
    Workspaces = {w1}
    Sessions = {a, b}
    WorkspaceOf <- WorkspaceOfOne
    Recorder = TRUE
    MaxMessages = 1
    MaxGets = 2
    MaxFaults = 1
INVARIANTS
    TypeOK
    ShownIsHistory
    RestingPageIsCurrent
PROPERTIES
    NothingDisappears
