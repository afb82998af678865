SPECIFICATION Spec
CONSTANTS
    a = a
    b = b
    NoRun = NoRun
    Sessions = {a, b}
    MaxRuns = 2
    MaxSteps = 1
    MaxMoves = 3
    MaxLoads = 2
    MaxFaults = 1
SYMMETRY SessionSymmetry
INVARIANTS
    TypeOK
    RestingTimelineIsCurrent
