SPECIFICATION Spec
CONSTANTS
    a = a
    b = b
    NoRun = NoRun
    Sessions = {a, b}
    MaxRuns = 2
    MaxSteps = 1
    MaxMoves = 3
    MaxLoads = 2
    MaxFaults = 0
SYMMETRY SessionSymmetry
INVARIANTS
    NoticesSuffice
