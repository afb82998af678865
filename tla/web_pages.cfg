SPECIFICATION WebSpec
CONSTANTS
    s1 = s1
    s2 = s2
    k1 = k1
    k2 = k2
    w1 = w1
    w2 = w2
    v1 = v1
    r1 = r1
    r2 = r2
    None = None
    Sessions = {s1, s2}
    CallIds = {k1, k2}
    MaxMessages = 4
    MaxContexts = 2
    MaxSends = 1
    Workspaces = {w1, w2}
    MaxTasks = 1
    Variables = {v1}
    MaxLoads = 2
    MaxOps = 1
    MaxChanges = 1
    Repositories = {r1, r2}
    BranchesOf <- BranchesOfMC
    DefaultOf <- DefaultOfMC
    MaxReads = 2
    MaxCreates = 1
SYMMETRY PageSymmetry
INVARIANTS
    WebTypeOK
    NothingHidden
    FeedIsFaithful
    OneActivityWorks
    TasksStayPut
    AnsweredBranchesFit
    EnvironmentShown
