SPECIFICATION FairSpec
CONSTANTS
    w1 = w1
    q1 = q1
    q2 = q2
    NoWorkspace = NoWorkspace
    Workspaces = {w1}
    Requests = {q1}
    NewBranch <- MCNewBranch
    MaxQueue = 3
PROPERTIES
    QueuedJobIsTaken
    PreparationEnds
