SPECIFICATION Spec
CONSTANTS
    r1 = r1
    r2 = r2
    t1 = t1
    a1 = a1
    a2 = a2
    Requests <- MCRequests
    Tasks <- MCTasks
    Actors <- MCPair
    NoRequest = NoRequest
    Class <- MCClassW1W3
    Task <- MCTask
    InitLevels <- MCLevels
    Threshold = 2
    MaxOps = 5
SYMMETRY ActorSymmetry
INVARIANTS
    TypeOK
    DecidedOnce
    W3NeedsTypedApproval
    ExecutesOnce
CHECK_DEADLOCK FALSE
