SPECIFICATION Spec
CONSTANTS
    r1 = r1
    r2 = r2
    t1 = t1
    a1 = a1
    a2 = a2
    Requests <- MCRequests
    Tasks <- MCTasks
    Actors <- MCSerial
    NoRequest = NoRequest
    Class <- MCClassW1
    Task <- MCTask
    InitLevels <- MCLevels
    Threshold = 2
    MaxOps = 7
INVARIANTS
    SerialDecisionsBind
PROPERTIES
    LadderIsEarned
CHECK_DEADLOCK FALSE
