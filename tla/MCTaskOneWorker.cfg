SPECIFICATION Spec
CONSTANTS
    t1 = t1
    Tasks <- MCTasks
    NoTask = NoTask
    Class <- MCClassW2
    W1MaxAuto = 1
    MaxOut = 2
    MaxCalls = 0
    MaxParks = 0
    MaxResolves = 0
    MaxHalts = 1
    MaxCrashes = 0
INVARIANTS
    OneWorkerPerTask
CHECK_DEADLOCK FALSE
