SPECIFICATION Spec
CONSTANTS
    t1 = t1
    Tasks <- MCTasks
    NoTask = NoTask
    Class <- MCClassW1
    W1MaxAuto = 1
    MaxOut = 2
    MaxCalls = 1
    MaxParks = 1
    MaxResolves = 0
    MaxHalts = 1
    MaxCrashes = 1
INVARIANTS
    WorkersAreAccounted
PROPERTIES
    ImplementsLifecycle
    HaltedNotRedispatched
CHECK_DEADLOCK FALSE
