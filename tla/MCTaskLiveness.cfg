SPECIFICATION FairSpec
CONSTANTS
    t1 = t1
    Tasks <- MCTasks
    NoTask = NoTask
    Class <- MCClassW2
    W1MaxAuto = 1
    MaxOut = 2
    MaxCalls = 1
    MaxParks = 1
    MaxResolves = 1
    MaxHalts = 0
    MaxCrashes = 1
PROPERTIES
    TasksGoOn
CHECK_DEADLOCK FALSE
