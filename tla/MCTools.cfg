SPECIFICATION ToolsSpec
CONSTANTS
    FsCalls = {1, 2}
    FsTrace <- MCFsTrace
    FsTask <- MCFsTask
    InGit = TRUE
    MaxUserWrites = 1
    MaxTrash = 2
    Runs = {1, 2}
    RunTask <- MCRunTask
    WorkdirRoots = {}
    MaxVm = 1
    ModelCallers = {a, b}
    MaxRestarts = 1
    LongSleep = 1
    MaxBackoffStep = 1
    MaxExits = 2
    MaxModelCalls = 2
    MaxDeltas = 2
    GateCalls = {1, 2}
    NoCall = NoCall
    Gone = Gone
PROPERTIES
    
    RunsAreConfined
    ChildIsSupervised
    
    CallsAreGated
CHECK_DEADLOCK FALSE
