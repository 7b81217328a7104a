SPECIFICATION Spec
CONSTANTS
    t1 = t1
    c1 = c1
    c2 = c2
    c3 = c3
    Tasks <- MCTasks
    NoTask = NoTask
    Callers <- MCCallers
    MaxCalls = 5
    MaxFailures = 1
SYMMETRY CallerSymmetry
INVARIANTS
    TypeOK
    BooksLagByCalls
PROPERTIES
    ImplementsLifecycle
CHECK_DEADLOCK FALSE
