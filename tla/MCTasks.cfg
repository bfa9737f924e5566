CONSTANTS
    c1 = c1
    p1 = p1
    none = none
    t1 = t1
    t2 = t2
    b1 = b1
    b2 = b2
    b3 = b3
    CoroProcesses <- MCCoroProcesses
    PyTasks <- MCPyTasks
    Blocks <- MCBlocks
    Threads <- MCThreads
    None <- none
    Sizes <- MCSizes
    Granularity = 2
    SizeClasses = 2
    MaxFree = 1
SPECIFICATION Spec
INVARIANTS ResumesItsOwn PoolIsSound
PROPERTY IsCallStack
SYMMETRY Symmetry
