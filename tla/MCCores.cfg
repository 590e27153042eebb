SPECIFICATION MCSpec
CONSTANTS
    MaxTasks = 4
    Cores = {c1, c2}
    StackSizes = {0, 1}
    DefaultStack = 16
    StackBase = 2048
    LockTasks = 3
    RWCores = {r1, r2, r3}
    MaxReaders = 2
INVARIANTS OnlyCurrentRuns WriterAlone
PROPERTIES NoOvertaking ImplementsSched 
