SPECIFICATION Spec
CONSTANTS
    MaxTasks = 3
    Cores = {c1}
    StackSizes = {0}
    DefaultStack = 16
    StackBase = 2048
PROPERTIES BlockedUntilUnblocked
