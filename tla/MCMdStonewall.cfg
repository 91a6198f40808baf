CONSTANTS
    NumTasks = 1
    Options <- StonewallOptions
SPECIFICATION Spec
INVARIANT NoErrors
CHECK_DEADLOCK FALSE
