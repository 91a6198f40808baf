SPECIFICATION Spec
CONSTANTS
    NumTasks = 2
    XferSize = 3
    MaxRetry = 0
    MaxFaults = 2
    Options <- AllOptions
INVARIANT TypeOK
INVARIANT NoFalseAborts
INVARIANT ReadBack
INVARIANT SizeTold
INVARIANT NothingHeld
INVARIANT NothingLeft
INVARIANT SameCollectives
