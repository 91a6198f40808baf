CONSTANTS
    NumTasks = 2
    MaxBlocks = 8
    Sizes <- UpTo8
    Place <- Rings
    Times = {1, 2}
    RandMax = 1
    Options <- RandomWriteOptions
SPECIFICATION Spec
INVARIANT NoTrap
CHECK_DEADLOCK FALSE
