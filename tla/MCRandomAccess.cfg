CONSTANTS
    NumTasks = 2
    MaxBlocks = 8
    Sizes <- UpTo8
    Place <- Rings
    Times = {1, 2}
    RandMax = 1
    Options <- SoundOptions
SPECIFICATION Spec
INVARIANT TypeOK
INVARIANT EveryTransferOnce
INVARIANT EachBlockOnce
INVARIANT ReadsFindData
