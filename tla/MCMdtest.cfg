SPECIFICATION Spec
CONSTANTS
    NumTasks = 2
    Options <- SoundOptions
INVARIANT TypeOK
INVARIANT NoErrors
INVARIANT SameWork
INVARIANT CleanedUp
INVARIANT SameCollectives
