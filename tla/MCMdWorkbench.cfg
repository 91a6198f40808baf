CONSTANTS
    NumTasks = 3
    Options <- SoundOptions
SPECIFICATION Spec
INVARIANT TypeOK
INVARIANT NoErrors
INVARIANT WorkingSet
INVARIANT CleanedUp
PROPERTY Finishes
