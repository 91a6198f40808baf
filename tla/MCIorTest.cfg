CONSTANTS
    NumTasks = 2
    Transfers = 2
    Options <- SoundOptions
SPECIFICATION Spec
INVARIANT TypeOK
INVARIANT NoFalseErrors
INVARIANT OpenFilesExist
INVARIANT EvidenceKept
INVARIANT FilesAsAsked
PROPERTY Finishes
