SPECIFICATION Spec
CONSTANTS
    NumTasks = 2
    XferSize = 3
    MaxRetry = 0
    MaxFaults = 2
    Options <- ReorderedNcMpi
INVARIANT ReadsOfOthers
