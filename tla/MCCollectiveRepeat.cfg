CONSTANTS
    NumTasks = 2
    Tests <- CollectiveRepeatTests
    MaxTime = 2
    MaxPairs = 5
SPECIFICATION Spec
INVARIANT SameCollectives
CHECK_DEADLOCK FALSE
