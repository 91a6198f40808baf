CONSTANTS
    NumTasks = 2
    Tests <- SpinsPastStonewallTests
    MaxTime = 3
    MaxPairs = 5
SPECIFICATION Spec
PROPERTY InOrder
CHECK_DEADLOCK FALSE
