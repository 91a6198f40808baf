CONSTANTS
    NumTasks = 2
    Tests <- SoundTests
    MaxTime = 2
    MaxPairs = 5
SPECIFICATION Spec
INVARIANT TypeOK
INVARIANT SameCollectives
INVARIANT EqualWork
INVARIANT WithinIterations
INVARIANT PrefillFirst
PROPERTY InOrder
PROPERTY Returns
PROPERTY ImplementsPhase
