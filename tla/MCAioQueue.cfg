CONSTANTS
    b1 = b1
    b2 = b2
    pattern = pattern
    prefill = prefill
    Iocbs = {1, 2, 3}
    Bufs = {b1, b2}
    Granularity = 2
    MaxReap = 512
    MaxVolume = 4
    Lengths = {1, 2}
    Places = {1}
    Data = {pattern, prefill}
    Overwrites = FALSE
SPECIFICATION Spec
INVARIANT TypeOK
INVARIANT BuffersOwned
INVARIANT NoEagain
INVARIANT Durable
PROPERTY CallsReturn
