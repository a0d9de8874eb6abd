SPECIFICATION OpSpec
CONSTANTS
    o1 = o1
    o2 = o2
    Jobs <- TwoOps
    Handled <- TwoOps
    Workers = {w1}
    NoWorker = NoWorker
    Rank <- Equal
    MaxAttempts = 1
    LockTicks = 1
    BackoffTicks = 1
    BatchSize = 2
    Delays <- Now
    Keys = {k1}
    NoKey = NoKey
    NoLink = NoLink
    ItemCount = 1
    Cooperative <- TwoOps
CHECK_DEADLOCK FALSE
INVARIANTS
    OneOperationPerKey
