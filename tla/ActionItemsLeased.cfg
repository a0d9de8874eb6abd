SPECIFICATION LeasedSpec
CONSTANTS
    Items = {i1, i2}
    Kinds <- ReplayAndNews
    Workers = {w1, req}
    InSession = {req}
    Markers = {}
    Requests = {}
    NoWorker = NoWorker
    MaxAttempts = 2
    LockTicks = 2
    RetryTicks = 1
    Delays <- Now
    BatchSize = 2
INVARIANTS
    ExclusiveRuns
    ReplayedOnce
    RunningIsLeased
    FailedMeansExhausted
PROPERTIES
    ImplementsService
