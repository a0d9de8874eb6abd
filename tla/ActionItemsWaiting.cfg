SPECIFICATION CalmSpec
CONSTANTS
    Items = {i1}
    Kinds <- JustOutcome
    Workers = {w1}
    InSession = {}
    Markers = {}
    Requests = {}
    NoWorker = NoWorker
    MaxAttempts = 2
    LockTicks = 2
    RetryTicks = 1
    Delays <- Now
    BatchSize = 2
PROPERTIES
    ExecutedOnceCandlesExist
