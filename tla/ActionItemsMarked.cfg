SPECIFICATION LeasedSpec
CONSTANTS
    Items = {i1}
    Kinds <- JustReplay
    Workers = {w1, w2}
    InSession = {}
    Markers = {}
    Requests = {}
    NoWorker = NoWorker
    MaxAttempts = 2
    LockTicks = 2
    RetryTicks = 1
    Delays <- Now
    BatchSize = 2
PROPERTIES
    CompletedStays
