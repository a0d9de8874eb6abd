SPECIFICATION Spec
CONSTANTS
    Items = {i1}
    Kinds <- AllKinds
    Workers = {w1}
    InSession = {}
    Markers = {m1}
    Requests = {r1, r2}
    NoWorker = NoWorker
    MaxAttempts = 2
    LockTicks = 2
    RetryTicks = 1
    Delays <- NowOrLater
    BatchSize = 2
INVARIANTS
    TypeOK
    CompletedMeansDone
