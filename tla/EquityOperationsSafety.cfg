SPECIFICATION FairOpSpec
CONSTANTS
    o1 = o1
    o2 = o2
    Jobs <- TwoOps
    Handled <- TwoOps
    Workers = {w1}
    NoWorker = NoWorker
    Rank <- Equal
    MaxAttempts = 1
    LockTicks = 1
    BackoffTicks = 1
    BatchSize = 2
    Delays <- Now
    Keys = {k1}
    NoKey = NoKey
    NoLink = NoLink
    ItemCount = 2
    Cooperative <- OnlyO1
CHECK_DEADLOCK FALSE
INVARIANTS
    OpTypeOK
    CompletedJobHasOutcome
    PendingHasLiveJob
    StopsWithinOneItem
PROPERTIES
    OnlyRacesRewriteCancelled
    QueuedSettlesUnlessLost
