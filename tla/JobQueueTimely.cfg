SPECIFICATION TimelySpec
CONSTANTS
    j1 = j1
    j2 = j2
    Jobs <- TwoJobs
    Workers = {w1, w2}
    NoWorker = NoWorker
    Handled <- OneJob
    Rank <- MixedRank
    MaxAttempts = 2
    LockTicks = 2
    BackoffTicks = 1
    BatchSize = 2
    Delays <- NowOrLater
SYMMETRY WorkerSymmetry
INVARIANTS
    TypeOK
    ExclusiveRuns
    AttemptsCountClaims
    DeadLetterMeansExhausted
    BackoffHonoured
PROPERTIES
    CancelledIdleStays
    OnlyCancelRacesRewrite
    ImplementsService
