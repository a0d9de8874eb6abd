SPECIFICATION FairTimelySpec
CONSTANTS
    j1 = j1
    j2 = j2
    Jobs <- OneJob
    Workers = {w1, w2}
    NoWorker = NoWorker
    Handled <- OneJob
    Rank <- SameRank
    MaxAttempts = 3
    LockTicks = 2
    BackoffTicks = 1
    BatchSize = 1
    Delays <- NowOrLater
PROPERTIES
    SettlesUnlessLost
    LostClaimsRetaken
