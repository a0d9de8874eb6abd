SPECIFICATION FairSpec
CONSTANTS
    v1 = v1
    v2 = v2
    Subs = {s1}
    Workers = {w1, w2}
    Posters = {}
    NoWorker = NoWorker
    Messages <- CandleMessages
    Posted = {}
    Values <- OneCandle
    NoValue = NoValue
    Commands <- StopAndResume
    LeaseTicks = 2
INVARIANTS
    TypeOK
    OneUnclearedStream
PROPERTIES
    FinalCandleKept
    StopEndsStreams
    ActiveIsStreamed
