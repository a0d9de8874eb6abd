SPECIFICATION Spec
CONSTANTS
    v1 = v1
    v2 = v2
    Subs = {s1, s2}
    Workers = {w1}
    Posters = {p1}
    NoWorker = NoWorker
    Messages <- CandleMessages
    Posted <- OtherMessages
    Values <- OneCandle
    NoValue = NoValue
    Commands = {}
    LeaseTicks = 1
SYMMETRY SubSymmetry
PROPERTIES
    OnlyStaleReadsRewrite
    FinalNeverReopens
