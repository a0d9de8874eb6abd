SPECIFICATION Spec
CONSTANTS
    Batches = {b1, b2}
    Times = {1, 2, 3}
    v1 = v1
    v2 = v2
    Values = {v1, v2}
    NoCandle = NoCandle
    Uploads <- Files
    Fetches <- Answers
    ChunkSize = 2
SYMMETRY Symmetric
INVARIANTS
    TypeOK
    WritesAreSequential
PROPERTIES
    OnlyStaleReadsOverwrite
    CompletedMeansStored
