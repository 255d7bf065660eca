CONSTANTS
    Workers = {w1, w2, w3}
    Absent = {w3}
    NumShards = 1
    NumPartitions = 1
    MaxCrash = 1
    MaxTimeout = 0
SPECIFICATION FairSpec
INVARIANTS
    TypeOK
    NoShardForgotten
    PongsOwed
PROPERTIES
    MonitorAnswers
    Shutdown
