CONSTANTS
    Workers = {w1, w2}
    Absent = {}
    NumShards = 3
    NumPartitions = 2
    MaxCrash = 0
    MaxTimeout = 0
SPECIFICATION FairSpec
INVARIANTS
    FlagComesBack
    ReduceSeesAllShards
    OutputCorrect
PROPERTIES
    WokenByLastAnswer
    EveryShardMapped
