CONSTANTS
    Workers = {w1, w2}
    Absent = {}
    NumShards = 1
    NumPartitions = 2
    MaxCrash = 1
    MaxTimeout = 0
SPECIFICATION FairSpec
PROPERTIES
    DropRemovesFiles
