CONSTANTS
    Workers = {w1, w2}
    Absent = {}
    NumShards = 1
    NumPartitions = 1
    MaxCrash = 0
    MaxTimeout = 1
SPECIFICATION FairSpec
PROPERTIES
    TimedOutJobRedirected
