CONSTANTS
    Directories = {"out"}
    Kilo = 2
    IntRange = 128
    KeyValuePairDumpThreshold = 2
    Pairs <- PairsOf
    Hash <- HashOf
    Disks <- AllDisks
    Configs <- AllConfigs
    Registered = {"cs6210"}
    MaxRuns = 2
    MaxSize = 5
SPECIFICATION Spec
INVARIANTS CutsAtLines FailsAtExactEnd EveryLineOnce ReduceExact
CHECK_DEADLOCK FALSE
