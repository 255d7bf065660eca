CONSTANTS
    Workers = {w1, w2}
    Absent = {}
    NumShards = 2
    NumPartitions = 1
    MaxCrash = 1
    MaxTimeout = 1
SPECIFICATION Spec
INVARIANTS
    OneJobPerWorker
    AnswersAccounted
SYMMETRY WorkerSymmetry
