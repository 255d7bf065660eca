CONSTANTS
    NumProcs = 3
    Team = {0, 1}
    NumParties = 6
    NumIter = 2
SPECIFICATION MpiSpec
INVARIANTS
    MpiTypeOK
    BacklogBounded
    TreeOnlyReportsGathered
    OneSpeaker
PROPERTY
    ImplementsBarrier
