CONSTANTS
    NumParties = 6
    NumIter = 3
SPECIFICATION OmpSpec
INVARIANTS
    IInv
    BarrierSafety
    TreeNoReportLost
PROPERTY
    ImplementsBarrier
