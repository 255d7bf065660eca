CONSTANTS
    Requests = {r1, r2}
    Vendors = {v1, v2}
    Cancellers = {r1}
    HardwareConcurrency = 1
    NumThreads = 2
    None = None
SPECIFICATION Spec
INVARIANTS
    TypeOK
    OneAcceptor
    CallDataOwned
    BidsComplete
PROPERTY
    EveryRequestAnswered
