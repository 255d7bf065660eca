CONSTANTS
    NumVMs = 4
    NumBoot = 3
    ULLRange = 4096
    MaxChanges = 1
    BootMem = 400
    MaxMem = 600
    HostFree = {100, 200, 300, 400}
    Grain = 100
    HostCpus = {2, 3}
    Amounts = {0, 40}
    MaxIntervals = 2
SPECIFICATION VirtSpec
INVARIANTS VirtTypeOK HostReserve BusiestApart GreedyBalanced
PROPERTIES CoordinatorSettles UsageTrue
CHECK_DEADLOCK FALSE
