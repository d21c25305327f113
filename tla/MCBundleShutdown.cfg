SPECIFICATION FairSpec
CONSTANTS
    u1 = u1
    u2 = u2
    Puids = {u1, u2}
    MaxTasks = 2
    Faults <- AllFaults
INVARIANTS
    TypeOK
    IncludedOnce
    NeverSpins
PROPERTIES
    ShutdownEnds
