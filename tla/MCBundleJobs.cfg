SPECIFICATION Spec
CONSTANTS
    u1 = u1
    u2 = u2
    Puids = {u1, u2}
    MaxTasks = 3
    Faults <- MostFaults
INVARIANTS
    OnlyOnce
    ArchivesFit
    MixedByTheirJob
    OrderlyExit
PROPERTIES
    LostForGood
    FollowsLedger
