SPECIFICATION Spec
CONSTANTS
    u1 = u1
    u2 = u2
    Puids = {u1, u2}
    MaxTasks = 2
    Faults <- SubmitOnly
INVARIANTS
    ArchivesFit
