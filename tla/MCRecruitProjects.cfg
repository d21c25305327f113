SPECIFICATION Spec
CONSTANTS
    u1 = u1
    u2 = u2
    p1 = p1
    p2 = p2
    root = root
    m1 = m1
    a = a
    b = b
    Users = {u1}
    Projects = {p1, p2}
    Managers = {root}
    Root = root
    NoManager = NoManager
    NoGroup = NoGroup
    NoCheck = NoCheck
    NdaProjects = {}
    Md5s = {a}
    Sizes <- SomeSizes
    SizeLimits <- RoomyLimits
    Capacity = 2
    SubmitCountLimit = 2
    CheckLists <- NoLists
    MaxFiles = 2
    MaxPreSubmits = 1
    MaxSubmits = 1
INVARIANTS
    WithinCapacity
PROPERTIES
    EndedProjectsFrozen
    StrandedForGood
SYMMETRY ProjectSymmetry
CHECK_DEADLOCK FALSE
