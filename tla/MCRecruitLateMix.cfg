SPECIFICATION Spec
CONSTANTS
    u1 = u1
    u2 = u2
    p1 = p1
    p2 = p2
    root = root
    m1 = m1
    a = a
    b = b
    Users = {u1}
    Projects = {p1}
    Managers = {root}
    Root = root
    NoManager = NoManager
    NoGroup = NoGroup
    NoCheck = NoCheck
    NdaProjects = {p1}
    Md5s = {a}
    Sizes = {1}
    SizeLimits <- UnitLimits
    Capacity = 9
    SubmitCountLimit = 2
    CheckLists <- NoLists
    MaxFiles = 1
    MaxPreSubmits = 1
    MaxSubmits = 1
PROPERTIES
    MixedBeforeEnd
CHECK_DEADLOCK FALSE
