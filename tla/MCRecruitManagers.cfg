SPECIFICATION Spec
CONSTANTS
    u1 = u1
    u2 = u2
    p1 = p1
    p2 = p2
    root = root
    m1 = m1
    a = a
    b = b
    Users = {u1, u2}
    Projects = {p1}
    Managers = {root, m1}
    Root = root
    NoManager = NoManager
    NoGroup = NoGroup
    NoCheck = NoCheck
    NdaProjects = {}
    Md5s = {a}
    Sizes = {1}
    SizeLimits <- UnitLimits
    Capacity = 9
    SubmitCountLimit = 2
    CheckLists <- SomeLists
    MaxFiles = 1
    MaxPreSubmits = 1
    MaxSubmits = 2
INVARIANTS
    UsesFitTarget
PROPERTIES
    ReviewSetsCheckedList
    CheckedListsApart
SYMMETRY UserSymmetry
CHECK_DEADLOCK FALSE
