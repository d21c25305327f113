SPECIFICATION Spec
CONSTANTS
    u1 = u1
    MaxManagers = 1
    MaxLogins = 2
    MaxSessions = 3
    MaxTime = 3
    LoginTime = 1
    SudoTime = 0
    SessionTime = 1
    MaxForgets = 2
    Users = {u1}
    NoUser = NoUser
    MaxLoginAs = 1
    MaxUserTokens = 2
    MaxRevocations = 1
    LoginAsTime = 0
    LoginAsSession = 0
    UserTime = 1
INVARIANTS
    TypeOK
    SessionsHaveSecret
    OneSessionPerLogin
    SudoNeedsCode
    LoginAsOnce
PROPERTIES
    SecretSetOnce
    RevokedForGood
CHECK_DEADLOCK FALSE
