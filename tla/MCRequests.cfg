SPECIFICATION FairSpec
CONSTANTS
    n1 = n1
    s1 = s1
    MaxRequests = 3
    Nonces = {n1}
    NoNonce = NoNonce
    Submissions = {s1}
    Create = Create
    MaxTokens = 2
    Faults <- AllFaults
INVARIANTS
    TypeOK
    AtMostOnce
    AnswersHold
    ToldIsStored
    TokenNotReplaced
PROPERTIES
    HandlersEnd
    FollowsReviewing
CHECK_DEADLOCK FALSE
