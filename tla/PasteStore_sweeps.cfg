SPECIFICATION FairSpec
CONSTANTS
    IDs = {p1}
    Tokens = {t1}
    Operator = Operator
    NoToken = NoToken
    Req = {h1, h2}
    Ops = {"create", "read", "tokenRevoke", "restart"}
    Burns = {0, 1}
    Lifetimes = {0, 1}
    Second = 1
    CacheTTL = 1
    CacheSurvives = TRUE
    Faults = FALSE
    MaxTime = 3
    MaxReads = 2
INVARIANTS BurnOvershootBounded
PROPERTIES ExpiredEventuallyRemoved RevokedEventuallyRemoved
CHECK_DEADLOCK FALSE
