SPECIFICATION Spec
CONSTANTS
    IDs = {p1}
    Tokens = {t1, t2}
    Operator = Operator
    NoToken = NoToken
    Req = {h1, h2}
    Ops = {"create", "createReuse", "compatCreate", "read", "compatRead", "lenPeek", "stikked", "graphql", "delete", "webDelete", "compatDelete", "dataDelete", "restart", "tokenRevoke"}
    Burns = {0, 1}
    Lifetimes = {0}
    Second = 1
    CacheTTL = 1
    CacheSurvives = FALSE
    Faults = TRUE
    MaxTime = 1
    MaxReads = 2
SYMMETRY HandlerSymmetry
INVARIANTS IInv BurnedNotServedAgain
PROPERTIES RemovalAuthorised LifeSpec
CHECK_DEADLOCK FALSE
