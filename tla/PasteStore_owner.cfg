SPECIFICATION Spec
CONSTANTS
    IDs = {p1, p2}
    Tokens = {t1, t2}
    Operator = Operator
    NoToken = NoToken
    Req = {h1, h2}
    Ops = {"create", "createReuse", "dataDelete", "tokenRevoke"}
    Burns = {0}
    Lifetimes = {0, 2}
    Second = 2
    CacheTTL = 1
    CacheSurvives = FALSE
    Faults = TRUE
    MaxTime = 4
    MaxReads = 0
SYMMETRY HandlerSymmetry
INVARIANTS OwnerCanDelete
CHECK_DEADLOCK FALSE
