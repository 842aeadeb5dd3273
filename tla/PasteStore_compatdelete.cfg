SPECIFICATION Spec
CONSTANTS
    IDs = {p1}
    Tokens = {t1}
    Operator = Operator
    NoToken = NoToken
    Req = {h1}
    Ops = {"compatCreate", "read", "compatDelete"}
    Burns = {0}
    Lifetimes = {0}
    Second = 1
    CacheTTL = 1
    CacheSurvives = FALSE
    Faults = FALSE
    MaxTime = 1
    MaxReads = 2
SYMMETRY HandlerSymmetry
INVARIANTS DeletedNotServed
CHECK_DEADLOCK FALSE
