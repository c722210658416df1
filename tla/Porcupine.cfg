SPECIFICATION FairSpec
CONSTANTS
    k1 = k1
    k2 = k2
    a = a
    b = b
    Key = {k1, k2}
    MaxOps = 5
    W = 2
    Scopes <- MCScopes
INVARIANTS VerdictCorrect ListIsPending PartialsLegal ReportExplains
PROPERTY CheckReturns
CHECK_DEADLOCK FALSE
