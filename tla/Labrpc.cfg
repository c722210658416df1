SPECIFICATION FairSpec
CONSTANTS
    x = x
    y = y
    k = k
    c1 = c1
    Node = {x, y}
    Client = {k}
    Call = {c1}
    MaxGen = 2
INVARIANTS AckedSurvives OldInstanceSilent
PROPERTY CallReturns
