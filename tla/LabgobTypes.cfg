SPECIFICATION FairSpec
CONSTANTS
    T = T
    N = N
    Int0 = Int0
    g1 = g1
    g2 = g2
    x = x
    y = y
    Proc = {g1, g2}
    Type = {T, N, Int0}
    Fields <- MCFields
    Leaf = {x, y}
    Kind <- FlatKind
    Depth <- FlatDepth
    MaxUses = 2
INVARIANTS ComplainedOnce StaleWarned
PROPERTY CheckEnds
CHECK_DEADLOCK FALSE
