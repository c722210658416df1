SPECIFICATION Spec
CONSTANTS
    s1 = s1
    s2 = s2
    s3 = s3
    a = a
    b = b
    Nil = Nil
    Server = {s1, s2, s3}
    Command = {a}
    SnapShotInterval = 2
    MaxTerm = 1
    MaxIndex = 2
    MaxLate = 0
    Candidates = {s1}
    Crashable = {s2}
    CampaignsOverlap = FALSE
    AppendsOverlap = FALSE
INVARIANTS ServiceInStep
CHECK_DEADLOCK FALSE
