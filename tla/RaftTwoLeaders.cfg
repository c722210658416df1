SPECIFICATION Spec
CONSTANTS
    s1 = s1
    s2 = s2
    s3 = s3
    a = a
    b = b
    Nil = Nil
    Server = {s1, s2, s3}
    Command = {}
    SnapShotInterval = 0
    MaxTerm = 2
    MaxIndex = 0
    MaxLate = 0
    Candidates = {s1, s2}
    Crashable = {}
    CampaignsOverlap = TRUE
    AppendsOverlap = FALSE
INVARIANTS OneLeaderPerTerm
CHECK_DEADLOCK FALSE
