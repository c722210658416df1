SPECIFICATION Spec
CONSTANTS
    s1 = s1
    s2 = s2
    s3 = s3
    a = a
    b = b
    Nil = Nil
    Server = {s1, s2, s3}
    Command = {a}
    SnapShotInterval = 0
    MaxTerm = 1
    MaxIndex = 2
    MaxLate = 1
    Candidates = {s1}
    Crashable = {}
    CampaignsOverlap = FALSE
    AppendsOverlap = FALSE
INVARIANTS CommittedIsDurable
CHECK_DEADLOCK FALSE
