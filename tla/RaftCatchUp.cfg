SPECIFICATION FairSpec
CONSTANTS
    s1 = s1
    s2 = s2
    s3 = s3
    a = a
    b = b
    Nil = Nil
    Server = {s1, s2}
    Command = {a}
    SnapShotInterval = 2
    MaxTerm = 2
    MaxIndex = 4
    MaxLate = 0
    Candidates = {s1}
    Crashable = {s1}
    CampaignsOverlap = FALSE
    AppendsOverlap = FALSE
PROPERTIES CatchUp ImplementsAgreedLog
CHECK_DEADLOCK FALSE
