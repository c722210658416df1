SPECIFICATION Spec
CONSTANTS
    s1 = s1
    s2 = s2
    s3 = s3
    a = a
    b = b
    Nil = Nil
    Server = {s1, s2, s3}
    Command = {}
    SnapShotInterval = 0
    MaxTerm = 1
    MaxIndex = 0
    MaxLate = 1
    Candidates = {s1, s2, s3}
    Crashable = {s1, s2, s3}
    CampaignsOverlap = TRUE
    AppendsOverlap = TRUE
INVARIANTS CampaignUnique VoteSurvivesCrash
PROPERTY TermsGrow
SYMMETRY AllPeers
CHECK_DEADLOCK FALSE
