SPECIFICATION Spec
CONSTANTS
    s1 = s1
    s2 = s2
    s3 = s3
    a = a
    b = b
    Nil = Nil
    Server = {s1, s2, s3}
    Command = {a, b}
    SnapShotInterval = 0
    MaxTerm = 2
    MaxIndex = 1
    MaxLate = 0
    Candidates = {s1, s2}
    Crashable = {}
    CampaignsOverlap = FALSE
    AppendsOverlap = FALSE
INVARIANTS TypeOK ApplyAgree CommittedIsDurable LeaderCompleteness 
PROPERTY ImplementsAgreedLog
SYMMETRY TwoCandidates
CHECK_DEADLOCK FALSE
