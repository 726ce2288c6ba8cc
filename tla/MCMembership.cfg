SPECIFICATION MembershipSpec
CONSTANTS
    s1 = s1
    s2 = s2
    q1 = q1
    None = None
    Subjects <- TwoSubjects
    Releases <- MCReleases
    OrdinaryVersion = 2
    Polls <- OnePoll
    Window = 2
    Skew = 1
    MaxTime = 2
    MaxConsents = 2
    MaxReleases = 2
    MaxSnapshots = 1
    MaxPresentations = 1
    MaxRaced = 1
SYMMETRY MCSymmetry
INVARIANTS
    MembershipTypeOK
    FrozenUnlessRaced
    PresentedWithinSnapshot
    OldNoticeOnlyFromBefore
CHECK_DEADLOCK FALSE
