SPECIFICATION IdentitySpec
CONSTANTS
    kc = kc
    p = p
    c1 = c1
    m1 = m1
    k1 = k1
    k2 = k2
    k3 = k3
    Star = Star
    None = None
    Subjects <- TwoSubjects
    ClaimTypes = {c1}
    MethodClasses = {m1}
    Offers <- Empty
    Promotions <- Empty
    Definitions <- Empty
    Expiries = {}
    PrivacyCases <- Empty
    CredentialTtl = 3
    Keys <- MCKeys
    InitialKey <- MCInitialKey
    Releases <- SecondRelease
    OrdinaryVersion = 2
    MaxGrants = 1
    MaxTime = 0
    MaxRequests = 0
    MaxInvitations = 0
    MaxIntroductions = 0
    MaxAttestations = 0
    MaxChallenges = 0
    MaxReleases = 1
    MaxConsents = 0
    MaxCommitments = 1
    MaxCases = 1
    MaxPrivacy = 1
INVARIANT
    DeletedStaysUnbound
CHECK_DEADLOCK FALSE
