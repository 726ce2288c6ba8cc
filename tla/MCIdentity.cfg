SPECIFICATION IdentitySpec
CONSTANTS
    kc = kc
    p = p
    c1 = c1
    m1 = m1
    k1 = k1
    k2 = k2
    k3 = k3
    Star = Star
    None = None
    Subjects <- TwoSubjects
    ClaimTypes = {c1}
    MethodClasses = {m1}
    Offers <- Empty
    Promotions <- Empty
    Definitions <- MCDefinitions
    Expiries = {}
    PrivacyCases <- Empty
    CredentialTtl = 3
    Keys <- MCKeys
    InitialKey <- MCInitialKey
    Releases <- MCReleases
    OrdinaryVersion = 2
    MaxGrants = 1
    MaxTime = 0
    MaxRequests = 1
    MaxInvitations = 0
    MaxIntroductions = 0
    MaxAttestations = 0
    MaxChallenges = 0
    MaxReleases = 2
    MaxConsents = 2
    MaxCommitments = 2
    MaxCases = 2
    MaxPrivacy = 1
SYMMETRY MCSymmetry
INVARIANTS
    IdentityTypeOK
    CommitmentsSingleUse
    PendingRecoveryIsBacked
    SharedKeyIsRecovered
    ReleaseNeverLost
    ConsentEndsWithBinding
CHECK_DEADLOCK FALSE
