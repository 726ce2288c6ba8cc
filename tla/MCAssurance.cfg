SPECIFICATION SeedSpec
CONSTANTS
    kc = kc
    p = p
    v1 = v1
    v2 = v2
    c1 = c1
    m1 = m1
    Star = Star
    None = None
    Subjects <- MCSubjects
    ClaimTypes = {c1}
    MethodClasses = {m1}
    Offers <- NoOffers
    Promotions <- NoPromotions
    Definitions <- PeerOnly
    VerifierCap = None
    SeedExpiry = 2
    Expiries = {1}
    PrivacyCases <- DeleteVerifier
    CredentialTtl = 3
    Keys <- MCSubjects
    InitialKey <- MCInitialKey
    MaxGrants = 3
    MaxTime = 1
    MaxRequests = 1
    MaxInvitations = 2
    MaxIntroductions = 2
    MaxAttestations = 2
    MaxChallenges = 2
INVARIANTS
    AssuranceTypeOK
    CredentialsFollowEvidence
    NoSelfCorroboration
    OnlyAppealRestores
    
PROPERTIES
    CredentialNeverSoftens
CHECK_DEADLOCK FALSE
