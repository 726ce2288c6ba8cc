SPECIFICATION SeedSpec
CONSTANTS
    kc = kc
    p = p
    v1 = v1
    v2 = v2
    c1 = c1
    m1 = m1
    Star = Star
    None = None
    Subjects <- MCSubjects
    ClaimTypes = {c1}
    MethodClasses = {m1}
    Offers <- NoOffers
    Promotions <- NoPromotions
    Definitions <- PeerOnly
    VerifierCap = None
    SeedExpiry = 2
    Expiries = {2}
    PrivacyCases <- NoPrivacy
    CredentialTtl = 3
    Keys <- MCSubjects
    InitialKey <- MCInitialKey
    MaxGrants = 3
    MaxTime = 0
    MaxRequests = 1
    MaxInvitations = 2
    MaxIntroductions = 2
    MaxAttestations = 2
    MaxChallenges = 1
INVARIANT
    OneVoicePerVerifier
CHECK_DEADLOCK FALSE
