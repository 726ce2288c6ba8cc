SPECIFICATION AssuranceSpec
CONSTANTS
    kc = kc
    p = p
    v1 = v1
    v2 = v2
    c1 = c1
    m1 = m1
    Star = Star
    None = None
    Subjects <- JourneySubjects
    ClaimTypes = {c1}
    MethodClasses = {m1}
    Offers <- JourneyOffers
    Promotions <- JourneyPromotions
    Definitions <- SingleOnly
    VerifierCap = 1
    SeedExpiry = 1
    Expiries = {1}
    PrivacyCases <- DeleteVerifier
    CredentialTtl = 3
    Keys <- JourneySubjects
    InitialKey <- MCInitialKey
    MaxGrants = 3
    MaxTime = 0
    MaxRequests = 1
    MaxInvitations = 1
    MaxIntroductions = 1
    MaxAttestations = 2
    MaxChallenges = 1
INVARIANTS
    AttestationsMetered
PROPERTIES
    AuthoritySpec
CHECK_DEADLOCK FALSE
