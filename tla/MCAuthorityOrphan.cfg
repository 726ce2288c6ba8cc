SPECIFICATION RevocationSpec
CONSTANTS
    s1 = s1
    s2 = s2
    c1 = c1
    m1 = m1
    Star = Star
    None = None
    Subjects <- MCSubjects
    ClaimTypes = {c1}
    MethodClasses = {m1}
    Offers <- MCOffers
    Promotions <- MCPromotions
    MaxGrants = 3
    MaxTime = 1
SYMMETRY MCSymmetry
INVARIANT
    NoOrphanAuthority
CHECK_DEADLOCK FALSE
