SPECIFICATION DeploymentSpec
CONSTANTS
    d1 = d1
    e1 = e1
    e2 = e2
    None = None
    Absent = Absent
    Empty = Empty
    Short = Short
    Plain <- TokenOnly
    Found <- MCFound
    Drafts <- OneDraft
    EvidencePaths <- TwoPaths
    MaxRuns = 2
    MaxPrepared = 2
    MaxSubmits = 2
    MaxDatabases = 2
    MaxRotations = 1
SYMMETRY MCSymmetry
INVARIANTS
    DeploymentTypeOK
    ProvisionedIsUsable
    RotationEvidenceIsTrue
    EvidenceStaysTrue
    ActivationSurvives
    RestorePassedIsSound
CHECK_DEADLOCK FALSE
