SPECIFICATION LevelsSpec
CONSTANTS
    None = None
    Missing = Missing
    Valid <- MCValid
    Invalid <- MCInvalid
    Empty <- MCEmpty
    SUPPORTED_COLLECTORS <- MCSupported
    Setups <- MCSetups
    ArchitectureRows <- MCArchitectureRows
    IdentityVersions <- MCIdentityVersions
    MaxEdits = 1
    MaxCalls = 3
    MaxStarts = 2
INVARIANTS
    DiskDecides
PROPERTIES
    NoCeilingMeansValidated
    LearningNeverUpgrades
    UnknownNeverGrants
CHECK_DEADLOCK FALSE
