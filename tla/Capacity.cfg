SPECIFICATION Spec
CONSTANTS
    None = None
    NaN = NaN
    Factors <- MCFactors
    SlotsPerDay = 2
    HorizonDays <- MCHorizonDays
    SixMonths = 2
    MAX_HORIZON_DAYS = 6
    ZSquared = 4
    Samples <- MCSamples
    Policies <- MCPolicies
    Thresholds <- MCThresholds
    MaxSamples = 4
INVARIANTS
    EpochsNeverMixed
    NoForecastFromThinHistory
    ThresholdsFitTogether
    FileOrderIrrelevant
CHECK_DEADLOCK FALSE
