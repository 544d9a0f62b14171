SPECIFICATION Spec
CONSTANTS
    None = None
    NumericCodes = {"ORA-27300", "ORA-12537"}
    MaxHypotheses = 2
    Window = 2
    SafeIds <- MCSafeIds
    AdapterLimits <- MCAdapterLimits
    Catalog <- MCCatalog
    Items <- MCItems
    Declarations <- MCDeclarations
    Rows <- MCRows
    EVD <- MCEvd
    MaxEvidence = 3
INVARIANT ConfirmedHasSupport
CHECK_DEADLOCK FALSE
