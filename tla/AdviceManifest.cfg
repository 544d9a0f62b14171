SPECIFICATION Spec
CONSTANTS
    None = None
    NumericCodes = {"ORA-27300"}
    MaxHypotheses = 2
    Window = 2
    SafeIds <- MCSafeIds
    AdapterLimits <- MCAdapterLimits
    Dirs = {d1, d2, repository}
    Managed = {repository}
    Fixtures <- MCFixtures
    Catalogs <- MCCatalogs
    Contexts <- MCContexts
    Requests <- MCRequests
    Assessments <- MCAssessments
    Reviews <- MCReviews
    Reviewers = {"r1", "r2"}
    MaxDecisions = 1
SYMMETRY Symmetry
INVARIANT ManifestLast
CHECK_DEADLOCK FALSE
