\* One REST worker serving both client paths.
CONSTANTS
    RSEIds <- MCRSEIds
    RseIdOf <- MCRseIdOf
    RSENames = {"A", "B"}
    VOs = {"def"}
    DefaultVO = "def"
    Submitters = {g1}
    Executors = {}
    NoRow = NoRow
    MaxPlans = 2
    MaxBatch = 2
    MaxCrashes = 0
    DistinctPairBatches = TRUE
SPECIFICATION Spec
INVARIANT ClientRequestWellFormed
