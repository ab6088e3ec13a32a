\* One REST worker serving issuers of two vos, one submission at a time.
CONSTANTS
    RSEIds <- MCRSEIds
    RseIdOf <- MCRseIdOf
    RSENames = {"A", "B", "C"}
    VOs = {"def", "v2"}
    DefaultVO = "def"
    Submitters = {g1}
    Executors = {}
    NoRow = NoRow
    MaxPlans = 2
    MaxBatch = 2
    MaxCrashes = 0
    DistinctPairBatches = TRUE
SPECIFICATION Spec
PROPERTY SubmitVerdictExact
