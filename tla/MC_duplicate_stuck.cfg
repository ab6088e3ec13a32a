\* One REST worker; a bulk list may name the same RSE pair twice.
CONSTANTS
    RSEIds <- MCRSEIds
    RseIdOf <- MCRseIdOf
    RSENames = {"A", "B"}
    VOs = {"def"}
    DefaultVO = "def"
    Submitters = {g1}
    Executors = {e1}
    NoRow = NoRow
    MaxPlans = 2
    MaxBatch = 2
    MaxCrashes = 0
    DistinctPairBatches = FALSE
SPECIFICATION FairSpec
PROPERTY EveryPlanArchived
