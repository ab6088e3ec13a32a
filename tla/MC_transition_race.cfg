\* One REST worker, two executors advancing plans concurrently.
CONSTANTS
    RSEIds <- MCRSEIds
    RseIdOf <- MCRseIdOf
    RSENames = {"A", "B"}
    VOs = {"def"}
    DefaultVO = "def"
    Submitters = {g1}
    Executors = {e1, e2}
    NoRow = NoRow
    MaxPlans = 2
    MaxBatch = 2
    MaxCrashes = 0
    DistinctPairBatches = TRUE
SPECIFICATION Spec
PROPERTY TransitionLegality
