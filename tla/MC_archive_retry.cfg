\* One REST worker, one executor that may crash once and retry.
CONSTANTS
    RSEIds <- MCRSEIds
    RseIdOf <- MCRseIdOf
    RSENames = {"A", "B"}
    VOs = {"def"}
    DefaultVO = "def"
    Submitters = {g1}
    Executors = {e1}
    NoRow = NoRow
    MaxPlans = 2
    MaxBatch = 2
    MaxCrashes = 1
    DistinctPairBatches = TRUE
SPECIFICATION Spec
INVARIANT HistoryWriteOnce
