\* Two REST workers submitting plans concurrently, one vo, no executor.
CONSTANTS
    RSEIds <- MCRSEIds
    RseIdOf <- MCRseIdOf
    RSENames = {"A", "B"}
    VOs = {"def"}
    DefaultVO = "def"
    Submitters = {g1, g2}
    Executors = {e1}
    NoRow = NoRow
    MaxPlans = 2
    MaxBatch = 1
    MaxCrashes = 0
    DistinctPairBatches = TRUE
SPECIFICATION Spec
INVARIANT NoSilentLoss
