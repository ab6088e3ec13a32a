\* One REST worker and one executor that does not crash: the detailed
\* registry refines PlanRegistry.
CONSTANTS
    RSEIds <- MCRSEIds
    RseIdOf <- MCRseIdOf
    RSENames = {"A", "B"}
    VOs = {"def"}
    DefaultVO = "def"
    Submitters = {g1}
    Executors = {e1}
    NoRow = NoRow
    MaxPlans = 2
    MaxBatch = 2
    MaxCrashes = 0
    DistinctPairBatches = TRUE
SPECIFICATION Spec
PROPERTIES
    ImplementsPlanRegistry
