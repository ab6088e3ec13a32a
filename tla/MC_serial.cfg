\* One REST worker, one executor that may crash, one vo, bulk lists that
\* name each RSE pair once: the conditions under which the registry keeps
\* its promises.
CONSTANTS
    RSEIds <- MCRSEIds
    RseIdOf <- MCRseIdOf
    RSENames = {"A", "B"}
    VOs = {"def"}
    DefaultVO = "def"
    Submitters = {g1}
    Executors = {e1}
    NoRow = NoRow
    MaxPlans = 2
    MaxBatch = 2
    MaxCrashes = 1
    DistinctPairBatches = TRUE
SPECIFICATION FairSpec
INVARIANTS
    TypeOK
    AtMostOnePlanPerPair
    NoSilentLoss
PROPERTIES
    TransitionLegality
    EveryPlanArchived
