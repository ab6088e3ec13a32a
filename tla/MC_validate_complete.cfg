\* One consumer validating cached candidates while lock states change.
CONSTANTS
    Datasets = {"d1", "d2"}
    Rules = {r1, r2}
    SrcRSE = src
    DestRSE = dst
    DsBytes <- MCDsBytes
    DsLength <- MCDsLength
    Populators = {p1}
    Consumers = {c1}
    NoDataset = NoDataset
SPECIFICATION Spec
PROPERTY ValidateRequiresComplete
