\* One populator and one consumer of the (src, dst) cache over a changing ledger.
CONSTANTS
    Datasets = {"d1", "d2"}
    Rules = {r1, r2}
    SrcRSE = src
    DestRSE = dst
    DsBytes <- MCDsBytes
    DsLength <- MCDsLength
    Populators = {p1}
    Consumers = {c1}
    NoDataset = NoDataset
SPECIFICATION FairSpec
PROPERTIES
    ScanEventuallyAnswers
