CONSTANTS
    Datasets <- TwoAndEmpty
    Records <- FewRecords
    PartOf <- ByKey
    Suspects <- MiddleOne
    MaxRuns = 3
    MaxStops = 2
    MaxLost = 1
SPECIFICATION FairSpec
CHECK_DEADLOCK FALSE
INVARIANTS TypeOK EmissionOrder DatasetsInOrder SuccessMeansPublished Decodable
PROPERTIES RunsEnd
