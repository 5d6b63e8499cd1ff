CONSTANTS
    Client = {c1, c2}
    NumKeys = 3
    Value = {1, 2}
    None = None
    Requests <- LabRequests
    CapacityLimit = 2
    DatasetLimit = 3
    DurableLimit = 2
    OperationLimit = 5
    Faults = {"directory", "engine", "store", "cleanup"}
SPECIFICATION FairSpec
INVARIANTS TypeOK OneAtATime AnswersExact LeastRecentlyUsed DirectoriesRemoved
PROPERTY EveryRunReturns
