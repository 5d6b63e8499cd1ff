CONSTANTS
    MaxPage = 6
    MaxVersion = 3
    MaxNew = 2
    MaxTree = 2
    NodeCapacity = 2
    Faults = {"process", "power", "io", "truncate", "contention"}
SPECIFICATION Spec
INVARIANTS TypeOK AckedSurvives ReopensAfterCommit
PROPERTIES CommitKeepsFallback ImplementsAtomicStore
