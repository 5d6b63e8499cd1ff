CONSTANTS
    MaxPage = 4
    MaxVersion = 1
    MaxNew = 1
    MaxTree = 1
    NodeCapacity = 2
    Faults = {"process", "power", "directory", "contention"}
SPECIFICATION Spec
INVARIANTS AckedSurvives
