CONSTANTS
    MaxPage = 6
    MaxVersion = 2
    MaxNew = 1
    MaxTree = 1
    NodeCapacity = 2
    Faults = {"io", "short"}
SPECIFICATION Spec
INVARIANTS ReopensAfterCommit
