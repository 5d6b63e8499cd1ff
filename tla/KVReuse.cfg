CONSTANTS
    MaxPage = 6
    MaxVersion = 5
    MaxNew = 1
    MaxTree = 1
    NodeCapacity = 4
    Faults = {"process", "power", "io", "short", "truncate", "directory", "contention"}
SPECIFICATION Spec
INVARIANTS NewestIntact Ownership BoundedGrowth
