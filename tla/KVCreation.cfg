CONSTANTS
    MaxPage = 2
    MaxVersion = 1
    MaxNew = 1
    MaxTree = 1
    NodeCapacity = 2
    Faults = {"process"}
SPECIFICATION Spec
INVARIANTS BothSlotsBadIsEmpty
