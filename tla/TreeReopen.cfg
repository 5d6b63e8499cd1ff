CONSTANTS
    NumKeys = 3
    KeyLength <- SmallKeys
    ValueLengths = {10, 2000}
SPECIFICATION Spec
INVARIANTS CommittedTreeReopens
