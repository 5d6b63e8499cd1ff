SPECIFICATION Spec
CONSTANTS
    NumKeys = 8
    MaxKeys = 3
    Overwritten = {4}
INVARIANTS
    SameAnswers
    LeafChain
    TreeValid
