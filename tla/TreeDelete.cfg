CONSTANTS
    NumKeys = 7
    KeyLength <- MixedKeys
    ValueLengths = {100, 3000}
SPECIFICATION Spec
INVARIANTS DeleteSucceeds
