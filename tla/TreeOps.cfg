CONSTANTS
    NumKeys = 6
    KeyLength <- TwoShortKeys
    ValueLengths = {100, 3000}
SPECIFICATION Spec
INVARIANTS ReadsAgree WellFormed PagesBalanced SetSucceeds
