CONSTANTS
    Base = 16
    WordBytes = 2
    HeaderBytes = 10
    IntMax = 3
    Hash <- MCHash
    Sources <- MCHalfKeyed
    Limits <- MCUnlimited
    NewBytes <- MCNewBytes
    MaxLimit = 0
SPECIFICATION Spec
INVARIANTS
    SavedIndexLoads
CHECK_DEADLOCK FALSE
