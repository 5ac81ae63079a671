CONSTANTS
    Base = 16
    WordBytes = 2
    HeaderBytes = 10
    IntMax = 3
    Hash <- MCHash
    Sources <- MCSources
    Limits <- MCTight
    NewBytes <- MCNewBytes
    MaxLimit = 110
SPECIFICATION Spec
INVARIANTS
    LoadsExactlyWithinLimits
    RoundTrip
    ChargedTextIsRetained
    BudgetsHold
    NothingIsDropped
    PostingsMatchDocuments
CHECK_DEADLOCK FALSE
