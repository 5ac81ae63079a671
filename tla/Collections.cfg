CONSTANTS
    c1 = c1
    c2 = c2
    Objects = {c1, c2}
    Values = {1, 2}
    MaxSize = 4
    ULongMax = 7
SPECIFICATION Spec
INVARIANTS
    LoopLeavesArgument
    ActsOnACopy
    SubListIsExact
