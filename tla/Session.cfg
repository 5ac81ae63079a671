CONSTANTS
    s1 = s1
    l1 = l1
    Savers = {s1}
    Loaders = {l1}
    MaxSaves = 2
    MaxCopies = 0
    Old = Old
    Size <- MCSize
    Names = {n1, n2}
    Path = Path
    NoFile = NoFile
    NoName = NoName
SPECIFICATION SessionSpec
INVARIANT
    NothingSavedIsLost
CHECK_DEADLOCK FALSE
