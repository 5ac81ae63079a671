CONSTANTS
    s1 = s1
    s2 = s2
    l1 = l1
    n1 = n1
    n2 = n2
    Savers = {s1, s2}
    Loaders = {l1}
    MaxSaves = 1
    MaxCopies = 2
    Old = Old
    Size <- MCSize
    Names = {n1, n2}
    Path = Path
    NoFile = NoFile
    NoName = NoName
SPECIFICATION MCSpec
CHECK_DEADLOCK FALSE
INVARIANTS
    TypeOK
    LoadIsAtomic
    PathIsComplete
    TempIsOwn
    NoLitter
    LoadIsWhatWasOpened
PROPERTY SaveTerminates
