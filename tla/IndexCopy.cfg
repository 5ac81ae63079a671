CONSTANTS
    d1 = d1
    d1x = d1x
    d2 = d2
    c1 = c1
    c2 = c2
    k1 = k1
    k1x = k1x
    k2 = k2
    q1 = q1
    q1x = q1x
    q2 = q2
    r1 = r1
    r1x = r1x
    r2 = r2
    h1 = h1
    h2 = h2
    i1 = i1
    i2 = i2
    NoDoc = NoDoc
    NoKey = NoKey
    Docs = {d1, d1x, d2, c1, c2}
    Ids = {i1, i2}
    IdOf <- MCIdOf
    Keys = {k1, k1x, k2, q1, q1x, q2, r1, r1x, r2}
    Groups = {A}
    GroupOf <- MCGroupOf
    HashIds = {h1, h2}
    HashOf <- MCHashOf
    Originals = {d1, d1x, d2}
    OwnKeys = {k1, k1x, k2}
    DocCopy <- MCDocCopy
    KeyCopy <- MCKeyCopy
SPECIFICATION CopySpec
INVARIANTS
    CacheMatchesPostings
    AnswersAreExact
    IndInv
    CopyAnswersAlike
    CopySharesNothing
CHECK_DEADLOCK FALSE
