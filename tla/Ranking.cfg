CONSTANTS
    d1 = d1
    d2 = d2
    d3 = d3
    k1 = k1
    k2 = k2
    k3 = k3
    A = A
    B = B
    h1 = h1
    h2 = h2
    v = v
    w = w
    MaxTokens = 3
    NoDoc = NoDoc
    NoKey = NoKey
    Docs = {d1, d2, d3}
    Ids = {1, 2, 3}
    IdOf <- MCIdOf
    Keys = {k1, k2}
    Groups = {A}
    GroupOf <- MCGroupOf
    HashIds = {h1, h2}
    HashOf <- MCHashOf
    Words = {v, w}
    WordHash <- MCWordHash
    ImplicitGroup = A
    Queries <- MCRankedQueries
    Distances = {0, 1, 2}
    NoDistance = NoDistance
SPECIFICATION Spec
INVARIANTS
    LimitIsPrefix
    CloserNotBehind
