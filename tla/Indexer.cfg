CONSTANTS
    d1 = d1
    d1x = d1x
    d2 = d2
    k1 = k1
    k1x = k1x
    k2 = k2
    k3 = k3
    A = A
    B = B
    h1 = h1
    h2 = h2
    i1 = i1
    i2 = i2
    NoDoc = NoDoc
    NoKey = NoKey
    Docs = {d1, d1x, d2}
    Ids = {i1, i2}
    IdOf <- MCIdOf
    Keys = {k1, k1x, k3}
    Groups = {A, B}
    GroupOf <- MCGroupOf
    HashIds = {h1}
    HashOf <- MCHashOf
SPECIFICATION Spec
SYMMETRY MCSymmetry
INVARIANTS
    TypeOK
    AnswersAreExact
    RetainedIsFindable
    IndexHasOwner
PROPERTY ImplementsIndexSpec
