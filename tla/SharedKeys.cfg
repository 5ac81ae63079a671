CONSTANTS
    d1 = d1
    d2 = d2
    d3 = d3
    k1 = k1
    k2 = k2
    k3 = k3
    NoKey = NoKey
    Docs = {d1, d2, d3}
    Keys = {k1, k2, k3}
    KeyOf <- MCKeyOf
    HashIds = {h1, h2}
SPECIFICATION Spec
INVARIANT EditedIsFindable
