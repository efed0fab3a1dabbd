SPECIFICATION Spec
CONSTANTS
    i1 = i1
    i2 = i2
    i3 = i3
    k1 = k1
    k2 = k2
    k3 = k3
    c1 = c1
    c2 = c2
    Ids = {i1, i2, i3}
    Keys = {k1, k2, k3}
    Prices = {1, 2}
    Clients = {c1, c2}
    MayFail = TRUE
    None = None
    Records = {i1, i2, i3}
    Documents = {k1, k2, k3}
    Callers = {c1, c2}
    Nothing = None
SYMMETRY Interchangeable
INVARIANTS KeysUnique DuplicatesNeedOverlap RevivalNeedsOverlap
PROPERTIES DeactivatedForGood WritesAreWhole
