SPECIFICATION Spec
CONSTANTS
    w1 = w1
    w2 = w2
    Ids = {1, 2, 3}
    Writers = {w1, w2}
    MaxTime = 1
    Sizes <- SentSizes
    DefaultPageSize = 1
    MaxPageSize = 2
    None = None
SYMMETRY Interchangeable
INVARIANTS ListingTypeOK WalkMissesNothing QuietWalkIsExact DoublesListAlike
