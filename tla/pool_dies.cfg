SPECIFICATION Spec
CONSTANTS
    o1 = o1
    o2 = o2
    h1 = h1
    h2 = h2
    w1 = w1
    w2 = w2
    Orders = {o1}
    Handlers = {h1, h2}
    Workers = {w1, w2}
    Kinds = {"create", "cancel", "ship"}
    Declined = {}
    Sentinel = {}
    MaxRetries = 1
    FaultKinds = {"popErr"}
    None = None
INVARIANT PoolStaysUp
