SPECIFICATION Spec
CONSTANTS
    w1 = w1
    w2 = w2
    c1 = c1
    u1 = u1
    o1 = o1
    o2 = o2
    Workers = {w1, w2}
    Clients = {c1}
    Orders = {o1, o2}
    Unknown = {u1}
    Declined = {o2}
    NoOrder = NoOrder
INVARIANTS
    NoLostWakeup
    CountsAgree
    RenderedIsConsistent
PROPERTIES
    PoolImplementsLifecycle
    QueueDrains
    CancelStops
CHECK_DEADLOCK FALSE
