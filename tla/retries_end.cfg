SPECIFICATION FairSpec
CONSTANTS
    o1 = o1
    o2 = o2
    h1 = h1
    h2 = h2
    w1 = w1
    w2 = w2
    Orders = {o1, o2}
    Handlers = {h1}
    Workers = {w1, w2}
    Kinds = {"create", "ship"}
    Declined = {}
    Sentinel = {o1}
    MaxRetries = 2
    FaultKinds = {"dbFail", "dbLostAck", "pushFail", "pushLostAck"}
    None = None
PROPERTY RetriesEnd
