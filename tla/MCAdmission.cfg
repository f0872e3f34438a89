SPECIFICATION FairSpec
CONSTANTS
    a = a
    b = b
    page = page
    peer = peer
    query = query
    Request = {a, b}
    Fetch = {page, peer, query}
    Owner <- MCOwner
    Kind <- MCKind
    Destination = {"d"}
    GoesTo <- MCGoesTo
    Gate = {g1, g2}
    NoGate = NoGate
    MaxWaiters = 1
    ConcurrentTargets = 1
    ConcurrentProcess <- MCOne
    ConcurrentPerTarget <- MCPerTarget
    Limit <- MCPerTarget
    DocumentBytes = 1
    TotalBodyBytes = 1
INVARIANTS
    NothingLeaked
    RefusedNeverRan
PROPERTIES
    StartsSpaced
    EveryRequestReturns
