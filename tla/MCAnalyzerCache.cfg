SPECIFICATION FairSpec
CONSTANTS
    c1 = c1
    b1 = b1
    b2 = b2
    b3 = b3
    Caller = {c1}
    Reloader = reloader
    Bundle = {b1, b2, b3}
    NoBundle = NoBundle
    Capacity = 2
    MaxGeneration = 1
INVARIANTS
    ProtectedStayResident
    SharedLoadUncancelled
PROPERTIES
    CapturesEnd
    ReloadConverges
