SPECIFICATION Spec
CONSTANTS
    k1 = k1
    k2 = k2
    b1 = b1
    b2 = b2
    r1 = r1
    Key = {k1, k2}
    Index = {1, 2}
    Bundle = {b1, b2}
    NoBundle = NoBundle
    Compatible = {b1, b2}
    Request <- MCRequest
    Outcome <- MCOutcome
    NoOutcome = NoOutcome
    MaximumTargets = 3
    MaximumAttempts = 2
    RollbackGenerations = 1
    MaxGeneration = 1
SYMMETRY MCSymmetry
INVARIANTS
    TypeOK
    CapacityExact
    PinExact
    PinnedBundleAvailable
    JobStatusSound
    AttemptBudget
    CancelDrainsQueue
PROPERTIES
    ImplementsContract
CHECK_DEADLOCK FALSE
