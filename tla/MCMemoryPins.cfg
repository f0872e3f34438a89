SPECIFICATION MemorySpec
CONSTANTS
    k1 = k1
    k2 = k2
    b1 = b1
    r1 = r1
    Key = {k1, k2}
    Index = {1, 2}
    Bundle = {b1}
    NoBundle = NoBundle
    Compatible = {b1}
    Request <- MCRequest
    Outcome <- MCOutcome
    NoOutcome = NoOutcome
    MaximumTargets = 3
    MaximumAttempts = 2
    RollbackGenerations = 1
    MaxGeneration = 0
SYMMETRY MCSymmetry
INVARIANTS
    BundlePinsCountJobs
