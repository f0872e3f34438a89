SPECIFICATION FairRunnerSpec
CONSTANTS
    k1 = k1
    b1 = b1
    b2 = b2
    w1 = w1
    w2 = w2
    Key = {k1}
    Index = {1, 2}
    Bundle = {b1, b2}
    NoBundle = NoBundle
    Compatible = {b1}
    Request <- OneOrTooMany
    Outcome <- ReportOutcomes
    NoOutcome = NoOutcome
    NoTarget = NoTarget
    NoReport = NoReport
    Worker = {w1, w2}
    MaximumTargets = 1
    MaximumAttempts = 3
    RollbackGenerations = 1
    MaxGeneration = 0
INVARIANTS
    OneEffectiveAttempt
PROPERTIES
    EveryJobSettles
CHECK_DEADLOCK FALSE
