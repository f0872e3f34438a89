SPECIFICATION Spec
CONSTANTS
    w1 = w1
    w2 = w2
    Reports = 3
    Original <- MCOriginal
    Rank <- MCRank
    Worker = {w1}
    None = None
    MaxAttempts = 1
    MaxDeletes = 1
    MaxBackfills = 1
INVARIANTS
    ReferencedKept
    DelayedJobFenced
    NewestOfProjected
    NoResurrection
CHECK_DEADLOCK FALSE
