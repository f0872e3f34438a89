SPECIFICATION FairSpec
CONSTANTS
    w1 = w1
    w2 = w2
    Reports = 1
    Original <- MCOriginal
    Rank <- MCRank
    Worker = {w1, w2}
    None = None
    MaxAttempts = 3
    MaxDeletes = 3
    MaxBackfills = 2
PROPERTY TasksEnd
CHECK_DEADLOCK FALSE
