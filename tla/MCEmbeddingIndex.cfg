SPECIFICATION RetrievalSpec
CONSTANTS
    w1 = w1
    w2 = w2
    g1 = g1
    g2 = g2
    t1 = t1
    t2 = t2
    Context = {c1}
    Text = {t1, t2}
    Generation = {g1, g2}
    Worker = {w1, w2}
    None = None
    MaxAttempts = 2
    MaxWrites = 3
    Limit = 1
SYMMETRY MCSymmetry
INVARIANTS
    VectorsSound
    NoGap
PROPERTIES
    RetrievalFinds
CHECK_DEADLOCK FALSE
