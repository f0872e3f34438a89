SPECIFICATION FairSpec
CONSTANTS
    o1 = o1
    o2 = o2
    b1 = b1
    b2 = b2
    b3 = b3
    Operator = {o1, o2}
    Service = service
    Bundle = {b1, b2, b3}
    None = None
    RollbackGenerations = 2
    MaxCommands = 8
INVARIANTS
    FilesIntact
PROPERTIES
    PointerConverges
CHECK_DEADLOCK FALSE
