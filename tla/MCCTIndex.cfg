SPECIFICATION Spec
CONSTANTS
    Collector = {c1, c2}
    Name = {"a"}
    Leaf = {"early", "late"}
    Certificate = {"x1", "x2"}
    Logged <- MCLogged
    Names <- MCNames
    CertOf <- MCCertOf
    Precert = {}
    LoggedAt <- MCLoggedAt
    Imported <- MCImported
    ChunkNames = {"a"}
    MaximumEntries = 2
    BatchSize = 2
    MaximumProofs = 1
    MaxSize = 2
    MaxClock = 2
SYMMETRY CollectorSymmetry
INVARIANTS
    CheckpointCovers
    VerifiedSound
    MembershipComplete
    DeletionHolds
