SPECIFICATION FairDNSSpec
CONSTANTS
    SeedLists <- MCSeedLists
    Name = {"n", "t", "v", "w", "x", "y", "z"}
    Address = {"p", "i"}
    None = None
    Rank <- MCRank
    Links <- MCLinks
    Addr <- MCAddr
    DependencyOf <- MCDependencyOf
    Apex = {"z"}
    Parent <- MCParent
    Missing = {"t"}
    Allowed = {"p", "i"}
    RedirectHost = {"x"}
    SeedTypes = {"A", "NS"}
    AddressTypes = {"A"}
    GraphBuffer = 1
    CNAMEChainDepth = 2
    DNSQuestions = 9
    ResolvedAddresses = 4
INVARIANTS
    CompleteMeansAll
    AttemptsCountedOnce
PROPERTIES
    CollectionEnds
