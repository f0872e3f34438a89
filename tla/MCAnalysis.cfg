SPECIFICATION FairSpec
CONSTANTS
    None = None
    Unlimited = Unlimited
    Requested <- MCRequested
    Roots = {"s"}
    Below = {"u"}
    Discovery = {"unrequested", "disabled", "unavailable", "failing", "indexed"}
    Index <- MCIndex
    Unverified = {}
    SeedLimit = 2
    CTMaximumSeed = 2
    Host = {"s", "u", "r"}
    Address = {"p", "q", "x"}
    Family = {"A"}
    Addr <- MCAddr
    Allowed = {"p", "q"}
    Alias = {"r"}
    Plain = {}
    Location = {"r", "invalid"}
    AddressLimit = 2
    HTTPRequests = 1
    MaxRedirects = 1
    Technology <- MCTechnology
    Rules <- MCRules
    View = {"v1", "v2"}
    SuffixState <- MCSuffixState
    SuffixMatch <- MCSuffixMatch
    PrefixSource <- MCPrefixSource
    ASNSource <- MCASNSource
    Associations <- MCAssociations
    ASNOf <- MCASNOf
    FamilyOf <- MCFamilyOf
    PrefixLimit = 3
INVARIANTS
    HTTPAccounts
    ReportAccounts
    FindingsSound
    ReplayAgrees
PROPERTIES
    AnalysisEnds
