SPECIFICATION Spec
CONSTANTS
    Width <- MCWidth
    KindOf <- MCKindOf
    MinPrefixLen = 2
    ProxyAddrs <- MCProxyAddrs
    EdgeAddrs <- MCEdgeAddrs
    PseudoIPv4 <- MCPseudoIPv4
    Homes <- MCHomes
    LanAddrs <- MCLanAddrs
    Setups <- EmptyFile
    MaxRenewals = 1
    MaxEdits = 1
    MaxFaults = 1
INVARIANT SourceFollows
