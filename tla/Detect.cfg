SPECIFICATION FairSpec
CONSTANTS
    Width <- MCWidth
    KindOf <- MCKindOf
    MinPrefixLen = 2
    ProxyAddrs <- MCProxyAddrs
    EdgeAddrs <- MCEdgeAddrs
    PseudoIPv4 <- MCPseudoIPv4
    Homes <- MCHomes
    LanAddrs <- MCLanAddrs
    Setups <- MCSetups
    MaxRenewals = 2
    MaxEdits = 1
    MaxFaults = 1
INVARIANTS TypeOK NeverTooWide
PROPERTIES RulesWitnessed AccessKept  FollowsHome
