SPECIFICATION Spec
CONSTANTS
    Workers = {w1}
    i1 = i1
    i2 = i2
    a1 = a1
    a2 = a2
    r1 = r1
    Interfaces = {i1, i2}
    Addrs = {a1, a2}
    CfRanges = {r1}
    CopiedIds = {}
    Names <- MCNames
    PolicyName <- MCPolicyName
    Configs <- SingleRunConfigs
    Accounts <- FreshOnly
    MaxRoams = 1
    MaxEdits = 1
    MaxFaults = 1
INVARIANTS TypeOK UniquePolicies AttachedAsConfigured SshOnlyFromDetected OutboundKept
PROPERTIES SaveKeepsOutboundOpen KeepsPromise
