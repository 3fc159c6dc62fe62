SPECIFICATION FairSpec
CONSTANTS
    Workers = {w1, w2}
    i1 = i1
    i2 = i2
    a1 = a1
    a2 = a2
    r1 = r1
    Interfaces = {i1, i2}
    Addrs = {a1, a2}
    CfRanges = {r1}
    CopiedIds = {9}
    Names <- MCNames
    PolicyName <- MCPolicyName
    Configs <- WgCrossedOnly
    Accounts <- HalfSetOnly
    MaxRoams = 1
    MaxEdits = 1
    MaxFaults = 1
INVARIANT UniquePolicies
PROPERTIES Converges OutboundRepaired KeepsWhatItSaw SshStaysAttached
