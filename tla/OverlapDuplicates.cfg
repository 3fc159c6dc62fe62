SPECIFICATION Spec
CONSTANTS
    Workers = {w1, w2}
    i1 = i1
    i2 = i2
    a1 = a1
    a2 = a2
    r1 = r1
    Interfaces = {i1, i2}
    Addrs = {a1, a2}
    CfRanges = {r1}
    CopiedIds = {}
    Names <- MCNames
    PolicyName <- MCPolicyName
    Configs <- PlainOnly
    Accounts <- FreshOnly
    MaxRoams = 0
    MaxEdits = 0
    MaxFaults = 0
INVARIANT UniquePolicies
