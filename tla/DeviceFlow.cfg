SPECIFICATION FairSpec
CONSTANTS
    DefaultInterval = 5
    SlowDownStep = 5
    MaxLatency = 2
    Latencies = {0, 2}
    MaxLag = 1
    Lags = {0, 1}
    AskedIntervals = {0, 1, 4}
    Lifetimes = {0, 10, 23}
    ApprovalTimes = {1, 4, 9, 16, 22, 60}
INVARIANTS TypeOK EndsInTime ApprovalSeen
PROPERTIES Polite Returns
CHECK_DEADLOCK FALSE
