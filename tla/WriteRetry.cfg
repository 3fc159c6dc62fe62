SPECIFICATION FairSpec
CONSTANTS
    InitialDelay = 2
    MaxDelay = 30
    Budget = 300
    Timeout = 30
    Latencies = {0, 1, 30}
    ClearTimes = {0, 1, 3, 15, 100, 240, 245, 269, 270, 271, 299, 300, 301, 400}
INVARIANTS TypeOK WithinBudget ShortWritesWaitedOut
PROPERTIES Returns OneWrite
CHECK_DEADLOCK FALSE
