SPECIFICATION Spec
CONSTANTS
    Procs = {"p1"}
    Cycles = {"c1", "c2"}
    FirstCycle = "c1"
    Settings = {"off", "on"}
    Answers = {"rotated", "same", "absent"}
    MaxTokens = 4
    MaxEdits = 1
    MaxLosses = 1
    MaxFaults = 2
INVARIANTS TypeOK StoredUsable
PROPERTY KeepsSession
