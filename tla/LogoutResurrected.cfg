SPECIFICATION Spec
CONSTANTS
    Procs = {"p1", "p2"}
    Cycles = {"c1"}
    FirstCycle = "c1"
    Settings = {"off", "on"}
    Answers = {"rotated", "same", "absent"}
    MaxTokens = 2
    MaxEdits = 0
    MaxLosses = 0
    MaxFaults = 0
PROPERTY LogoutClears
