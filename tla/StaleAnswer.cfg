SPECIFICATION Spec
CONSTANTS
    Procs = {"p1"}
    Cycles = {"c1", "c2"}
    FirstCycle = "c1"
    Settings = {"on"}
    Answers = {"rotated", "same"}
    MaxTokens = 3
    MaxEdits = 0
    MaxLosses = 0
    MaxFaults = 0
PROPERTY OnlyRotated
