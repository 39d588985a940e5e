SPECIFICATION Spec
CONSTANTS
    MaxStarts = 3
    Names = {"a", "b"}
    Openings <- OpeningValues
    MaxLines = 4
INVARIANTS UserFileKept SettingsReachTheirPlot
CHECK_DEADLOCK FALSE
