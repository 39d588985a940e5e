SPECIFICATION FileSpec
CONSTANTS
    MaxStarts = 3
    Names = {"a", "b"}
    Openings <- OpeningValues
    MaxLines = 4
INVARIANT SampleOnlyIfMissing
CHECK_DEADLOCK FALSE
