SPECIFICATION Spec
CONSTANTS
    PlotCount = 1
    Modes = {"on", "force"}
    Widths = {2, 4, 6}
    DefaultWidth = 6
    Margin = 1
    Word = 16
    ReadCap = 2
    MaxQueue = 2
    MaxRequests = 2
    MaxInputs = 2
    MaxSamples = 2
INVARIANTS FrameFits NothingLeftUndrawn FullscreenFlagAgrees
CHECK_DEADLOCK FALSE
