SPECIFICATION LiveSpec
CONSTANTS
    PlotCount = 1
    Modes = {"force"}
    Widths = {3, 6}
    DefaultWidth = 6
    Margin = 1
    Word = 16
    ReadCap = 2
    MaxQueue = 2
    MaxRequests = 1
    MaxInputs = 2
    MaxSamples = 2
PROPERTIES WindowSettles ForcedBackToFullscreen EndsWhenAsked ShownInTime
CHECK_DEADLOCK FALSE
