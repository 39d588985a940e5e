SPECIFICATION RenderSpec
CONSTANTS
    PalCount = 3
    MaxBits = 4
    MaxBlock = 2
    FirstCap = 5
    Memories = {5, 40}
    Arbitrary = 8
    Colors = {0, 1, 2}
    Openings <- FrameOpenings
    Width = 5
    Height = 8
    Top = 1
    Interval = 2
    Word = 16
    Scales = {0, 2}
    Values <- ValueValues
    BufferSize = 3
    MaxTicks = 6
    Jumps <- JumpValues
    Toolkits = {"gtk", "sdl", "glfw", "win32", "cocoa"}
    WindowWidths = {4, 5}
    FirstWidth = 4
    MaxEvents = 3
    MaxPushes = 1
INVARIANTS DecodesToFrame PlotTellsSamples HoverIsNearest WindowAnswers
CHECK_DEADLOCK FALSE
