SPECIFICATION Spec
CONSTANTS
    Main = main
    Httpd = httpd
    Sizes = {1, 2, 3}
    MaxPush = 5
    ReadCap = 2
INVARIANTS AlignedFromNewest LevelUnlessDisturbed ColumnsWithinPushes
