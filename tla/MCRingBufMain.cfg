SPECIFICATION Spec
CONSTANTS
    Main = main
    Httpd = httpd
    Readers = {main}
    Collector = collector
    NoThread = none
    Garbage = garbage
    Sizes = {1, 2, 3, 4}
    MaxPush = 6
    ReadCap = 3
    MaxAttempts = 2
INVARIANTS TypeOK MutexDiscipline IndicesAgree WindowIsNewest
           MainReadsLiveArrays
PROPERTY ImplementsWindow
