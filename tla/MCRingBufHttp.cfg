\* The http reader against a main thread that resizes under it.
SPECIFICATION Spec
CONSTANTS
    Main = main
    Httpd = httpd
    Readers = {httpd}
    Collector = collector
    NoThread = none
    Garbage = garbage
    Sizes = {2, 3}
    MaxPush = 5
    ReadCap = 3
    MaxAttempts = 1
INVARIANTS SnapshotTornAtMostAtOldest SnapshotFresh
