\* Readers that finish whatever the other threads do.
SPECIFICATION FairSpec
CONSTANTS
    Main = main
    Httpd = httpd
    Readers = {httpd}
    Collector = collector
    NoThread = none
    Garbage = garbage
    Sizes = {1, 2}
    MaxPush = 2
    ReadCap = 3
    MaxAttempts = 2

PROPERTY SnapshotReturns
