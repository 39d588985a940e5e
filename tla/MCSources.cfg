SPECIFICATION Spec
CONSTANTS
    PingPlots = {p1, p2}
    PingSystems = {"unix-ping", "icmp_ping", "IcmpSendEcho"}
    PingTimeout = 2
    TcpTimeout = 2
    Retry = 2
    Interval = 1
    ClockWord = 32
    Jumps <- JumpValues
    MaxJumps = 1
    MaxTrip = 3
    MaxEchoes = 2
    CounterWord = 4
    Bursts = {3}
    MaxBytes = 6
    Second = 2
    MaxLag = 3
    MaxLines = 4
    MaxRuns = 3
    CpuPlots = {c1, c2}
    CpuPorts = {"linux", "unix", "freebsd", "darwin", "sunos", "hpux", "aix", "irix65",
                "decosf1", "unixware", "vms", "win32"}
    TickWord = 2002
    MaxTicks = 3
    MaxReads = 4
    Communities = {6, 92, 93, 128, 219, 220}
    Instances = {1, 16384}
    Times = {128, 1700000000}
    Words <- CounterWords
    Forms = {0, 1, 2, 3}
    Ports = {1}
    MaxRequests = 2
    StartTimes <- EveryMinute
    MaxMinutes = 2
    MaxCollections = 5
INVARIANTS TripIsOfThisEcho RetryPaced ConnectIsTrue BytesAccountedOnce NewestLineShown CpuShareOfPeriod CounterIsTheOneAsked
           TextTellsSource
SYMMETRY PlotSymmetry
CHECK_DEADLOCK FALSE
