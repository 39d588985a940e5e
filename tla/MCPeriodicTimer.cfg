SPECIFICATION Spec
CONSTANTS
    Impls = {"linux", "kqueue", "posix", "cma", "sproc"}
    Ms = 2
    Interval = 4
    Floor = 18
    Jumps <- MCJumps
    MaxJumps = 2
    MaxLag = 26
INVARIANT NoDrift
PROPERTIES WakesInTime KeepsCollecting
