SPECIFICATION MCSpec
CONSTANTS
    MaxPlots = 2
    Clients = {c1, c2}
    Polite = {c1}
    Requests <- RequestSet
    Backlog = 1
    Room = 1
INVARIANTS MemoryOfThreads AnswerWhole
PROPERTIES ClientsAnswered SignalEnds
CHECK_DEADLOCK FALSE
