CONSTANTS
    MaxCalls = 3
    QSIZE = 3
    MaxDgs = 6
    MaxReplies = 3
    NChildren = 3
    NThreads = 3
    MAXNCLI = 3
    MaxConns = 4
    MsgLen = 2
    NFiles = 3
SPECIFICATION Spec
INVARIANTS ReturnsClean EchoesInOrder ServedOnce
PROPERTIES CallReturns Echoed RoundEnds AllServed AllFetched
CHECK_DEADLOCK FALSE
