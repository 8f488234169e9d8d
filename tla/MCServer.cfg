CONSTANTS
    Byte = {0, 1, 2}
    Nul = 0
    Segment = 2
    BlockMod = 3
    MaxTimeouts = 1
    Child = {c1, c2}
    Port <- MCPort
    PortMod = 4
    Ranges <- MCRanges
    Peer = {client}
    f1 = f1
    Name = {f1}
    Unwritable = {}
    Blend <- MCBlend
    NegativeLen = TRUE
    MaxBlocks = 2
    MaxRequests = 2
    MinTid <- MCMinTid
    Ops = {1, 2, 3}
    Timely = FALSE
    ReadAhead = 4
    InitFiles <- MCInitFiles
    Stray <- MCStray
SPECIFICATION Spec
INVARIANTS UndisturbedDownload UndisturbedUpload DistinctPorts
PROPERTIES ChildrenEnd
CHECK_DEADLOCK FALSE
