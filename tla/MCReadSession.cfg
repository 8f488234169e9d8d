CONSTANTS
    Byte = {1, 2}
    Segment = 2
    BlockMod = 3
    MaxTimeouts = 3
    Child = {c1, c2}
    Port <- MCPort
    Peer = {client}
    f1 = f1
    f2 = f2
    Name = {f1, f2}
    Timely = TRUE
    ReadAhead = 4
    InitFiles <- MCInitFiles
    Stray = {}
    Client = client
    None = None
    MaxLoss = 2
SPECIFICATION FairSessionSpec
INVARIANTS Lockstep ExitMeansDelivered
PROPERTIES RefinesFileCopy Completes
CHECK_DEADLOCK FALSE
