CONSTANTS
    Byte = {0, 1, 2}
    Segment = 2
    BlockMod = 3
    MaxTimeouts = 3
    Child = {c1}
    Port <- MCPort
    Peer = {client}
    f1 = f1
    f2 = f2
    Name = {f1, f2}
    Timely = TRUE
    InitFiles <- MCInitFiles
    Stray = {}
    Nul = 0
    Unwritable = {}
    Blend <- MCBlend
    NegativeLen = FALSE
    MaxBlocks = 10
    Client = client
    Sources <- MCNulSources
    MaxLoss = 0
SPECIFICATION SessionSpec
INVARIANT UploadExact
CHECK_DEADLOCK FALSE
