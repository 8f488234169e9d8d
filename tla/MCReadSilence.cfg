CONSTANTS
    Byte = {1, 2}
    Segment = 2
    BlockMod = 3
    MaxTimeouts = 3
    Child = {c1}
    Port <- MCPort
    Peer = {client, stranger}
    f1 = f1
    f2 = f2
    Name = {f1, f2}
    Timely = FALSE
    ReadAhead = 4
    InitFiles <- MCInitFiles
    Stray <- MCStray
SPECIFICATION Spec
INVARIANT DisconnectAfterSilence
CHECK_DEADLOCK FALSE
