CONSTANTS
    Byte = {0, 1, 2}
    Segment = 2
    BlockMod = 3
    MaxTimeouts = 2
    Child = {c1}
    Port <- MCPort
    client = client
    stranger = stranger
    nowhere = nowhere
    Peer = {client, stranger, nowhere}
    f1 = f1
    f2 = f2
    Name = {f1, f2, f3}
    Timely = FALSE
    InitFiles <- MCInitFiles
    Stray <- MCStray
    Nul = 0
    Unwritable = {f3}
    Blend <- MCBlend
    NegativeLen = TRUE
    MaxBlocks = 3
SPECIFICATION FairSpec
INVARIANTS TypeOK DisconnectAfterSilence StreamAtEnd
PROPERTIES Terminates
CHECK_DEADLOCK FALSE
