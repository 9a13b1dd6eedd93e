SPECIFICATION FairSpec
CONSTANTS
    c = c
    d1 = d1
    DC <- MCAlone
    Creator = c
    kind <- ByLabel
    OutBufSize = 1
    MaxChunks = 2
    MaxMark = 0
PROPERTIES ExitEndsPane PushCompletes
CHECK_DEADLOCK FALSE
