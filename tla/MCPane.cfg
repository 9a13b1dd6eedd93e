SPECIFICATION Spec
CONSTANTS
    c = c
    d1 = d1
    DC <- MCDC
    Creator = c
    kind <- ByMessage
    OutBufSize = 1
    MaxChunks = 2
    MaxMark = 3
INVARIANTS TypeOK PipelineInOrder NoGapNoRepeat HeardCloseForgotten
PROPERTY FeedSpec
CHECK_DEADLOCK FALSE
