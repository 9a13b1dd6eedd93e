SPECIFICATION FairSpec
CONSTANTS
    Caller = {g1, g2}
    MaxRef = 4
    MaxMsg = 4
INVARIANTS TypeOK AckAnswersOwnRequest NoStrayEntry AckNeverBlocks
PROPERTIES CallReturns
CHECK_DEADLOCK FALSE
