SPECIFICATION FairSpec
CONSTANTS
    t1 = t1
    t2 = t2
    NoToken = NoToken
    NoLine = NoLine
    NoFP = NoFP
    Token = {t1, t2}
    FP = {t1}
    First <- MCFirst
    Arg <- MCArg
    Req = {r1, r2}
    MaxConn = 2
    PendCap = 1
    MaxCan = 1
    MaxEvents = 3
INVARIANTS TypeOK UnnamedClientsStay RemovedIsGone 
PROPERTIES PatchReturns AnswerTaken
CHECK_DEADLOCK FALSE
