SPECIFICATION FairSpec
CONSTANTS
    o1 = o1
    o2 = o2
    NoOffer = NoOffer
    Offer = {o1, o2}
    Cap = 1
    MaxCan <- MCMaxCan
    MaxPut <- MCMaxPut
    MaxLines = 1
INVARIANTS TypeOK CandidatesInOrder RegisteredUntilExpiry
PROPERTIES CallbackReleased PutReturns AnsweredOfferForgotten
CHECK_DEADLOCK FALSE
