SPECIFICATION FairSpec

CONSTANTS
    Bytes = {1, 2}
    Released = 255
    HostLength = 3
    Messages <- MCMessages
    MaxOrders = 1
    Overlap = FALSE
    ClientLength = 2
    Answers <- MCAnswers
    HeadAtBegin = {0}
    CountWrap = 4

INVARIANTS
    SleepKept

PROPERTIES
    SuccessIsDelivery
    ReportsWhatWasWritten
    ReadsTheAnswer
    BusGoesOn
