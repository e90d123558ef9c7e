SPECIFICATION FairSpec

CONSTANTS
    Pages <- MCPages
    PageSize = 2
    Old <- MCOld
    Image <- MCImage
    Order <- MCOrder
    MaxSessions = 2
    MaxLosses = 1
    MaxGarbles = 1
    Garbles = {70}
    MaxResets = 1
    MaxFaults = 2

INVARIANTS
    AckedIsWritten
    VerifiedIsImage

PROPERTIES
    ResetDecides
    AppStarts

CHECK_DEADLOCK FALSE
