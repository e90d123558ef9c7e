SPECIFICATION MCSpec

CONSTANTS
    Kinds = {"TCA", "TCB"}
    Ticks = 5
    OvfMicros <- MCOvfMicros
    Near = 2
    Uses <- MCUses
    Nudges = {1}
    Settings = {3}
    Word = 2
    MaxLatency = 1
    MaxSection = 3
    MaxWraps = 3
    MaxNudged = 1

INVARIANTS
    MillisExact

PROPERTIES
    MicrosIsClock
    MillisHonest
    RtcKeepsTime
    DelayIsKept
    MicrosIsTime

\* Overflows are bounded: the models stop there.
CHECK_DEADLOCK FALSE
