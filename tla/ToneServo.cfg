SPECIFICATION MCSpec

CONSTANTS
    Ports = {"A", "B"}
    Masks = {1, 2}
    NotAPin = NotAPin
    FCPU = 1000000
    Frequencies = {1, 7, 8}
    Counts <- MCCounts
    MaskedCalls = FALSE
    ServoCount = 2
    Base = 4
    Widths = {3, 9}
    Shortest = 4
    Longest = 8
    Default = 5
    Trim = 1
    Interval = 17
    Top = 8
    Slack = 3
    Latency = 2
    ReAttach = FALSE

INVARIANTS
    SilentIsLow
    PitchOrOctave
    HighInTurn

PROPERTIES
    TogglesItsPin
    LengthIsRight
    PulseIsRight
    PulsedInTime
