\* The frequency against what tone() says of the interrupt it may meet.
SPECIFICATION Spec

CONSTANTS
    Ports = {"A", "B"}
    Masks = {1}
    NotAPin = NotAPin
    FCPU = 1000000
    Frequencies = {7, 8}
    Counts <- MCCounts
    MaskedCalls = FALSE

INVARIANT PitchIsRight
