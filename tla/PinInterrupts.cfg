SPECIFICATION FairSpec

CONSTANTS
    Ports = {0}
    Clears = {"late", "early"}
    Pins = {0, 1}
    Funcs = {f, once}
    OneShots = {once}
    NULL = NULL

INVARIANTS
    ArmedIffAttached

PROPERTIES
    ForgetsRepeatsOnly
    OwnEdge
    EdgeServed
