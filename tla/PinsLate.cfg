\* The default build against what its documentation says of edges.
SPECIFICATION FairSpec

CONSTANTS
    Ports = {0}
    Clears = {"late"}
    Pins = {0, 1}
    Funcs = {f, once}
    OneShots = {once}
    NULL = NULL

INVARIANT NotForgotten
