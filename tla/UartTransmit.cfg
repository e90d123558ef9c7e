\* Transmitting; with interrupts on at most one frame ends per busy window.
SPECIFICATION FairSpec
CONSTANTS
    RxSize = 2
    TxSize = 4
    RxDepth = 3
    LineErrors <- Clean
    Contexts <- OnOff
    Calls <- TxCalls
    Modes = {"full"}
    MaxTx = 6
    MaxRx = 0
    MaxBoth = 0
    FramesPerWindow <- OneFrame
INVARIANTS
    WritePromise

PROPERTIES
    TxIsQueue
    CallsReturn
    Drains
