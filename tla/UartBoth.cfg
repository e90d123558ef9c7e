\* Receiving with errors, and sending in half and full duplex meanwhile.
SPECIFICATION FairSpec
CONSTANTS
    RxSize = 4
    TxSize = 2
    RxDepth = 3
    LineErrors <- Noisy
    Contexts <- OnOff
    Calls <- BothCalls
    Modes = {"full", "half"}
    MaxTx = 3
    MaxRx = 4
    MaxBoth = 1
    FramesPerWindow <- OneFrame
INVARIANTS
    ReadPromise
    ReportedOnce
    FlushAnswered
    EarKept
PROPERTIES
    RxIsQueue
    QueueFlushed
    ListensAgain
