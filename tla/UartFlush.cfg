\* What flush() says of itself, where a frame may end while the CPU is busy.
SPECIFICATION FairSpec
CONSTANTS
    RxSize = 2
    TxSize = 4
    RxDepth = 3
    LineErrors <- Clean
    Contexts <- OnOff
    Calls <- TxCalls
    Modes = {"full"}
    MaxTx = 3
    MaxRx = 0
    MaxBoth = 0
    FramesPerWindow <- OneFrame
PROPERTY FlushDone
