SPECIFICATION Spec
CONSTANTS
    NumProc = 3
    Timely = FALSE
    MaxSkew = 0
    Late = {}
    SockBuf = 8
    Sizes <- SizesOne
INVARIANTS BarrierSafe IndInv
PROPERTY Synchronises
CHECK_DEADLOCK FALSE
