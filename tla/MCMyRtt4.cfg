SPECIFICATION FairSpec
CONSTANTS
    NumProc = 4
    Timely = TRUE
    MaxSkew = 3
    Late = {0}
    SockBuf = 8
    Sizes <- SizesMixed
INVARIANTS NothingLost RightMessage NoServerStuck NoEarlyArrival
PROPERTY Termination
CHECK_DEADLOCK FALSE
