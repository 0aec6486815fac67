CONSTANTS
    Threads = {t1, t2}
    NoThread = NoThread
    SwapMax = 5
    NodesPerChunk = 3
    Sizes = {1, 2}
    Aligns = {2}
    Prezeroed = {TRUE}
    MaxOps = 4
SPECIFICATION Spec
CHECK_DEADLOCK FALSE
INVARIANT CallocZero
