CONSTANTS
    Parts <- AllParts
    Chunks = {0, 1}
    NoChunk = NoChunk
    NPages = 4
    RunPages = 3
    SwapEnabled = TRUE
    Threads = {t1, t2}
    NoThread = NoThread
    NRegs = 2
    MapBias = 1
    LgDirtyMult = 5
    SizeT = 64
    Aligns = {2}
    Programs <- AllPrograms
    TreeElements <- Nodes
    LgGroup = 1
    NBits = 7
    PointerBits = 4
    KeyBits = 3
    BitsPerLevel = 2
    LgCells = 1
    MinItems = 1
    MaxLgBuckets = 3
    Hash1 <- FirstHash
    Hash2 <- SecondHash
    Options <- Chosen
    Sizes <- Limits
    Pairs <- Factors
    Extras <- More
    Alignments <- Powers
    LgAligns <- Shifts
SPECIFICATION Spec
SYMMETRY Symmetric
CHECK_DEADLOCK FALSE
INVARIANTS RunsApart Counted Joined BinKept Kept SearchesRight Granted ClassesAgree
