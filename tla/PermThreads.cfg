\* Two threads, so that one starts while the other initialises malloc, and two arenas;
\* one process after the first, so that a heap is opened again and one is gone back to.
CONSTANTS
    NoThread = NoThread
    Gone = Gone
    Threads = {main, t1}
    Main = main
    NArenas = 2
    CountWidth = 3
    Openers = {"mopen", "env"}
    MaxMallocs = 1
    MaxRuns = 1
SPECIFICATION FairSpec
INVARIANTS Counted Persistent
PROPERTIES Served
CHECK_DEADLOCK FALSE
