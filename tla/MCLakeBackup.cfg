\* lake-perm.c alone matters here: the smallest lake.c, one crash.
CONSTANTS
    n = 6
    EndTime = 1
    Optimised = FALSE
    Builds = {"serial"}
    Threads = {2}
    Gangs = 2
    Junk = 500
    Pebbles <- MCPebbles
    Scheme <- MCScheme
    f <- MCf
    PermEndTime = 1
    MaxCrashes = 1
    Null = Null
    PermJunk = 0
    Pebs = 7
    PermStart = 4
    NBlocks <- MCBlocks
    NoGlobals <- MCNoGlobals
    evolve <- MCEvolve
SPECIFICATION ProgramsSpec
CHECK_DEADLOCK FALSE
PROPERTIES CheckpointPersists
