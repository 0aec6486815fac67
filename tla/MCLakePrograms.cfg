CONSTANTS
    n = 6
    EndTime = 1
    Optimised = FALSE
    Builds = {"serial", "omp", "acc"}
    Threads = {2}
    Gangs = 2
    Junk = 500
    Pebbles <- MCPebbles
    Scheme <- MCScheme
    f <- MCf
    PermEndTime = 2
    MaxCrashes = 3
    Null = Null
    PermJunk = 0
    Pebs = 7
    PermStart = 4
    NBlocks <- MCBlocks
    NoGlobals <- MCNoGlobals
    evolve <- MCEvolve
SPECIFICATION ProgramsSpec
CHECK_DEADLOCK FALSE
INVARIANTS TypeOK NoRace ReadsInside BlocksApart
PROPERTIES SameLake SameRun 
