SPECIFICATION FairSpec
CONSTANTS
    NGRID = 7
    numproc = 3
    Arguments <- CommandLines
INVARIANTS FreedUnsent NothingLeft
PROPERTIES ImplementsSerial Termination
CHECK_DEADLOCK FALSE
