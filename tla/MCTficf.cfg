CONSTANTS
    numproc = 4
    Corpora <- MCCorpora
    Absent = Absent
    MaxWords = 5
    Eager = 1
    Clean <- MCClean
    Dropped = Dropped
    Blank = Blank
SPECIFICATION ProgramsSpec
CHECK_DEADLOCK FALSE
INVARIANTS TypeOK SameAsSerial ArraysHold SizesBeforeTables HadoopTable SparkTable
PROPERTY ProgramsEnd
