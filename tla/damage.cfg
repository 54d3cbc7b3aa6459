SPECIFICATION Spec
CONSTANTS
    a = a
    NoName = NoName
    Names = {a}
    Times = {1, 2}
    Lens = {1}
    MaxRecs = 2
    RecordsTrunk = 2
    IntSpan = 6
    Events = {"truncate", "crash", "fstat", "lseek", "malloc", "opendir", "foreign", "eio"}
INVARIANTS
    TimesAscend
PROPERTIES
    ServerReturns
CHECK_DEADLOCK FALSE
