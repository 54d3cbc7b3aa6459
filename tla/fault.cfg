SPECIFICATION Spec
CONSTANTS
    a = a
    NoName = NoName
    Names = {a}
    Times = {1, 2}
    Lens = {1}
    MaxRecs = 2
    RecordsTrunk = 2
    IntSpan = 1000
    Events = {"fstat", "lseek"}
INVARIANTS
    AssertionsHold
CHECK_DEADLOCK FALSE
