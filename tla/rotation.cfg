SPECIFICATION Spec
CONSTANTS
    a = a
    b = b
    NoName = NoName
    Names = {a, b}
    Times = {1, 2, 3, 4}
    Lens = {1}
    MaxRecs = 3
    RecordsTrunk = 2
    IntSpan = 1000
    Events = {"unlink", "foreign"}
SYMMETRY Symmetry
INVARIANTS
    TypeOK
    IndexIsPrefix
    AssertionsHold
    ReadyWhenIdle
    AnswerIsClosest
PROPERTIES
    CaughtUp
