SPECIFICATION Spec
CONSTANTS
    a = a
    b = b
    NoName = NoName
    Names = {a, b}
    Times = {1, 2, 3}
    Lens = {1}
    MaxRecs = 2
    RecordsTrunk = 2
    IntSpan = 1000
    Events = {"clockback"}
SYMMETRY Symmetry
INVARIANTS
    TimesAscend
    OffsetsAreRecords
PROPERTIES
    CaughtUp
    KeepsPromise
