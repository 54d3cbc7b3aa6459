SPECIFICATION Spec
CONSTANTS
    RecordsTrunk = 360
    Times = {1, 2, 3, 4, 5}
    MaxLen = 6
INVARIANTS
    InBounds
    FindsClosest
PROPERTIES
    Ends
CHECK_DEADLOCK FALSE
