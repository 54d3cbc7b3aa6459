SPECIFICATION Spec
CONSTANTS
    Templates = {"generic", "memory"}
    Generic = "generic"
    Logs <- TwoLogs
    Unreadable = {2}
    Step = 1
    Now = 12
    MaxDelta = 2
    MaxQueue = 2
INVARIANTS
    FrontendTypeOK
    OneChain
    PageAlive
    ShowsChoice
PROPERTIES
    Moves
    Settles
