SPECIFICATION Spec
CONSTANTS
    Types = {"tcp", "tls"}
    Fds = {3}
    OutbufDefSize = 2
    Sizes = {1}
    Clients = {c1, c2}
    NoClient = NoClient
    Requests <- TwoSamples
    Inbuf = 1
    Period = 2
    Start = 2
    MaxClock = 2
    MaxPieces = 1
INVARIANT BodyIsOwn
PROPERTY Served
