SPECIFICATION Spec
CONSTANTS
    Types = {"tcp", "tls"}
    Fds = {3, 4}
    OutbufDefSize = 2
    Sizes = {1, 2}
    Clients = {c1}
    NoClient = NoClient
    Requests <- EveryRequest
    Inbuf = 2
    Period = 2
    Start = 2
    MaxClock = 4
    MaxPieces = 3
INVARIANTS HttpdTypeOK ConnOwnsAll BufferFits BodyIsOwn
PROPERTY RefreshPaced
