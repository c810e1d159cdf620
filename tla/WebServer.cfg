SPECIFICATION FairSpec
CONSTANTS
    Clients = {c1, c2, c3}
    Requests <- SomeRequests
    MaxConns = 2
    MaxChunks = 2
    MaxGlitches = 1
    NoClient = NoClient
    NoRequest = NoRequest
INVARIANTS
    SlotsExact
    NothingLeaked
PROPERTIES
    QuietAfterStop
    ConnectionsEnd
    StopReturns
CHECK_DEADLOCK FALSE
