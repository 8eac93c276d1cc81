SPECIFICATION FairSpec
CONSTANTS
    Logins = {"admin", "ann"}
    Passwords = {"admin", "pw"}
    Conns = {c1, c2}
    NoConn = NoConn
    Requests <- EveryRequest
    MaxRequests = 2
    MaxPipeline = 2
    MaxFaults = 1
INVARIANT TypeOK
PROPERTY EveryLineAnswered
