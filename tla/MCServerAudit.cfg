SPECIFICATION AuditSpec
CONSTANTS
    Logins = {"admin", "ann"}
    Passwords = {"admin", "pw"}
    Conns = {c1, c2}
    NoConn = NoConn
    Requests <- WritingRequests
    MaxRequests = 4
    MaxPipeline = 1
    MaxFaults = 1
SYMMETRY ConnSymmetry
INVARIANTS
    AuditSound SessionCoherent AuditReplay NoLoginWhileBlocked DisconnectsPaired
    AckedIsDurable RegisteredOnce AdminSeededUnlessFault
PROPERTIES ErrorMeansNoEffect LockoutIsForever OnlyAdminsBlock ImplementsAccessControl
