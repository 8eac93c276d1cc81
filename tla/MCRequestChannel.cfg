SPECIFICATION FairSpec
CONSTANTS
    MaxRequests = 5
    MaxConns = 2
INVARIANTS TypeOK ServerSeesWholeLines RepliesInOrder LagBoundedByTimeouts
PROPERTY RequestReturns
CHECK_DEADLOCK FALSE
