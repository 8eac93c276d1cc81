SPECIFICATION Spec
CONSTANTS
    MaxRequests = 2
    MaxConns = 1
INVARIANT ReplyAnswersRequest
CHECK_DEADLOCK FALSE
