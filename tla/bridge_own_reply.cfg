CONSTANTS
    Lengths = {3}
    Bogus = {5, 40}
    MaxFrame = 50
    RcvBuf = 7
    MaxReqs = 3
SPECIFICATION Spec
INVARIANT
    ReplyMatchesRequest
CHECK_DEADLOCK FALSE
