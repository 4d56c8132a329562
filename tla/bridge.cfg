CONSTANTS
    Lengths = {0, 3, 6}
    Bogus = {5}
    MaxFrame = 7
    RcvBuf = 5
    MaxReqs = 3
SPECIFICATION FairSpec
INVARIANTS
    CallsSafe
    AnswersInOrder
    OwnReplyIffNothingOwed
    FramingKept
PROPERTIES
    ImplementsRequestReply
    FramedCallReturns
    ServedHostExits
CHECK_DEADLOCK FALSE
