SPECIFICATION FairSpec
CONSTANTS
    o1 = o1
    o2 = o2
    a1 = a1
    a2 = a2
    h1 = h1
    h2 = h2
    v1 = v1
    None = None
    Orders <- OneOrder
    Buyer <- OneBuyer
    Attempts <- TwoAttempts
    Hooks <- TwoHooks
    Checkers <- OneChecker
    Ops = {"refund", "verify", "crash"}
    MaxAttempts = 2
    MaxMoves = 1
    MaxFailures = 1
INVARIANT CompletedIsPaid
INVARIANT ProcessedCaptureStands
PROPERTY PromiseKept
PROPERTY CaptureRecorded
CHECK_DEADLOCK FALSE
