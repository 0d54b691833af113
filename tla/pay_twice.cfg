SPECIFICATION Spec
CONSTANTS
    o1 = o1
    o2 = o2
    a1 = a1
    a2 = a2
    h1 = h1
    h2 = h2
    v1 = v1
    None = None
    Orders <- OneOrder
    Buyer <- OneBuyer
    Attempts <- OneAttempt
    Hooks <- OneHook
    Checkers <- OneChecker
    Ops = {"kyc", "payout"}
    MaxAttempts = 2
    MaxMoves = 1
    MaxFailures = 1
SYMMETRY Symmetry
INVARIANT HostPaidOnce
CHECK_DEADLOCK FALSE
