SPECIFICATION Spec
CONSTANTS
    NumQuestions = 2
    c1 = c1
    c2 = c2
    c3 = c3
    u1 = u1
    u2 = u2
    NoUser = NoUser
    Users <- TwoUsers
    Active <- OneUser
    Calls <- TwoCalls
    Ops <- AllOps
    MaxExpiries = 1
SYMMETRY Symmetry
INVARIANT TypeOK
INVARIANT AtMostOneAccepted
INVARIANT NeverOverpaid
PROPERTY PromiseKept
CHECK_DEADLOCK FALSE
