SPECIFICATION FairSpec
CONSTANTS
    i1 = i1
    i2 = i2
    c1 = c1
    c2 = c2
    p1 = p1
    p2 = p2
    None = None
    Items <- TwoItems
    Calls <- TwoCalls
    Runs <- TwoRuns
    MaxAttempts = 2
    MaxRetries = 2
    MaxFaults = 2
INVARIANT TypeOK
INVARIANT NothingForgotten
INVARIANT StoredOnce
INVARIANT TriesBounded
PROPERTY Settles
CHECK_DEADLOCK FALSE
