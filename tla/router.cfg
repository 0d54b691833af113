SPECIFICATION FairSpec
CONSTANTS
    g1 = g1
    g2 = g2
    g3 = g3
    r1 = r1
    r2 = r2
    s1 = s1
    s2 = s2
    None = None
    Gateways <- ThreeGateways
    Line <- InLine
    Priorities = {1, 2}
    Requests <- OneRequest
    Sweeps <- TwoSweeps
    MaxTries = 2
    MaxChanges = 3
INVARIANT TypeOK
INVARIANT OrdersBounded
INVARIANT MetricsAddUp
PROPERTY HighestFirst
PROPERTY Ends
CHECK_DEADLOCK FALSE
