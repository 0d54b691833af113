SPECIFICATION FairSpec
CONSTANTS
    s1 = s1
    s2 = s2
    o1 = o1
    o2 = o2
    g1 = g1
    c1 = c1
    c2 = c2
    k1 = k1
    k2 = k2
    Job = Job
    None = None
    Hosts <- TwoHosts
    PaidPlans = {"PRO"}
    Orders <- TwoOrders
    Mandates <- NoMandate
    Owner <- FirstHost
    PlanOf <- ProPlan
    Clients <- OneClient
    Hooks <- NoCall
    Ops = {"cancel", "expire", "crash", "fail"}
    FreeMonths = 12
    MaxMonth = 1
    MaxCycles = 1
    MaxSubs = 2
INVARIANT TypeOK
INVARIANT MonthsArePaid
PROPERTY ExpiryTaken
CHECK_DEADLOCK FALSE
