SPECIFICATION Spec
CONSTANTS
    s1 = s1
    s2 = s2
    o1 = o1
    o2 = o2
    g1 = g1
    c1 = c1
    c2 = c2
    k1 = k1
    k2 = k2
    Job = Job
    None = None
    Hosts <- OneHost
    PaidPlans = {"PRO"}
    Orders <- NoOrder
    Mandates <- OneMandate
    Owner <- FirstHost
    PlanOf <- ProPlan
    Clients <- OneClient
    Hooks <- OneHook
    Ops = {"charge", "end", "free", "expire"}
    FreeMonths = 12
    MaxMonth = 2
    MaxCycles = 2
    MaxSubs = 3
INVARIANT ChargesCounted
PROPERTY RetiredStays
CHECK_DEADLOCK FALSE
