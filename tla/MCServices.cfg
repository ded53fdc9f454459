CONSTANTS
    r1 = r1
    r2 = r2
    c1 = c1
    c2 = c2
    c3 = c3
    s1 = s1
    s2 = s2
    q1 = q1
    q2 = q2
    w1 = w1
    w2 = w2
    ta = ta
    tb = tb
    e1 = e1
    e2 = e2
    e3 = e3
    NoRow = NoRow
    NoJob = NoJob
    NoSocket = NoSocket
    Replicas = {r1, r2}
    Calls = {c1, c2, c3}
    Home <- MCHome
    MaxRequests = 1
    MaxWindow = 1
    MaxForgets = 1
    Requests = {q1, q2}
    Workers = {w1, w2}
    Texts = {ta, tb}
    MaxJobs = 2
    MaxTroubles = 2
    Sockets = {e1, e2, e3}
    Servers <- TwoServers
    MaxEvents = 2
SPECIFICATION MCSpec
INVARIANT BudgetKept
INVARIANT JobsAccounted
INVARIANT EventsInOrder
INVARIANT LifespanOrdered
PROPERTY RestKept
PROPERTY NobodySkipped
PROPERTY JobsFinish
CHECK_DEADLOCK FALSE
