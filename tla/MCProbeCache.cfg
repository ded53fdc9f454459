CONSTANTS
    r1 = r1
    r2 = r2
    c1 = c1
    c2 = c2
    c3 = c3
    NoCaller = NoCaller
    NoEnvelope = NoEnvelope
    Replicas = {r1}
    Callers = {c1, c2}
    Home <- OneReplica
    SuccessTTL = 1
    FailureTTL = 1
    StaleTTL = 1
    HotTTL = 1
    LockTTL = 1
    RedisFails = {"get", "lock", "set"}
    Cancellable <- SomeAwaits
    CircuitDenies = FALSE
    BudgetDenies = FALSE
    MaxPurges = 1
SPECIFICATION FairSpec
INVARIANT HotEvidenceSparesOrigin
PROPERTY ImplementsSingleFlight
PROPERTY CallsAnswered
