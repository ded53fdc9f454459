CONSTANTS
    r1 = r1
    r2 = r2
    c1 = c1
    c2 = c2
    c3 = c3
    NoCaller = NoCaller
    NoEnvelope = NoEnvelope
    Replicas = {r1, r2}
    Callers = {c1, c2, c3}
    Home <- TwoReplicas
    SuccessTTL = 1
    FailureTTL = 1
    StaleTTL = 2
    HotTTL = 1
    LockTTL = 1
    RedisFails = {"lock"}
    Cancellable <- OpenAwaits
    CircuitDenies = TRUE
    BudgetDenies = TRUE
    MaxPurges = 0
SPECIFICATION Spec
INVARIANT RefreshLockExclusive
PROPERTY LastGoodKept
SYMMETRY SameReplica
