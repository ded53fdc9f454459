CONSTANTS
    r1 = r1
    r2 = r2
    p1 = p1
    p2 = p2
    p3 = p3
    NoProbe = NoProbe
    Replicas = {r1}
    Probes = {p1, p2}
    Home <- OneReplica
    FailureThreshold = 1
    BaseBackoff = 1
    MaxBackoff = 1
    JitterPercent = 0
    LockTTL = 1
    MaxExponent = 9
    FailureCap = 1
    RedisFails = FALSE
    Cancellable <- EveryAwait
    ColdCalls = {}
    Purges = FALSE
SPECIFICATION Spec
INVARIANT HalfOpenFlagHasOwner
