CONSTANTS
    r1 = r1
    r2 = r2
    p1 = p1
    p2 = p2
    p3 = p3
    NoProbe = NoProbe
    Replicas = {r1, r2}
    Probes = {p1, p2, p3}
    Home <- TwoReplicas
    FailureThreshold = 1
    BaseBackoff = 1
    MaxBackoff = 1
    JitterPercent = 0
    LockTTL = 1
    MaxExponent = 9
    FailureCap = 1
    RedisFails = TRUE
    Cancellable <- EveryAwait
    ColdCalls = {p3}
    Purges = FALSE
SPECIFICATION Spec
INVARIANT OneLocalHalfOpenOwner
INVARIANT OneTokenPerWindow
SYMMETRY SameReplica
