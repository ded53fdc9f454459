CONSTANTS
    r1 = r1
    r2 = r2
    p1 = p1
    p2 = p2
    p3 = p3
    NoProbe = NoProbe
    Replicas = {r1}
    Probes = {p1, p2}
    Home <- OneReplica
    FailureThreshold = 1
    BaseBackoff = 1
    MaxBackoff = 2
    JitterPercent = 100
    LockTTL = 1
    MaxExponent = 1
    FailureCap = 3
    RedisFails = TRUE
    Cancellable <- NoAwait
    ColdCalls = {}
    Purges = TRUE
SPECIFICATION FairSpec
INVARIANT HalfOpenFlagHasOwner
PROPERTY FailuresExtend
PROPERTY RecoversAfterOutage
