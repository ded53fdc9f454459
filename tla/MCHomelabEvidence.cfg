CONSTANTS
    r1 = r1
    r2 = r2
    a = a
    b = b
    n1 = n1
    n2 = n2
    n3 = n3
    Nodes = {n1, n2, n3}
    Database = n1
    Replicas = {r1, r2}
    Catalogue <- TwoServices
    Rank <- Unranked
    NoRank = NoRank
    NoEntry = NoEntry
    Limit = 1
    EvidenceTTL = 5
    MaxRetention = 5
    Period = 2
    MaxTroubles = 1
    MaxConcurrency = 2
    MaxRefreshes = 2
    MaxChanges = 1
SPECIFICATION MCSpec
INVARIANT EvidenceIsOld
INVARIANT CadenceKept
INVARIANT VerdictsProved
INVARIANT DoubtIsReached
INVARIANT VerdictWasTrue
PROPERTY NewestKept
SYMMETRY SameReplica
