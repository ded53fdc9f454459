CONSTANTS
    f1 = f1
    f2 = f2
    Refreshes = {f1, f2}
    NoRefresh = NoRefresh
    NoSnapshot = NoSnapshot
    MaxTroubles = 2
SPECIFICATION FairSpec
INVARIANT OneRefresh
INVARIANT ResetHolds
INVARIANT WorkIsSingleFlight
PROPERTY BoardRecovers
