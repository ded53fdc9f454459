CONSTANTS
    c1 = c1
    c2 = c2
    p1 = p1
    i1 = i1
    i2 = i2
    NoCaller = NoCaller
    Callers = {c1, c2}
    Public = {p1}
    Internal = {i1, i2}
    MaxConcurrency = 1
    MaxTroubles = 1
SPECIFICATION FairSpec
INVARIANT FanOutBounded
INVARIANT RowsSettled
PROPERTY CallsAnswered
