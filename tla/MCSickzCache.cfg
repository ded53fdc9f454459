CONSTANTS
    c1 = c1
    c2 = c2
    h1 = h1
    h2 = h2
    good = good
    bad = bad
    Requests = {c1, c2}
    Hosts = {h1, h2}
    Groups = {good, bad}
    Catalogue = Catalogue
    Probes = {good, bad, Catalogue}
    Malformed = {bad}
    MaxConcurrency = 1
    Cancellable = {c2}
    NoRequest = NoRequest
    None = None
SPECIFICATION FairSpec
INVARIANT FanOutBounded
INVARIANT ServedIsCurrent
PROPERTY ImplementsSingleFlight
PROPERTY EverythingEnds
