CONSTANTS
    c1 = c1
    c2 = c2
    Callers = {c1, c2}
    Ttl = 2
    Retry = 1
    MaxTime = 4
    MaxVersion = 1
    MaxResets = 1
    None = None
SPECIFICATION FairSpec
INVARIANT Timely
PROPERTY NeverBackwards
PROPERTY AttemptsSpaced
PROPERTY CallersAnswered
