CONSTANTS
    r1 = r1
    r2 = r2
    l1 = l1
    l2 = l2
    q1 = q1
    Replicas = {r1, r2}
    Beats = {l1, l2}
    Home <- Where
    Loops = {l1, l2}
    Interval = 1
    Window = 3
    MaxLag = 1
SPECIFICATION FairSpec
PROPERTY LiveStaysListed
PROPERTY DeadDisappears
