CONSTANTS
    p1 = p1
    p2 = p2
    u1 = u1
    r1 = r1
    r2 = r2
    NoPod = NoPod
    Pod = {p1}
    Up = {u1}
    Release = {r1, r2}
    MaxReplicas = 2
    MaxCrash = 1
SPECIFICATION FairSpec
PROPERTIES EveryStreamEnds
