CONSTANTS
    p1 = p1
    p2 = p2
    Pod = {p1, p2}
    NoNode = NoNode
    NoStream = NoStream
    NoGrant = NoGrant
    Card = {"rtx4090", "rtx5090", "rtxpro6000"}
    Work <- MCWork
    Demand <- MCDemand
    MinTokens = 5
    MinHours = 1
    MinSaturation = 70
    PerNode = 4
    MaxReplicas = 2
    DailyCap = 700
    Hour = 2
    IdleTtl = 2
    MaxLifetime = 3
    Budget = 2
    ReapEvery = 2
    MaxNow = 6
SPECIFICATION Spec
INVARIANTS TypeOK GivenBackInTime CapKept
SYMMETRY PodSymmetry
