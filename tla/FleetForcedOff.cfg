CONSTANTS
    fan = fan
    m1 = m1
    m2 = m2
    solo = solo
    c1 = c1
    noChassis = noChassis
    Node <- MCMixedNode
    Chassis = {c1}
    NoChassis = noChassis
    ChassisOf <- MCChassisOf
    NeverSleep = {fan}
    Flaky = {}
    Faulty = {}
SPECIFICATION Spec
INVARIANTS FansOutliveEveryMate
CHECK_DEADLOCK FALSE
