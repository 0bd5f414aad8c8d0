CONSTANTS
    fan = fan
    m1 = m1
    m2 = m2
    solo = solo
    c1 = c1
    noChassis = noChassis
    Node <- MCChassisNode
    Chassis = {c1}
    NoChassis = noChassis
    ChassisOf <- MCChassisOf
    NeverSleep = {fan}
    Flaky = {m1}
    Faulty = {fan}
SPECIFICATION FairSpec
INVARIANTS MatesWokenUnderFans FansOutliveMates DoneMeansSettled NobodyWaitsInVain
PROPERTIES NothingFiredAfterDisconnect OrderSpec StreamEnds
CHECK_DEADLOCK FALSE
