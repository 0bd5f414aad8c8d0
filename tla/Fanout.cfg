CONSTANTS
    wide = wide
    narrow = narrow
    N = 10
    Squad = {wide, narrow}
    SquadOf <- MCSquadOf
    Limit <- MCLimit
    Unspawnable = {1, 6}
SPECIFICATION FairSpec
INVARIANTS WithinLimit NoIdleSlot
PROPERTIES AbortSettles SlotsInTurn
CHECK_DEADLOCK FALSE
