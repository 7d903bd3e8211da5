CONSTANTS
    u1 = u1
    Users = {u1}
    NoRecord = NoRecord
    MaxBalance = 3
    Percents = {50}
    IdleThreshold = 3
    BestTtl = 2
    NudgeCooldown = 1
    Pools <- MCPools
    MinLiquidity = 2
    MaxBusy = 2
    Overlapping = {u1, "reports"}
    MaxActs = 2
SPECIFICATION FairSpec
INVARIANTS TypeOK ReportsOncePerDay WinnerUndominated GainsExplained
PROPERTIES NudgesKeepCooldown EarningsExplained IdleUserIsNudged ReportsArrive
CHECK_DEADLOCK FALSE
