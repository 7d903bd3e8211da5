CONSTANTS
    u1 = u1
    u2 = u2
    yield_deposit = yield_deposit
    s0 = s0
    s1 = s1
    Users = {u1, u2}
    NoRecord = NoRecord
    Awards = {a1, a2}
    e1 = e1
    Calls <- MCCalls
    Executions = {e1}
    Actions = {yield_deposit}
    Active = {yield_deposit}
    UsdValues = {1}
    Seasons = {s0, s1}
    FirstSeason = s0
    Config <- MCConfig
    NoCap = NoCap
    Deltas = {2}
    BoardSeasons = {s0}
    BoardLimit = 1
    SeasonTtl = 1
    BoardTtl = 1
    MaxDay = 1
    MaxActs = 2
SPECIFICATION FairSpec
INVARIANTS TypeOK CapHeldUnlessRaced RankAgreesWithBoard
PROPERTIES RetriesFindTheEntry CachesCatchUp
CHECK_DEADLOCK FALSE
