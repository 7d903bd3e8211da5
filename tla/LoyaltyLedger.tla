----------------------------- MODULE LoyaltyLedger -----------------------------
(***************************************************************************)
(* Points: LoyaltyUseCaseImpl over table loyalty_points_ledger.            *)
(*                                                                         *)
(* awardPoints is called by the capabilities without being awaited, so     *)
(* awards of one user run at the same time; every await of it is a step.   *)
(* The active season and the leaderboards are cached in Redis.  The rows   *)
(* of the ledger only matter through the sums that are queried, of a day   *)
(* and of a season, and through the unique index on intent_execution_id.   *)
(*                                                                         *)
(* Environment: who earns what, the operators of the service (seasons,     *)
(* loyalty status, adjustments), the clock, and faults of either database. *)
(***************************************************************************)
EXTENDS AgentDomain, FiniteSets, Integers, Sequences, SequencesExt

CONSTANTS Awards,       \* calls of awardPoints, each made at most once
          Calls,        \* what they are called with
          Executions,   \* values of intentExecutionId
          Actions, Active, \* action types, those that are active
          UsdValues,    \* values of usdValue, when there is one
          Seasons, FirstSeason,
          Config,       \* the config_json of each season
          NoCap,        \* a dailyUserCap of null
          Deltas,       \* amounts of adjustments
          BoardSeasons, \* seasons whose leaderboard is asked for
          BoardLimit,   \* rows of a leaderboard
          SeasonTtl, BoardTtl, \* lives of the cached season and leaderboards
          MaxDay,       \* bound: midnights
          MaxActs       \* bound: midnights and what the operators of the service do

\* usdValue and intentExecutionId may be undefined.
AwardPointsInput == [user: Users, action: Actions, usd: UsdValues \cup {NoRecord},
                     exec: Executions \cup {NoRecord}]

\* multiplier is actionMultiplier times globalMultiplier; volume is volFactor for
\* each value, in quarters.
SeasonConfig == [base: [Actions -> Nat], multiplier: [Actions -> Nat],
                 minUsd: [Actions -> Nat], volume: [UsdValues -> Nat],
                 perActionCap: Nat \ {0}, dailyUserCap: Nat \cup {NoCap}]

ASSUME CallsAssumption == Calls \subseteq AwardPointsInput
ASSUME ActiveAssumption == Active \subseteq Actions
ASSUME UsdAssumption == UsdValues \subseteq Nat
ASSUME ConfigAssumption == Config \in [Seasons -> SeasonConfig]
ASSUME FirstSeasonAssumption == FirstSeason \in Seasons /\ BoardSeasons \subseteq Seasons
ASSUME NoCapAssumption == NoCap \notin Nat
ASSUME DeltasAssumption == Deltas \subseteq Int
ASSUME TtlAssumption == SeasonTtl \in Nat \ {0} /\ BoardTtl \in Nat \ {0}
ASSUME BoundAssumption == MaxDay \in Nat /\ MaxActs \in Nat /\ BoardLimit \in Nat
ASSUME ValueAssumption ==
    NoRecord \notin UsdValues \cup Executions \cup Seasons \cup Awards

VARIABLES sum,         \* points of each user, season and day
          balance,     \* points of each user and season
          listed,      \* the users who have entries, by season
          booked,      \* executions that have an entry
          season,      \* status of the seasons
          forbidden,   \* users whose loyalty_status is forbidden
          award,       \* the calls of awardPoints
          seasonCache, \* loyalty:season:active
          boardCache,  \* loyalty:leaderboard:<season>
          reader,      \* a reader of season or board between its query and its SET
          day, acts,
          excess       \* history: points that nobody compared with the cap

ledger == <<sum, balance, listed>>
vars == <<ledger, booked, season, forbidden, award, seasonCache, boardCache, reader,
          day, acts, excess>>

Days == 0..MaxDay

Forever == 0  \* the ttl of a key that does not expire

\* A call under way.
Running == [pc: {"status", "existing", "cache", "season", "store", "compute",
                 "insert", "duplicate"},
            input: AwardPointsInput,
            season: Seasons \cup {NoRecord}, points: Nat,
            alone: BOOLEAN,   \* nothing happened to the sum since it was read
            retry: BOOLEAN]   \* the entry of its execution existed when it began

\* A call not made yet, and what the others returned (or threw, for "error").
Settled == [pc: {"idle", "entry", "null", "error"}]

Row == [user: Users, total: Int]

\* Every variable has its type: an award that runs carries what it has read so far, one
\* that is settled its answer, and only adjustments make a total negative
\* (loyaltyUseCase.ts:42-137).
TypeOK ==
    /\ sum \in [Users -> [Seasons -> [Days -> Int]]]
    /\ balance \in [Users -> [Seasons -> Int]]
    /\ listed \in [Seasons -> SUBSET Users]
    /\ booked \subseteq Executions
    /\ season \in [Seasons -> {"upcoming", "active", "ended"}]
    /\ forbidden \subseteq Users
    /\ award \in [Awards -> Running \cup Settled]
    /\ seasonCache \in [season: Seasons, ttl: 0..SeasonTtl] \cup {NoRecord}
    /\ boardCache \in [BoardSeasons -> [rows: Seq(Row), ttl: 0..BoardTtl] \cup {NoRecord}]
    /\ reader \in [season: Seasons, rows: Seq(Row) \cup {NoRecord}] \cup {NoRecord}
    /\ day \in Days
    /\ acts \in 0..MaxActs
    /\ excess \in [Users -> [Seasons -> [Days -> Nat]]]

Init ==
    /\ sum = [u \in Users |-> [s \in Seasons |-> [d \in Days |-> 0]]]
    /\ balance = [u \in Users |-> [s \in Seasons |-> 0]]
    /\ listed = [s \in Seasons |-> {}]
    /\ booked = {}
    /\ season = [s \in Seasons |-> IF s = FirstSeason THEN "active" ELSE "upcoming"]
    /\ forbidden = {}
    /\ award = [a \in Awards |-> [pc |-> "idle"]]
    /\ seasonCache = NoRecord
    /\ boardCache = [s \in BoardSeasons |-> NoRecord]
    /\ reader = NoRecord
    /\ day = 0
    /\ acts = 0
    /\ excess = [u \in Users |-> [s \in Seasons |-> [d \in Days |-> 0]]]

--------------------------------------------------------------------------------
(* pointsFormula.ts *)

\* Four times the raw points.  A value of zero counts as no value.
Raw(action, usd, config) ==
    config.base[action] * config.multiplier[action] *
        (IF usd = NoRecord \/ usd = 0 THEN 4 ELSE config.volume[usd])

AtMost(x, y) == IF x <= y THEN x ELSE y

\* min, Math.round (halves go up), and at least one point.
ComputePointsV1(action, usd, config) ==
    IF usd # NoRecord /\ usd < config.minUsd[action] THEN 0
    ELSE LET rounded == (AtMost(Raw(action, usd, config), 4 * config.perActionCap) + 2) \div 4
         IN IF rounded < 1 THEN 1 ELSE rounded

--------------------------------------------------------------------------------
(* The queries of loyalty.repo.ts *)

GetUserBalance(u, s) == balance[u][s]

\* Mutant of GetUserRank: the user is counted among those ahead.
GetUserRankCountingSelf(u, s) ==
    IF GetUserBalance(u, s) = 0 THEN NoRecord
    ELSE 1 + Cardinality({v \in listed[s] : GetUserBalance(v, s) >= GetUserBalance(u, s)})

\* All users with a higher total come first, those with the same total share the rank.
GetUserRank(u, s) ==
    IF GetUserBalance(u, s) = 0 THEN NoRecord
    ELSE 1 + Cardinality({v \in listed[s] : GetUserBalance(v, s) > GetUserBalance(u, s)})

\* Rows with the same total come in any order.
Rankings(s) ==
    {r \in SetToSeqs({[user |-> u, total |-> GetUserBalance(u, s)] : u \in listed[s]}) :
        \A i, j \in DOMAIN r : i < j => r[i].total >= r[j].total}

Leaderboards(s) == {SubSeq(r, 1, AtMost(BoardLimit, Len(r))) : r \in Rankings(s)}

\* A row of the ledger; createdAtEpoch is of the day it is inserted on.
InsertLedgerEntry(u, s, points) ==
    /\ sum' = [sum EXCEPT ![u][s][day] = @ + points]
    /\ balance' = [balance EXCEPT ![u][s] = @ + points]
    /\ listed' = [listed EXCEPT ![s] = @ \cup {u}]

IsRunning(a) == award[a] \notin Settled

\* History: whoever is about to insert has not seen this entry.
NobodyAlone(others, u, s) ==
    [a \in Awards |->
        IF a \in others /\ IsRunning(a) /\ award[a].input.user = u /\ award[a].season = s
        THEN [award[a] EXCEPT !.alone = FALSE] ELSE award[a]]

--------------------------------------------------------------------------------
(* awardPoints, await by await *)

At(a, pc) == award[a].pc = pc

Finish(a, result) == award' = [award EXCEPT ![a] = [pc |-> result]]
GoTo(a, pc) == award' = [award EXCEPT ![a].pc = pc]

\* void awardPoints(...) in a capability.
AwardPoints(a) ==
    /\ At(a, "idle")
    /\ \E input \in Calls :
          award' = [award EXCEPT ![a] =
              [pc |-> "status", input |-> input, season |-> NoRecord, points |-> 0,
               alone |-> FALSE, retry |-> input.exec \in booked]]
    /\ UNCHANGED <<ledger, booked, season, forbidden, seasonCache, boardCache,
                   reader, day, acts, excess>>

GetUserLoyaltyStatus(a) ==
    /\ At(a, "status")
    /\ IF award[a].input.user \in forbidden THEN Finish(a, "null")
       ELSE GoTo(a, IF award[a].input.exec # NoRecord THEN "existing" ELSE "cache")
    /\ UNCHANGED <<ledger, booked, season, forbidden, seasonCache, boardCache,
                   reader, day, acts, excess>>

\* Mutant of FindExisting: duplicates are left to the unique index.
FindExistingSkipped(a) ==
    /\ At(a, "existing")
    /\ GoTo(a, "cache")
    /\ UNCHANGED <<ledger, booked, season, forbidden, seasonCache, boardCache,
                   reader, day, acts, excess>>

\* The check before anything else ...
FindExisting(a) ==
    /\ At(a, "existing")
    /\ IF award[a].input.exec \in booked THEN Finish(a, "entry") ELSE GoTo(a, "cache")
    /\ UNCHANGED <<ledger, booked, season, forbidden, seasonCache, boardCache,
                   reader, day, acts, excess>>

ReadSeasonCache(a) ==
    /\ At(a, "cache")
    /\ award' = [award EXCEPT
          ![a].pc = IF seasonCache = NoRecord THEN "season" ELSE "compute",
          ![a].season = IF seasonCache = NoRecord THEN NoRecord ELSE seasonCache.season]
    /\ UNCHANGED <<ledger, booked, season, forbidden, seasonCache, boardCache,
                   reader, day, acts, excess>>

GetActiveSeason(a) ==
    /\ At(a, "season")
    /\ \/ \E s \in Seasons : /\ season[s] = "active"
                             /\ award' = [award EXCEPT ![a].pc = "store", ![a].season = s]
       \/ /\ \A s \in Seasons : season[s] # "active"
          /\ Finish(a, "null")
    /\ UNCHANGED <<ledger, booked, season, forbidden, seasonCache, boardCache,
                   reader, day, acts, excess>>

\* Mutant of StoreSeason: EX for PX, milliseconds taken for seconds.
StoreSeasonInSeconds(s) == seasonCache' = [season |-> s, ttl |-> 1000 * SeasonTtl]

\* Mutant of StoreSeason: SET without PX.
StoreSeasonForGood(s) == seasonCache' = [season |-> s, ttl |-> Forever]

\* SET loyalty:season:active ... PX; a SET replaces value and life.
StoreSeason(s) == seasonCache' = [season |-> s, ttl |-> SeasonTtl]

SetSeasonCache(a) ==
    /\ At(a, "store")
    /\ StoreSeason(award[a].season)
    /\ GoTo(a, "compute")
    /\ UNCHANGED <<ledger, booked, season, forbidden, boardCache, reader, day,
                   acts, excess>>

\* Mutant of Clamp: an award may exceed what is left of the cap.
Unclamped(points, remaining) == points

Clamp(points, remaining) == AtMost(points, remaining)

\* getActionType, the formula, getSumPointsToday and what is left of the cap.
ComputePoints(a) ==
    /\ At(a, "compute")
    /\ LET input == award[a].input
           config == Config[award[a].season]
           points == ComputePointsV1(input.action, input.usd, config)
           remaining == config.dailyUserCap - sum[input.user][award[a].season][day]
           toInsert == [award[a] EXCEPT !.pc = "insert"]
       IN \/ /\ \/ input.action \notin Active
                \/ points = 0
                \/ config.dailyUserCap # NoCap /\ remaining <= 0
             /\ Finish(a, "null")
          \/ /\ input.action \in Active /\ points > 0 /\ config.dailyUserCap = NoCap
             /\ award' = [award EXCEPT ![a] = [toInsert EXCEPT !.points = points]]
          \/ /\ input.action \in Active /\ points > 0
             /\ config.dailyUserCap # NoCap /\ remaining > 0
             /\ award' = [award EXCEPT ![a] =
                   [toInsert EXCEPT !.alone = TRUE, !.points = Clamp(points, remaining)]]
    /\ UNCHANGED <<ledger, booked, season, forbidden, seasonCache, boardCache,
                   reader, day, acts, excess>>

Taken(a) == award[a].input.exec \in booked

\* What a committed INSERT changes, and how the call goes on.
Booked(a, result) ==
    LET u == award[a].input.user
        s == award[a].season
    IN /\ InsertLedgerEntry(u, s, award[a].points)
       /\ booked' = booked \cup ({award[a].input.exec} \ {NoRecord})
       /\ award' = [NobodyAlone(Awards \ {a}, u, s) EXCEPT ![a] = [pc |-> result]]
       /\ excess' = IF award[a].alone THEN excess
                    ELSE [excess EXCEPT ![u][s][day] = @ + award[a].points]

\* ... and the unique index for those that passed the check together.
InsertEntry(a) ==
    /\ At(a, "insert")
    /\ \/ /\ ~Taken(a)
          /\ Booked(a, "entry")
       \/ /\ Taken(a)
          /\ GoTo(a, "duplicate")
          /\ UNCHANGED <<ledger, booked, excess>>
    /\ UNCHANGED <<season, forbidden, seasonCache, boardCache, reader, day, acts>>

FindDuplicate(a) ==
    /\ At(a, "duplicate")
    /\ Finish(a, IF Taken(a) THEN "entry" ELSE "error")
    /\ UNCHANGED <<ledger, booked, season, forbidden, seasonCache, boardCache,
                   reader, day, acts, excess>>

\* Any await may throw: the award is given up.  The INSERT may be committed all the
\* same, when only its answer is lost.
AwardFails(a) ==
    /\ IsRunning(a)
    /\ \/ /\ Finish(a, "error")
          /\ UNCHANGED <<ledger, booked, excess>>
       \/ /\ At(a, "insert") /\ ~Taken(a)
          /\ Booked(a, "error")
    /\ UNCHANGED <<season, forbidden, seasonCache, boardCache, reader, day, acts>>

--------------------------------------------------------------------------------
(* The other callers *)

Act == acts < MaxActs /\ acts' = acts + 1

\* adjustPoints compares nothing with the cap.
AdjustPoints(u, s, delta) ==
    /\ Act
    /\ InsertLedgerEntry(u, s, delta)
    /\ award' = NobodyAlone(Awards, u, s)
    /\ excess' = IF delta <= 0 THEN excess ELSE [excess EXCEPT ![u][s][day] = @ + delta]
    /\ UNCHANGED <<booked, season, forbidden, seasonCache, boardCache, reader, day>>

\* getActiveSeason for a balance, a history or a leaderboard, on a miss.
QuerySeason ==
    /\ reader = NoRecord /\ seasonCache = NoRecord
    /\ \E s \in Seasons : /\ season[s] = "active"
                          /\ reader' = [season |-> s, rows |-> NoRecord]
    /\ UNCHANGED <<ledger, booked, season, forbidden, award, seasonCache,
                   boardCache, day, acts, excess>>

\* getLeaderboard, on a miss.
QueryLeaderboard(s) ==
    /\ reader = NoRecord /\ boardCache[s] = NoRecord
    /\ \E rows \in Leaderboards(s) : reader' = [season |-> s, rows |-> rows]
    /\ UNCHANGED <<ledger, booked, season, forbidden, award, seasonCache,
                   boardCache, day, acts, excess>>

SetReadersCache ==
    /\ reader # NoRecord
    /\ reader' = NoRecord
    /\ \/ /\ reader.rows = NoRecord
          /\ StoreSeason(reader.season)
          /\ UNCHANGED boardCache
       \/ /\ reader.rows # NoRecord
          /\ boardCache' = [boardCache EXCEPT ![reader.season] =
                               [rows |-> reader.rows, ttl |-> BoardTtl]]
          /\ UNCHANGED seasonCache
    /\ UNCHANGED <<ledger, booked, season, forbidden, award, day, acts, excess>>

--------------------------------------------------------------------------------
(* The operators of the service and the clock *)

ChangeSeason(s) ==
    /\ Act
    /\ season' = [season EXCEPT ![s] = IF @ = "upcoming" THEN "active" ELSE "ended"]
    /\ season[s] # "ended"
    /\ season[s] = "upcoming" => \A t \in Seasons : season[t] # "active"
    /\ UNCHANGED <<ledger, booked, forbidden, award, seasonCache, boardCache,
                   reader, day, excess>>

Forbid(u) ==
    /\ Act
    /\ u \notin forbidden
    /\ forbidden' = forbidden \cup {u}
    /\ UNCHANGED <<ledger, booked, season, award, seasonCache, boardCache, reader,
                   day, excess>>

Aged(entry) == IF entry = NoRecord \/ entry.ttl = 1 THEN NoRecord
               ELSE IF entry.ttl = Forever THEN entry ELSE [entry EXCEPT !.ttl = @ - 1]

Tick ==
    /\ seasonCache # NoRecord \/ \E s \in BoardSeasons : boardCache[s] # NoRecord
    /\ seasonCache' = Aged(seasonCache)
    /\ boardCache' = [s \in BoardSeasons |-> Aged(boardCache[s])]
    /\ UNCHANGED <<ledger, booked, season, forbidden, award, reader, day, acts,
                   excess>>

\* History: a sum read yesterday is not the sum of today.
Midnight ==
    /\ Act
    /\ day < MaxDay
    /\ day' = day + 1
    /\ award' = [a \in Awards |-> IF At(a, "insert") THEN [award[a] EXCEPT !.alone = FALSE]
                                  ELSE award[a]]
    /\ UNCHANGED <<ledger, booked, season, forbidden, seasonCache, boardCache,
                   reader, excess>>

Next ==
    \/ \E a \in Awards :
          \/ AwardPoints(a) \/ GetUserLoyaltyStatus(a) \/ FindExisting(a)
          \/ ReadSeasonCache(a) \/ GetActiveSeason(a) \/ SetSeasonCache(a)
          \/ ComputePoints(a) \/ InsertEntry(a) \/ FindDuplicate(a)
          \/ AwardFails(a)
    \/ \E u \in Users : Forbid(u) \/ \E s \in Seasons, d \in Deltas : AdjustPoints(u, s, d)
    \/ \E s \in BoardSeasons : QueryLeaderboard(s)
    \/ \E s \in Seasons : ChangeSeason(s)
    \/ QuerySeason \/ SetReadersCache \/ Tick \/ Midnight

Spec == Init /\ [][Next]_vars

\* Redis expires its keys; nobody else has to do anything.
FairSpec == Spec /\ WF_vars(Tick)

--------------------------------------------------------------------------------
(***************************************************************************)
(* The daily cap: what a user earns on a day exceeds it only by entries    *)
(* that nobody compared with it, which are the adjustments and the awards  *)
(* that had another entry or midnight come between their sum and their     *)
(* insert.  loyaltyUseCase.ts:92-109                                       *)
(***************************************************************************)
CapHeldUnlessRaced ==
    \A u \in Users, s \in Seasons, d \in Days :
        Config[s].dailyUserCap # NoCap =>
            sum[u][s][d] <= Config[s].dailyUserCap + excess[u][s][d]

(***************************************************************************)
(* An award that is repeated for an execution whose entry exists is        *)
(* answered with that entry, whatever became of the season and the cap     *)
(* since; and of awards that race for one execution, one books it and the  *)
(* others find its entry.  Only a forbidden user or a fault may answer     *)
(* otherwise.  loyaltyUseCase.ts:55-61 and 126-135                         *)
(***************************************************************************)
RetriesFindTheEntry ==
    [][\A a \in Awards :
         /\ (IsRunning(a) /\ award[a].retry /\ award'[a].pc = "null")
                => award[a].input.user \in forbidden
         /\ At(a, "duplicate") => Taken(a)]_vars

(***************************************************************************)
(* The rank shown with a balance is the position on the leaderboard of     *)
(* the first user with the same total, though the two are computed by      *)
(* different queries.  loyalty.repo.ts:116-154                             *)
(***************************************************************************)
RankAgreesWithBoard ==
    \A s \in Seasons : \A r \in Rankings(s) : \A i \in DOMAIN r :
        LET rank == GetUserRank(r[i].user, s)
        IN rank # NoRecord =>
              /\ rank \in 1..i
              /\ r[rank].total = r[i].total
              /\ rank > 1 => r[rank - 1].total > r[i].total

(***************************************************************************)
(* When the ledger and the seasons stop changing, what the caches hold is  *)
(* what the tables hold: a reader that stores what it read long ago delays *)
(* that, and nothing prevents it.  loyaltyUseCase.ts:195-199 and 231-233   *)
(***************************************************************************)
CachesCatchUp ==
    <>[]/\ seasonCache # NoRecord => season[seasonCache.season] = "active"
        /\ \A s \in BoardSeasons : boardCache[s] # NoRecord => boardCache[s].rows \in Leaderboards(s)
================================================================================
