------------------------------- MODULE YieldJobs -------------------------------
(***************************************************************************)
(* Idle balances, nudges, deposits and daily reports: YieldOptimizerUseCase *)
(* and the jobs that call it.                                              *)
(*                                                                         *)
(* Each job is a timer that starts a run whether the last one has ended or *)
(* not; the worker's bot loop runs one deposit or withdrawal at a time.    *)
(* Every await is a step.  There is one chain, one protocol and one        *)
(* stablecoin, as in CHAIN_REGISTRY.  Balances are whole numbers and move  *)
(* only by deposits, withdrawals and top-ups.                              *)
(*                                                                         *)
(* A day has two periods, the hour of the reports and the rest; the scans  *)
(* fire in each, and a key lives until the end of its last period.         *)
(***************************************************************************)
EXTENDS AgentDomain, FiniteSets, Integers, Sequences

CONSTANTS MaxBalance,   \* what a user owns at most
          Percents,     \* shares that are deposited
          IdleThreshold,
          BestTtl, NudgeCooldown, \* lives in periods
          Pools,        \* inputs of the ranker: sequences of pools
          MinLiquidity, \* MIN_LIQUIDITY_USD
          MaxBusy,      \* bound: runs at the same time
          Overlapping,  \* bound: jobs of which two runs overlap
          MaxActs       \* bound: what users do, ticks that come early or while a run of
                        \* the job is under way, and calls that fail

ASSUME NamesAssumption == Users \cap {"pools", "reports", "flow", "view", NoRecord} = {}
ASSUME BalanceAssumption == MaxBalance \in Nat /\ IdleThreshold \in Nat \ {0}
ASSUME PercentAssumption == Percents \subseteq 1..100
ASSUME TtlAssumption == BestTtl \in Nat \ {0} /\ NudgeCooldown \in Nat \ {0}
ASSUME BoundAssumption == MaxBusy \in Nat /\ MaxActs \in Nat

\* PoolStatus, with the rates of the last scans; rates are not negative.
Pool == [liquidity: Int, utilized: BOOLEAN, apy: Nat, history: Seq(Nat)]

ASSUME PoolsAssumption ==
    /\ Pools \subseteq Seq(Pool)
    /\ MinLiquidity \in Int /\ NoRecord \notin Nat  \* a pool is named by its place

VARIABLES idle, pos,    \* the user's stablecoins in the wallet and in the pool
          session,      \* telegram_sessions: "live", "expired" or "none"
          best,         \* the periods yield:best has left
          cooldown, nudgePending, \* the periods these keys of a user have left
          reportDone,   \* the dates with a key yield:report_done
          snaps,        \* yield_position_snapshots: the balance of two dates
          known,        \* the users with a snapshot of the last 30 days
          task,         \* the runs
          period, fired, acts,
          quiet,        \* history: periods in which no nudge is expected
          reported,     \* history: today's reports of the runs of today
          disturbed,    \* history: runs of today overlapped, or one broke off
          moved,        \* history: users whose position moved today
          unseen        \* history: dates whose snapshot was not brought up to date

world == <<idle, pos, session>>
nudgeKeys == <<cooldown, nudgePending>>
rows == <<snaps, known>>
clock == <<period, fired, acts>>
reportHistory == <<reported, disturbed>>
moveHistory == <<moved, unseen>>

vars == <<world, nudgeKeys, best, reportDone, rows, task, clock, quiet,
          reportHistory, moveHistory>>

Jobs == {"pools", "reports"} \cup Users  \* the idle scan of each user
Flow == <<"flow", 1>>                    \* the bot loop's deposit or withdrawal
View == <<"view", 1>>                    \* a request of GET /yield/positions
Slots == (Jobs \X {1, 2}) \cup {Flow, View}
Dates == {"today", "yesterday"}
Balance == 0..MaxBalance
Ttl == 0..(BestTtl + NudgeCooldown)

\* late: the run has seen a period end.
NoTask == [pc |-> "idle"]
PoolScan == [pc: {"scan"}, late: BOOLEAN]
IdleScan == [pc: {"cooldown", "pending", "balance", "best", "send", "setCooldown",
                  "setPending"},
             late: BOOLEAN, alone: BOOLEAN]
Report == [pc: {"done", "users", "build", "snapshots", "upsert", "send", "finish"},
           late: BOOLEAN,
           today: BOOLEAN,  \* the date of the run is today's
           todo: SUBSET Users, user: Users \cup {NoRecord},
           balance: Balance, delta: Int,
           fresh: BOOLEAN]  \* the position has not moved since it was read
Capability == [pc: {"plan", "sign", "discover", "upsert", "signAll"},
               late: BOOLEAN, user: Users, amount: Balance]
Positions == [pc: {"snapshots"}, late: BOOLEAN, user: Users, balance: Balance, fresh: BOOLEAN]

Job(s) == s[1]
At(s, pc) == task[s].pc = pc
Busy == {s \in Slots : ~At(s, "idle")}

\* Every variable has its type, and a run carries what its job needs at the step it has
\* reached (userIdleScanJob.ts, yieldReportJob.ts, yieldPoolScanJob.ts).
TypeOK ==
    /\ idle \in [Users -> Balance] /\ pos \in [Users -> Balance]
    /\ session \in [Users -> {"live", "expired", "none"}]
    /\ best \in 0..BestTtl
    /\ cooldown \in [Users -> Ttl] /\ nudgePending \in [Users -> Ttl]
    /\ reportDone \subseteq Dates
    /\ snaps \in [Users -> [Dates -> Balance \cup {NoRecord}]]
    /\ known \subseteq Users
    /\ \A s \in Slots : \/ task[s] = NoTask
                        \/ Job(s) = "pools" /\ task[s] \in PoolScan
                        \/ Job(s) \in Users /\ task[s] \in IdleScan
                        \/ Job(s) = "reports" /\ task[s] \in Report
                        \/ s = Flow /\ task[s] \in Capability
                        \/ s = View /\ task[s] \in Positions
    /\ Cardinality(Busy) <= MaxBusy
    /\ period \in {"report", "rest"} /\ fired \subseteq Jobs
    /\ acts \in 0..MaxActs
    /\ quiet \in [Users -> 0..NudgeCooldown]
    /\ reported \in [Users -> Nat] /\ disturbed \in BOOLEAN
    /\ moved \subseteq Users
    /\ unseen \in [Users -> SUBSET Dates]

Init ==
    /\ idle = [u \in Users |-> MaxBalance] /\ pos = [u \in Users |-> 0]
    /\ session = [u \in Users |-> "live"]
    /\ best = 0
    /\ cooldown = [u \in Users |-> 0] /\ nudgePending = [u \in Users |-> 0]
    /\ reportDone = {}
    /\ snaps = [u \in Users |-> [d \in Dates |-> NoRecord]]
    /\ known = {}
    /\ task = [s \in Slots |-> NoTask]
    /\ period = "rest" /\ fired = {} /\ acts = 0
    /\ quiet = [u \in Users |-> 0]
    /\ reported = [u \in Users |-> 0] /\ disturbed = FALSE
    /\ moved = {}
    /\ unseen = [u \in Users |-> {}]

--------------------------------------------------------------------------------
(* yieldPoolRanker.ts.  Scores are rationals <<numerator, denominator>>. *)

HistorySum(pool) ==
    LET sum[n \in 0..Len(pool.history)] == IF n = 0 THEN 0 ELSE sum[n - 1] + pool.history[n]
    IN sum[Len(pool.history)]

\* 0.7 times the mean of the history, or of the APY itself, and 0.3 times the APY.
ComputeScore(pool) ==
    LET n == Len(pool.history)
        ema == IF n = 0 THEN <<pool.apy, 1>> ELSE <<HistorySum(pool), n>>
    IN <<7 * ema[1] + 3 * pool.apy * ema[2], 10 * ema[2]>>

\* Mutant of Score: what is scarce is paid better.
ScoreScarcity(pool) ==
    LET s == ComputeScore(pool) IN IF pool.utilized THEN <<2 * s[1], s[2]>> ELSE s

\* A utilization above HIGH_UTILIZATION_THRESHOLD halves the score.
Score(pool) ==
    LET s == ComputeScore(pool) IN IF pool.utilized THEN <<s[1], 2 * s[2]>> ELSE s

More(s, t) == s[1] * t[2] > t[1] * s[2]

Ranked(pools) == {i \in DOMAIN pools : pools[i].liquidity >= MinLiquidity}

\* rank(...)[0]: a stable sort by falling score.
Winner(pools) ==
    IF Ranked(pools) = {} THEN NoRecord
    ELSE CHOOSE i \in Ranked(pools) : \A j \in Ranked(pools) :
            /\ ~More(Score(pools[j]), Score(pools[i]))
            /\ More(Score(pools[i]), Score(pools[j])) \/ i <= j

--------------------------------------------------------------------------------
(* Starting, ending and failing *)

GoTo(s, pc) == task' = [task EXCEPT ![s].pc = pc]
End(s) == task' = [task EXCEPT ![s] = NoTask]
Continue(s, condition, pc) == IF condition THEN GoTo(s, pc) ELSE End(s)

Act == acts < MaxActs /\ acts' = acts + 1

ListActiveUserIds == {u \in Users : session[u] = "live"}
FindByUserId(u) == session[u] # "none"  \* an expired session has a chat, too

\* A report tick outside the hour and an idle scan without a live session do nothing.
Due(j) == CASE j = "reports" -> period = "report"
            [] j \in Users -> j \in ListActiveUserIds
            [] OTHER -> TRUE

FirstStep(j, overlaps) ==
    CASE j = "pools" -> [pc |-> "scan", late |-> FALSE]
      [] j = "reports" -> [pc |-> "done", late |-> FALSE, today |-> TRUE, todo |-> {},
                           user |-> NoRecord, balance |-> 0, delta |-> 0, fresh |-> TRUE]
      [] OTHER -> [pc |-> "cooldown", late |-> FALSE, alone |-> ~overlaps]

\* setInterval and start(): once per period, and sometimes while a run is under way or
\* again soon after a restart.
StartJob(j, k) ==
    LET s == <<j, k>>
        overlaps == k = 2
    IN /\ Due(j)
       /\ At(s, "idle")
       /\ overlaps => j \in Overlapping /\ ~At(<<j, 1>>, "idle")
       /\ IF j \in fired \/ overlaps THEN Act ELSE UNCHANGED acts
       /\ Cardinality(Busy) < MaxBusy
       /\ fired' = fired \cup {j}
       /\ task' = [task EXCEPT
             ![s] = FirstStep(j, overlaps \/ ~At(<<j, 3 - k>>, "idle")),
             ![<<j, 3 - k>>] = IF j \in Users /\ @ # NoTask THEN [@ EXCEPT !.alone = FALSE] ELSE @]
       /\ disturbed' = (disturbed \/ (j = "reports" /\ ~At(<<j, 3 - k>>, "idle")))
       /\ UNCHANGED <<world, nudgeKeys, best, reportDone, rows, period,
                      quiet, reported, moveHistory>>

\* History: the nudge is out, and its cooldown is to be expected.
Nudged(u) == quiet' = [quiet EXCEPT ![u] = NudgeCooldown]

\* The call of a step throws, or the worker restarts.  maybeRunReports catches what
\* happens to one user.  History: after a nudge without its key, another is expected.
Fault(s) ==
    /\ Act
    /\ ~At(s, "idle")
    /\ \/ /\ End(s)
          /\ disturbed' = (disturbed \/ (Job(s) = "reports" /\ task[s].today))
       \/ /\ Job(s) = "reports" /\ task[s].user # NoRecord
          /\ task' = [task EXCEPT ![s].pc = "build", ![s].user = NoRecord]
          /\ UNCHANGED disturbed
    /\ quiet' = IF Job(s) \in Users /\ At(s, "setCooldown")
                THEN [quiet EXCEPT ![Job(s)] = 0] ELSE quiet
    /\ unseen' = IF s = Flow /\ task[s].pc \in {"discover", "upsert"}
                 THEN [unseen EXCEPT ![task[s].user] = @ \cup {"today"}] ELSE unseen
    /\ UNCHANGED <<world, nudgeKeys, best, reportDone, rows, period, fired,
                   reported, moved>>

--------------------------------------------------------------------------------
(* runPoolScan *)

\* What getPoolStatus may say of the one pool.  The series of its rates, which is read,
\* pushed and trimmed here, decides nothing while there is one.
PoolStatuses == [liquidity: {MinLiquidity - 1, MinLiquidity}, utilized: {FALSE}, apy: {1},
                 history: {<<>>}]

\* Mutant of StoreBest: PX, as elsewhere, with seconds.
StoreBestInSeconds == best' = 3600 * BestTtl

StoreBest == best' = BestTtl

\* Reads and SET in one step: no other run looks at what it reads.  Without a winner
\* the last one stays.
RunPoolScan(s) ==
    /\ Job(s) = "pools" /\ At(s, "scan")
    /\ \E status \in PoolStatuses :
          IF Winner(<<status>>) # NoRecord THEN StoreBest ELSE UNCHANGED best
    /\ End(s)
    /\ UNCHANGED <<world, nudgeKeys, reportDone, rows, clock, quiet, reportHistory,
                   moveHistory>>

--------------------------------------------------------------------------------
(* scanIdleForUser, in a slot of its user *)

CheckCooldown(s) ==
    /\ Job(s) \in Users /\ At(s, "cooldown")
    /\ Continue(s, cooldown[Job(s)] = 0, "pending")
    /\ UNCHANGED <<world, nudgeKeys, best, reportDone, rows, clock, quiet,
                   reportHistory, moveHistory>>

\* Then the profile, which has had an account and a chat since the session began.
CheckPending(s) ==
    /\ Job(s) \in Users /\ At(s, "pending")
    /\ Continue(s, nudgePending[Job(s)] = 0, "balance")
    /\ UNCHANGED <<world, nudgeKeys, best, reportDone, rows, clock, quiet,
                   reportHistory, moveHistory>>

CheckBalance(s) ==
    /\ Job(s) \in Users /\ At(s, "balance")
    /\ Continue(s, idle[Job(s)] >= IdleThreshold, "best")
    /\ UNCHANGED <<world, nudgeKeys, best, reportDone, rows, clock, quiet,
                   reportHistory, moveHistory>>

CheckBest(s) ==
    /\ Job(s) \in Users /\ At(s, "best")
    /\ Continue(s, best # 0, "send")
    /\ UNCHANGED <<world, nudgeKeys, best, reportDone, rows, clock, quiet,
                   reportHistory, moveHistory>>

SendNudge(s) ==
    /\ Job(s) \in Users /\ At(s, "send")
    /\ Nudged(Job(s))
    /\ GoTo(s, "setCooldown")
    /\ UNCHANGED <<world, nudgeKeys, best, reportDone, rows, clock,
                   reportHistory, moveHistory>>

Forever == BestTtl + NudgeCooldown  \* stands for a key that does not expire

\* Mutant of CooldownSet: SET without EX.
CooldownForGood(u) == cooldown' = [cooldown EXCEPT ![u] = Forever]

\* Mutant of CooldownSet: the pending nudge is thought to be enough.
CooldownMissing(u) == UNCHANGED cooldown

CooldownSet(u) == cooldown' = [cooldown EXCEPT ![u] = NudgeCooldown]

SetCooldown(s) ==
    /\ Job(s) \in Users /\ At(s, "setCooldown")
    /\ CooldownSet(Job(s))
    /\ GoTo(s, "setPending")
    /\ UNCHANGED <<world, nudgePending, best, reportDone, rows, clock, quiet,
                   reportHistory, moveHistory>>

SetPending(s) ==
    /\ Job(s) \in Users /\ At(s, "setPending")
    /\ nudgePending' = [nudgePending EXCEPT ![Job(s)] = NudgeCooldown]
    /\ End(s)
    /\ UNCHANGED <<world, cooldown, best, reportDone, rows, clock, quiet,
                   reportHistory, moveHistory>>

--------------------------------------------------------------------------------
(* upsertSnapshot, one row per user, position and date *)

\* Mutant of UpsertSnapshot: DO NOTHING on a conflict.
InsertSnapshot(u, balance) ==
    /\ snaps' = [snaps EXCEPT ![u]["today"] = IF @ = NoRecord THEN balance ELSE @]
    /\ known' = known \cup {u}

UpsertSnapshot(u, balance) ==
    /\ snaps' = [snaps EXCEPT ![u]["today"] = balance]
    /\ known' = known \cup {u}

\* History: whether today's snapshot is now what the pool holds.
Seen(u, fresh) ==
    unseen' = [unseen EXCEPT ![u] = IF fresh THEN @ \ {"today"} ELSE @ \cup {"today"}]

--------------------------------------------------------------------------------
(* maybeRunReports and buildDailyReport *)

\* Mutant of ListUsersWithRecentSnapshots: the users that have a snapshot of today.
ListUsersOfToday(all) == {u \in all : snaps[u]["today"] # NoRecord}

ListUsersWithRecentSnapshots(all) == all \cap known

Date(s) == IF task[s].today THEN "today" ELSE "yesterday"

\* When the answer is there, the date is read again.
CheckDone(s) ==
    /\ Job(s) = "reports" /\ At(s, "done")
    /\ \/ Date(s) \in reportDone /\ End(s)
       \/ /\ Date(s) \notin reportDone
          /\ task' = [task EXCEPT ![s].pc = "users", ![s].today = TRUE]
    /\ UNCHANGED <<world, nudgeKeys, best, reportDone, rows, clock, quiet,
                   reportHistory, moveHistory>>

\* At midnight the answer may have been there or not; the run may still become today's.
ListUsers(s) ==
    /\ Job(s) = "reports" /\ At(s, "users")
    /\ \E today \in {task[s].today, TRUE} :
          /\ task' = [task EXCEPT ![s].pc = "build", ![s].today = today,
                                  ![s].todo = ListUsersWithRecentSnapshots(Users)]
          /\ disturbed' = (disturbed \/ (today /\ \E t \in Slots \ {s} :
                                            Job(t) = "reports" /\ ~At(t, "idle")))
    /\ UNCHANGED <<world, nudgeKeys, best, reportDone, rows, clock, quiet,
                   reported, moveHistory>>

GetUserPosition(u) == pos[u]  \* getUserPosition; none is 0

\* discover: a probe that throws finds no position.
ProbeFails == Act

\* The next user's position, in the order of the rows; without one there is no report.
Discover(s) ==
    /\ Job(s) = "reports" /\ At(s, "build")
    /\ \/ \E u \in task[s].todo :
            LET rest == [task[s] EXCEPT !.todo = @ \ {u}]
            IN \/ /\ GetUserPosition(u) # 0
                  /\ task' = [task EXCEPT ![s] = [rest EXCEPT !.pc = "snapshots", !.user = u,
                                     !.balance = GetUserPosition(u), !.fresh = TRUE]]
                  /\ UNCHANGED acts
               \/ /\ \/ GetUserPosition(u) = 0 /\ UNCHANGED acts
                     \/ GetUserPosition(u) # 0 /\ ProbeFails
                  /\ task' = [task EXCEPT ![s] = rest]
       \/ /\ task[s].todo = {}
          /\ GoTo(s, "finish")
          /\ UNCHANGED acts
    /\ UNCHANGED <<world, nudgeKeys, best, reportDone, rows, period, fired,
                   quiet, reportHistory, moveHistory>>

ListSnapshots(u) == snaps[u]

\* Without a snapshot of yesterday the whole balance is new.
Delta24h(u, balance) ==
    balance - (IF ListSnapshots(u).yesterday = NoRecord THEN 0 ELSE ListSnapshots(u).yesterday)

\* listSnapshots and the delta, and getPrincipalRaw, which does not bear on it.
ReadSnapshots(s) ==
    /\ Job(s) = "reports" /\ At(s, "snapshots")
    /\ task' = [task EXCEPT ![s].pc = "upsert",
                            ![s].delta = Delta24h(task[s].user, task[s].balance)]
    /\ UNCHANGED <<world, nudgeKeys, best, reportDone, rows, clock, quiet,
                   reportHistory, moveHistory>>

UpsertReported(s) ==
    /\ Job(s) = "reports" /\ At(s, "upsert")
    /\ UpsertSnapshot(task[s].user, task[s].balance)
    /\ Seen(task[s].user, task[s].fresh)
    /\ GoTo(s, "send")
    /\ UNCHANGED <<world, nudgeKeys, best, reportDone, clock, quiet,
                   reportHistory, moved>>

\* What is left of the record of a user the loop is done with.
NextUser(s) == [task[s] EXCEPT !.pc = "build", !.user = NoRecord, !.balance = 0,
                               !.delta = 0, !.fresh = TRUE]

\* getChatId and the message.
SendReport(s) ==
    /\ Job(s) = "reports" /\ At(s, "send")
    /\ task' = [task EXCEPT ![s] = NextUser(s)]
    /\ reported' = IF task[s].today /\ FindByUserId(task[s].user) THEN [reported EXCEPT ![task[s].user] = @ + 1] ELSE reported
    /\ UNCHANGED <<world, nudgeKeys, best, reportDone, rows, clock, quiet,
                   disturbed, moveHistory>>

\* Mutant of SetReportDone: the test of intervalMode the wrong way round.
SetReportDoneInIntervalMode(date) == UNCHANGED reportDone

\* SET yield:report_done
SetReportDone(date) == reportDone' = reportDone \cup {date}

FinishReports(s) ==
    /\ Job(s) = "reports" /\ At(s, "finish")
    /\ SetReportDone(Date(s))
    /\ End(s)
    /\ UNCHANGED <<world, nudgeKeys, best, rows, clock, quiet, reportHistory,
                   moveHistory>>

--------------------------------------------------------------------------------
(* getPositions, for GET /yield/positions *)

\* Without a position it ends here.
DiscoverPositions(u) ==
    /\ At(View, "idle") /\ GetUserPosition(u) # 0
    /\ Cardinality(Busy) < MaxBusy
    /\ task' = [task EXCEPT ![View] = [pc |-> "snapshots", late |-> FALSE, user |-> u,
                                      balance |-> GetUserPosition(u), fresh |-> TRUE]]
    /\ UNCHANGED <<world, nudgeKeys, best, reportDone, rows, clock, quiet,
                   reportHistory, moveHistory>>

\* Mutant of Gain24h: no snapshot counts as 0, as in a report.
Gain24hOfNothing(u, balance) == Delta24h(u, balance)

\* The 24 hours' gain that is shown; without a snapshot it is 0.
Gain24h(u, balance) ==
    IF ListSnapshots(u).yesterday = NoRecord THEN 0 ELSE balance - ListSnapshots(u).yesterday

\* listSnapshots, then the answer, with Gain24h.
ShowPositions ==
    /\ At(View, "snapshots")
    /\ End(View)
    /\ UNCHANGED <<world, nudgeKeys, best, reportDone, rows, clock, quiet,
                   reportHistory, moveHistory>>

--------------------------------------------------------------------------------
(* YieldCapability.run: deposits and withdrawals *)

StartCapability(u, pc, amount) ==
    /\ At(Flow, "idle")
    /\ session[u] = "live"
    /\ Act
    /\ Cardinality(Busy) < MaxBusy
    /\ task' = [task EXCEPT ![Flow] = [pc |-> pc, late |-> FALSE, user |-> u, amount |-> amount]]
    /\ UNCHANGED <<world, nudgeKeys, best, reportDone, rows, period, fired,
                   quiet, reportHistory, moveHistory>>

Me == task[Flow].user

\* buildDepositPlan: the balance and the share, rounded down; nothing comes of nothing.
BuildDepositPlan(u) ==
    \E pct \in Percents : LET amount == (idle[u] * pct) \div 100
                          IN amount # 0 /\ StartCapability(u, "plan", amount)

\* The best pool; the steps; then DEL yield:nudge_pending, whatever becomes of the deposit.
PlanDeposit ==
    /\ At(Flow, "plan")
    /\ Continue(Flow, best # 0, "sign")
    /\ nudgePending' = IF best # 0 THEN [nudgePending EXCEPT ![Me] = 0] ELSE nudgePending
    /\ UNCHANGED <<world, cooldown, best, reportDone, rows, clock, quiet,
                   reportHistory, moveHistory>>

\* buildWithdrawAllPlan
BuildWithdrawAllPlan(u) == GetUserPosition(u) # 0 /\ StartCapability(u, "signAll", 0)

\* The chain executes a transaction: what a report read of the position is old.
Execute(u, amount, answered, nextTask) ==
    /\ idle' = [idle EXCEPT ![u] = @ - amount]
    /\ pos' = [pos EXCEPT ![u] = @ + amount]
    /\ moved' = moved \cup {u}
    /\ unseen' = IF answered THEN unseen ELSE [unseen EXCEPT ![u] = @ \cup {"today"}]
    /\ task' = [s \in Slots |->
          IF s = Flow THEN nextTask
          ELSE IF Job(s) \in {"reports", "view"} /\ ~At(s, "idle") /\ task[s].user = u
               THEN [task[s] EXCEPT !.fresh = FALSE] ELSE task[s]]
    /\ UNCHANGED <<session, nudgeKeys, best, reportDone, rows, clock,
                   quiet, reportHistory>>

\* Rejected, timed out, or reverted for want of the balance.
GiveUp ==
    /\ task[Flow].pc \in {"sign", "signAll"}
    /\ End(Flow)
    /\ UNCHANGED <<world, nudgeKeys, best, reportDone, rows, clock, quiet,
                   reportHistory, moveHistory>>

\* executeSignSteps.  A deposit that is signed as its deadline passes is executed and
\* reported as timed out.
Deposit(answered) ==
    /\ At(Flow, "sign")
    /\ idle[Me] >= task[Flow].amount
    /\ Execute(Me, task[Flow].amount, answered,
               IF answered THEN [task[Flow] EXCEPT !.pc = "discover"] ELSE NoTask)

\* finalizeWithdrawal has no bookkeeping to do.
WithdrawAll ==
    /\ At(Flow, "signAll")
    /\ Execute(Me, -pos[Me], FALSE, NoTask)

\* finalizeDeposit: what it finds in the pool, if the probe does not fail ...
DiscoverDeposit ==
    /\ At(Flow, "discover")
    /\ \/ /\ GetUserPosition(Me) # 0
          /\ task' = [task EXCEPT ![Flow].pc = "upsert", ![Flow].amount = GetUserPosition(Me)]
          /\ UNCHANGED <<acts, unseen>>
       \/ /\ ProbeFails
          /\ End(Flow)
          /\ unseen' = [unseen EXCEPT ![Me] = @ \cup {"today"}]
    /\ UNCHANGED <<world, nudgeKeys, best, reportDone, rows, period, fired,
                   quiet, reportHistory, moved>>

\* ... becomes the snapshot of the day.
UpsertDeposited ==
    /\ At(Flow, "upsert")
    /\ UpsertSnapshot(Me, task[Flow].amount)
    /\ Seen(Me, TRUE)
    /\ End(Flow)
    /\ UNCHANGED <<world, nudgeKeys, best, reportDone, clock, quiet,
                   reportHistory, moved>>

--------------------------------------------------------------------------------
(* Users, the pool and the clock *)

\* Somebody sends the user a coin, or the user spends one.
Transfer(u, amount) ==
    /\ Act
    /\ idle[u] + amount \in 0..(MaxBalance - pos[u])
    /\ idle' = [idle EXCEPT ![u] = @ + amount]
    /\ UNCHANGED <<pos, session, nudgeKeys, best, reportDone, rows, task, period, fired,
                   quiet, reportHistory, moveHistory>>

\* Expiry, /logout, and signing in.
ChangeSession(u, state) ==
    /\ Act
    /\ state # session[u] /\ (state = "expired" => session[u] = "live")
    /\ session' = [session EXCEPT ![u] = state]
    /\ UNCHANGED <<idle, pos, nudgeKeys, best, reportDone, rows, task, period,
                   fired, quiet, reportHistory, moveHistory>>

Aged(ttl) == IF ttl \in {0, Forever} THEN ttl ELSE ttl - 1

\* The end of a period.  No run lasts longer than a period.
EndPeriod ==
    /\ \A j \in Jobs : Due(j) => j \in fired
    /\ \A s \in Busy : ~task[s].late
    /\ fired' = {}
    /\ best' = Aged(best)
    /\ cooldown' = [u \in Users |-> Aged(cooldown[u])]
    /\ nudgePending' = [u \in Users |-> Aged(nudgePending[u])]
    /\ quiet' = [u \in Users |-> Aged(quiet[u])]
    /\ UNCHANGED <<world, acts>>

Noon ==
    /\ period = "rest" /\ period' = "report"
    /\ EndPeriod
    /\ task' = [s \in Slots |-> IF s \in Busy THEN [task[s] EXCEPT !.late = TRUE] ELSE NoTask]
    /\ UNCHANGED <<reportDone, rows, reportHistory, moveHistory>>

\* Today becomes yesterday.  A user without a snapshot of either date may turn out to
\* have none of the last 30 days.
Midnight ==
    /\ period = "report" /\ period' = "rest"
    /\ EndPeriod
    /\ task' = [s \in Slots |->
          IF s \notin Busy THEN NoTask
          ELSE IF Job(s) = "reports" THEN [task[s] EXCEPT !.late = TRUE, !.today = FALSE]
          ELSE [task[s] EXCEPT !.late = TRUE]]
    /\ snaps' = [u \in Users |-> [today |-> NoRecord, yesterday |-> snaps[u]["today"]]]
    /\ known' \in {k \in SUBSET known : \A u \in known \ k : snaps'[u]["yesterday"] = NoRecord}
    /\ reportDone' = IF "today" \in reportDone THEN {"yesterday"} ELSE {}
    /\ reported' = [u \in Users |-> 0] /\ disturbed' = FALSE
    /\ moved' = {}
    /\ unseen' = [u \in Users |->
          IF "today" \in unseen[u] \/ (task[Flow].pc \in {"discover", "upsert"} /\ Me = u)
          THEN {"yesterday"} ELSE {}]

JobStep(s) ==
    \/ RunPoolScan(s)
    \/ CheckCooldown(s) \/ CheckPending(s) \/ CheckBalance(s) \/ CheckBest(s)
    \/ SendNudge(s) \/ SetCooldown(s) \/ SetPending(s)
    \/ CheckDone(s) \/ ListUsers(s) \/ Discover(s) \/ ReadSnapshots(s) \/ UpsertReported(s)
    \/ SendReport(s) \/ FinishReports(s)

FlowStep ==
    \/ PlanDeposit \/ GiveUp \/ WithdrawAll
    \/ \E answered \in BOOLEAN : Deposit(answered)
    \/ DiscoverDeposit \/ UpsertDeposited

Next ==
    \/ \E j \in Jobs, k \in {1, 2} : StartJob(j, k)
    \/ \E s \in Busy : JobStep(s) \/ Fault(s)
    \/ \E u \in Users : BuildDepositPlan(u) \/ BuildWithdrawAllPlan(u)
                        \/ \E amount \in {-1, 1} : Transfer(u, amount)
    \/ FlowStep
    \/ (\E u \in Users : DiscoverPositions(u)) \/ ShowPositions
    \/ \E u \in Users, state \in {"live", "expired", "none"} : ChangeSession(u, state)
    \/ Noon \/ Midnight

Spec == Init /\ [][Next]_vars

\* Time passes: no period lasts for ever.  It cannot end before its timers have fired and
\* the runs of the period before have ended (EndPeriod), so these happen too.
FairSpec == Spec /\ []<><<period' # period>>_period

--------------------------------------------------------------------------------
(***************************************************************************)
(* No user is nudged twice within a cooldown, except by scans that overlap *)
(* or after a scan broke off between its message and its key: the check    *)
(* and the key are eight calls apart.  yieldOptimizerUseCase.ts:160-229    *)
(***************************************************************************)
NudgesKeepCooldown ==
    [][\A s \in Slots : (SendNudge(s) /\ quiet[Job(s)] # 0) => ~task[s].alone]_vars

(***************************************************************************)
(* A user gets one report per day, except when runs overlap or one breaks  *)
(* off before it set the key of the day.  yieldReportJob.ts:62-95          *)
(***************************************************************************)
ReportsOncePerDay == \A u \in Users : reported[u] <= 1 \/ disturbed

(***************************************************************************)
(* Earnings are what the pool paid: balances here earn nothing, so a       *)
(* report of anything else than 0 must be due to a transfer of that day,   *)
(* to a snapshot that was never taken, or to one that missed a transfer    *)
(* because it was withdrawn, timed out, failed or raced with the report.   *)
(* In particular, a deposit that was finalized is not reported as earned   *)
(* on the next day, whether it was made before the report, after it or     *)
(* twice.  yieldOptimizerUseCase.ts:278-306 and 477-526                    *)
(***************************************************************************)
EarningsExplained ==
    [][\A s \in Slots : (ReadSnapshots(s) /\ task'[s].delta # 0) =>
          LET u == task[s].user
          IN \/ snaps[u]["yesterday"] = NoRecord
             \/ u \in moved \/ "yesterday" \in unseen[u]
             \/ ~task[s].fresh]_vars

(***************************************************************************)
(* The same of the positions view, which computes the difference by itself *)
(* and at any time: what it is about to show as gained in 24 hours is 0    *)
(* unless there was a transfer today or since it read the position, or     *)
(* yesterday's snapshot missed one.  yieldOptimizerUseCase.ts:358-441      *)
(***************************************************************************)
GainsExplained ==
    At(View, "snapshots") =>
        LET view == task[View]
        IN Gain24h(view.user, view.balance) # 0 =>
              view.user \in moved \/ "yesterday" \in unseen[view.user] \/ ~view.fresh

\* The winner of these pools is sound: enough liquidity and nothing that dominates it.
WinnerIsSound(pools) ==
    LET w == Winner(pools)
        mean(i) == IF pools[i].history = <<>> THEN <<pools[i].apy, 1>>
                   ELSE <<HistorySum(pools[i]), Len(pools[i].history)>>
        dominates(i, j) ==
            /\ pools[i].utilized => pools[j].utilized
            /\ pools[i].apy >= pools[j].apy /\ ~More(mean(j), mean(i))
            /\ pools[i].apy > pools[j].apy \/ More(mean(i), mean(j))
    IN IF w = NoRecord THEN \A i \in DOMAIN pools : pools[i].liquidity < MinLiquidity
       ELSE /\ pools[w].liquidity >= MinLiquidity
            /\ \A i \in DOMAIN pools : pools[i].liquidity >= MinLiquidity => ~dominates(i, w)

AllWinnersSound == \A pools \in Pools : WinnerIsSound(pools)

(***************************************************************************)
(* The winner is a pool with enough liquidity, and no other such pool that *)
(* is no more utilized pays at least as much now and on average and more   *)
(* in one of the two; a pool is found whenever there is one.               *)
(* yieldPoolRanker.ts:14-57                                                *)
(***************************************************************************)
WinnerUndominated == (\E s \in Slots : Job(s) = "pools" /\ At(s, "scan")) => AllWinnersSound

(***************************************************************************)
(* Neither key of the nudges blocks for good: a user who stays idle, with  *)
(* a live session and a best pool on record, is nudged again and again.    *)
(* userIdleScanJob.ts:48-74, yieldOptimizerUseCase.ts:159-232              *)
(***************************************************************************)
IdleUserIsNudged ==
    \A u \in Users :
        <>[](idle[u] >= IdleThreshold /\ session[u] = "live" /\ best # 0)
            => []<>(\E s \in Slots : Job(s) = u /\ At(s, "send"))

(***************************************************************************)
(* A user who keeps a position, a chat and a recent snapshot gets report   *)
(* after report: one day's run makes the snapshot by which the next finds  *)
(* the user.  yieldReportJob.ts:57-97, yieldRepository.ts:47-53            *)
(***************************************************************************)
ReportsArrive ==
    \A u \in Users :
        <>[](pos[u] # 0 /\ session[u] # "none" /\ u \in known)
            => []<>(\E s \in Slots : Job(s) = "reports" /\ At(s, "send") /\ task[s].user = u)
================================================================================
