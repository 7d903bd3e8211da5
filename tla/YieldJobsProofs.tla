---------------------------- MODULE YieldJobsProofs ----------------------------
(***************************************************************************)
(* What holds of nudges, deposits and reports however many runs of the     *)
(* jobs overlap, break off or cross midnight, for every set of users, all  *)
(* balances and lives of the keys; and that the ranker's choice is sound   *)
(* for any number of pools.                                                *)
(***************************************************************************)
EXTENDS YieldJobs, FiniteSetTheorems, WellFoundedInduction, TLAPS

--------------------------------------------------------------------------------
(* The inductive invariant *)

\* What a slot may hold.
Fits(s, t) ==
    \/ t = NoTask
    \/ Job(s) = "pools" /\ t \in PoolScan
    \/ Job(s) \in Users /\ t \in IdleScan
    \/ Job(s) = "reports" /\ t \in Report
    \/ s = Flow /\ t \in Capability
    \/ s = View /\ t \in Positions

\* The steps of a report that are about one user.
OfUser == {"snapshots", "upsert", "send"}

TaskInv ==
    /\ task = [s \in Slots |-> task[s]]
    /\ \A s \in Slots :
          /\ Fits(s, task[s])
          /\ Job(s) = "reports" /\ task[s] # NoTask =>
                task[s].user \in Users <=> task[s].pc \in OfUser
    /\ IsFiniteSet(Busy) /\ Cardinality(Busy) <= MaxBusy

WorldInv ==
    /\ idle \in [Users -> Nat] /\ pos \in [Users -> Nat]
    /\ \A u \in Users : idle[u] + pos[u] <= MaxBalance
    /\ session \in [Users -> {"live", "expired", "none"}]

KeysInv ==
    /\ best \in 0..BestTtl
    /\ cooldown \in [Users -> Ttl] /\ nudgePending \in [Users -> Ttl]
    /\ reportDone \subseteq Dates
    /\ quiet \in [Users -> 0..NudgeCooldown]

RowsInv ==
    /\ snaps \in [Users -> [Dates -> Balance \cup {NoRecord}]] /\ known \subseteq Users
    /\ period \in {"report", "rest"} /\ fired \subseteq Jobs /\ acts \in 0..MaxActs
    /\ reported \in [Users -> Nat] /\ disturbed \in BOOLEAN
    /\ moved \subseteq Users /\ unseen \in [Users -> SUBSET Dates]

\* A scan that is alone has no other beside it; once it has seen that there is no
\* cooldown, no nudge is held back.
Other(s) == <<s[1], 3 - s[2]>>
Cleared == {"pending", "balance", "best", "send"}

ScanInv(s) ==
    Job(s) \in Users /\ task[s] # NoTask /\ task[s].alone =>
       /\ task[Other(s)] = NoTask
       /\ task[s].pc \in Cleared => quiet[Job(s)] = 0

\* A nudge that is out has its cooldown, or the scan that sent it is about to set it.
CooldownInv(u) ==
    \/ quiet[u] <= cooldown[u]
    \/ \E s \in Slots : Job(s) = u /\ At(s, "setCooldown")

NudgeInv == (\A s \in Slots : ScanInv(s)) /\ (\A u \in Users : CooldownInv(u))

\* The deposit whose snapshot is still to come.
Finalizing(u) == task[Flow].pc \in {"discover", "upsert"} /\ task[Flow].user = u

\* What was read of a position is still so.
FreshInv(s) ==
    /\ Job(s) \in {"reports", "view"} /\ task[s].pc \in {"snapshots", "upsert"}
          /\ task[s].fresh => task[s].balance = pos[task[s].user]
    /\ s = Flow /\ At(s, "upsert") => task[s].amount = pos[task[s].user]

\* A snapshot of today is what the pool holds, and one of yesterday is what it held
\* at midnight.
SnapInv(u) ==
    /\ \/ snaps[u]["today"] \in {NoRecord, pos[u]}
       \/ "today" \in unseen[u] \/ Finalizing(u)
    /\ \/ snaps[u]["yesterday"] \in {NoRecord, pos[u]}
       \/ "yesterday" \in unseen[u] \/ u \in moved

SnapshotInv == (\A s \in Slots : FreshInv(s)) /\ (\A u \in Users : SnapInv(u))

\* A run that reports today, one that may yet come to, and one that the key of today does
\* not hold back any more.
Reporting(s) == /\ Job(s) = "reports" /\ task[s] # NoTask
                /\ task[s].today /\ task[s].pc \notin {"done", "users"}
MayReport(s) == /\ Job(s) = "reports" /\ task[s] # NoTask
                /\ task[s].today \/ task[s].pc \in {"done", "users"}
Passed(s) == /\ Job(s) = "reports" /\ task[s] # NoTask
             /\ task[s].pc = "users" \/ (task[s].pc = "done" /\ ~task[s].today)

\* As long as nothing disturbs them there is one run at a time, which has reported to
\* none of the users it still has to do.
ReportInv ==
    disturbed \/
    /\ \A s, t \in Slots : MayReport(s) /\ Reporting(t) => s = t
    /\ \A u \in Users : /\ reported[u] \in {0, 1}
                        /\ reported[u] = 1 =>
                              "today" \in reportDone \/ \E s \in Slots : Reporting(s)
    /\ \A s \in Slots : Passed(s) => \A u \in Users : reported[u] = 0
    /\ \A s \in Slots : Reporting(s) =>
          /\ \A u \in task[s].todo : reported[u] = 0
          /\ task[s].user \in Users =>
                task[s].user \notin task[s].todo /\ reported[task[s].user] = 0

IInv == TaskInv /\ WorldInv /\ KeysInv /\ RowsInv /\ NudgeInv /\ SnapshotInv /\ ReportInv

--------------------------------------------------------------------------------
(* Lemmas about slots and runs                                             *)

LEMMA Bounds ==
    /\ MaxBalance \in Nat /\ IdleThreshold \in Nat /\ BestTtl \in Nat /\ BestTtl > 0
    /\ NudgeCooldown \in Nat /\ NudgeCooldown > 0 /\ MaxBusy \in Nat /\ MaxActs \in Nat
  BY BalanceAssumption, TtlAssumption, BoundAssumption

LEMMA SlotKinds ==
    ASSUME NEW s \in Slots
    PROVE  \/ s = Flow /\ Job(s) = "flow"
           \/ s = View /\ Job(s) = "view"
           \/ /\ s \notin {Flow, View} /\ s = <<s[1], s[2]>> /\ s[2] \in {1, 2}
              /\ Job(s) \in Jobs
  BY NamesAssumption DEF Slots, Flow, View, Job, Jobs

\* The kinds of slots exclude each other.
LEMMA Kinds ==
    ASSUME NEW s \in Slots
    PROVE  /\ (s = Flow) <=> (Job(s) = "flow")
           /\ (s = View) <=> (Job(s) = "view")
           /\ Job(s) \in Users => /\ s \notin {Flow, View}
                                  /\ Job(s) \notin {"reports", "pools", "flow", "view"}
           /\ Job(s) \in {"reports", "pools", "flow", "view"} => Job(s) \notin Users
           /\ Flow \in Slots /\ View \in Slots
  BY SlotKinds, NamesAssumption DEF Slots, Flow, View, Job, Jobs

LEMMA OtherSlot ==
    ASSUME NEW s \in Slots, s \notin {Flow, View}
    PROVE  /\ Other(s) \in Slots /\ Other(s) # s /\ Job(Other(s)) = Job(s)
           /\ Other(Other(s)) = s /\ Other(s) \notin {Flow, View}
           /\ \A t \in Slots : Job(t) = Job(s) => t \in {s, Other(s)}
  <1>1. s = <<s[1], s[2]>> /\ s[2] \in {1, 2} /\ s[1] \in Jobs
    BY SlotKinds DEF Job
  <1>2. Other(s) = <<s[1], 3 - s[2]>> /\ 3 - s[2] \in {1, 2} /\ 3 - s[2] # s[2]
    BY <1>1 DEF Other
  <1>3. Other(s) \in Slots /\ Other(s) # s /\ Job(Other(s)) = Job(s)
    BY <1>1, <1>2 DEF Slots, Job
  <1>4. Other(Other(s)) = s
    BY <1>1, <1>2 DEF Other
  <1>5. ASSUME NEW t \in Slots, Job(t) = Job(s) PROVE t \in {s, Other(s)}
    <2>1. t \notin {Flow, View}
      BY <1>5, Kinds
    <2>2. t = <<t[1], t[2]>> /\ t[2] \in {1, 2} /\ t[1] = s[1]
      BY <1>5, <2>1, SlotKinds DEF Job
    <2> QED
      BY <1>1, <1>2, <2>2
  <1>6. Other(s) \notin {Flow, View}
    BY <1>3, Kinds
  <1> QED
    BY <1>3, <1>4, <1>5, <1>6

\* The kind of a run is that of its slot.
LEMMA RunKinds ==
    ASSUME NEW s \in Slots, NEW t, Fits(s, t), t # NoTask
    PROVE  /\ Job(s) = "pools" => t \in PoolScan
           /\ Job(s) \in Users => t \in IdleScan
           /\ Job(s) = "reports" => t \in Report
           /\ s = Flow => t \in Capability
           /\ s = View => t \in Positions
           /\ t.pc # "idle" /\ t.late \in BOOLEAN
  <1>1. /\ Job(s) = "pools" => t \in PoolScan
        /\ Job(s) \in Users => t \in IdleScan
        /\ Job(s) = "reports" => t \in Report
        /\ s = Flow => t \in Capability
        /\ s = View => t \in Positions
    BY SlotKinds, Kinds DEF Fits
  <1>2. \/ t \in PoolScan \/ t \in IdleScan \/ t \in Report
        \/ t \in Capability \/ t \in Positions
    BY DEF Fits
  <1>3. t.pc # "idle" /\ t.late \in BOOLEAN
    BY <1>2 DEF PoolScan, IdleScan, Report, Capability, Positions
  <1> QED
    BY <1>1, <1>3

LEMMA BusyIs ==
    ASSUME TaskInv
    PROVE  \A s \in Slots : s \in Busy <=> task[s] # NoTask
  <1>1. ASSUME NEW s \in Slots, task[s] # NoTask PROVE task[s].pc # "idle"
    BY <1>1, RunKinds DEF TaskInv
  <1> QED
    BY <1>1 DEF Busy, At, NoTask

\* The run of one slot goes on as t.
Changes(s, t) == task' = [task EXCEPT ![s] = t]

LEMMA ChangesOne ==
    ASSUME TaskInv, NEW s \in Slots, NEW t, Changes(s, t)
    PROVE  /\ task' = [q \in Slots |-> task'[q]]
           /\ task'[s] = t /\ \A q \in Slots : q # s => task'[q] = task[q]
  BY DEF TaskInv, Changes

ReportUser(s, t) == Job(s) = "reports" /\ t # NoTask => (t.user \in Users <=> t.pc \in OfUser)

\* A run that goes on or ends.
LEMMA TaskKeeps ==
    ASSUME TaskInv, NEW s \in Slots, task[s] # NoTask, NEW t, Changes(s, t), Fits(s, t),
           ReportUser(s, t)
    PROVE  TaskInv'
  <1>1. /\ task' = [q \in Slots |-> task'[q]]
        /\ task'[s] = t /\ \A q \in Slots : q # s => task'[q] = task[q]
    BY ChangesOne
  <1>2. \A q \in Slots : Fits(q, task'[q]) /\ ReportUser(q, task'[q])
    BY <1>1 DEF TaskInv, ReportUser
  <1>3. Busy' \subseteq Busy
    BY <1>1, BusyIs DEF Busy, At
  <1>4. IsFiniteSet(Busy') /\ Cardinality(Busy') <= Cardinality(Busy)
    BY <1>3, FS_Subset DEF TaskInv
  <1>5. Cardinality(Busy) \in Nat /\ Cardinality(Busy') \in Nat
    BY <1>4, FS_CardinalityType DEF TaskInv
  <1>6. Cardinality(Busy') <= MaxBusy
    BY <1>4, <1>5, Bounds DEF TaskInv
  <1> QED
    BY <1>1, <1>2, <1>4, <1>6 DEF TaskInv, ReportUser

--------------------------------------------------------------------------------
(* What a run leaves alone                                                 *)

\* Only scans bear on the nudges.
LEMMA NudgeFrame ==
    ASSUME TaskInv, NudgeInv, NEW s \in Slots, NEW t, Changes(s, t),
           Job(s) \notin Users, UNCHANGED <<quiet, cooldown>>
    PROVE  NudgeInv'
  <1>1. task'[s] = t /\ \A q \in Slots : q # s => task'[q] = task[q]
    BY ChangesOne
  <1>2. ASSUME NEW q \in Slots, Job(q) \in Users
        PROVE  task'[q] = task[q] /\ task'[Other(q)] = task[Other(q)]
    <2>1. q # s /\ Other(q) # s /\ Other(q) \in Slots
      BY <1>2, OtherSlot, Kinds
    <2> QED
      BY <1>1, <2>1
  <1>3. \A q \in Slots : ScanInv(q)'
    BY <1>2 DEF NudgeInv, ScanInv
  <1>4. \A u \in Users : CooldownInv(u)'
    BY <1>2 DEF NudgeInv, CooldownInv, At
  <1> QED
    BY <1>3, <1>4 DEF NudgeInv

LEMMA NoRun == NoTask.pc = "idle" /\ \A s : At(s, "idle") <=> task[s].pc = "idle"
  BY DEF NoTask, At

\* Only reports, the bot loop and the view bear on the snapshots.
LEMMA SnapshotFrame ==
    ASSUME TaskInv, SnapshotInv, NEW s \in Slots, NEW t, Changes(s, t),
           Job(s) \notin {"reports", "flow", "view"}, UNCHANGED <<pos, snaps, unseen, moved>>
    PROVE  SnapshotInv'
  <1>1. task'[s] = t /\ \A q \in Slots : q # s => task'[q] = task[q]
    BY ChangesOne
  <1>2. s # Flow /\ Flow \in Slots
    BY Kinds
  <1>3. \A q \in Slots : FreshInv(q)'
    BY <1>1, <1>2 DEF SnapshotInv, FreshInv, At
  <1>4. \A u \in Users : SnapInv(u)'
    BY <1>1, <1>2 DEF SnapshotInv, SnapInv, Finalizing
  <1> QED
    BY <1>3, <1>4 DEF SnapshotInv

\* A report, the bot loop or the view goes on, without a position or snapshot being written.
LEMMA SnapshotKeeps ==
    ASSUME TaskInv, SnapshotInv, NEW s \in Slots, NEW t, Changes(s, t),
           UNCHANGED <<pos, snaps, moved>>,
           \A u \in Users : "today" \in unseen[u] => "today" \in unseen'[u],
           \A u \in Users : "yesterday" \in unseen[u] => "yesterday" \in unseen'[u],
           Job(s) \in {"reports", "view"} /\ t.pc \in {"snapshots", "upsert"} /\ t.fresh =>
              t.balance = pos[t.user],
           s = Flow /\ t.pc = "upsert" => t.amount = pos[t.user],
           s = Flow => \A u \in Users :
              Finalizing(u) => \/ t.pc \in {"discover", "upsert"} /\ t.user = u
                               \/ "today" \in unseen'[u]
    PROVE  SnapshotInv'
  <1>1. task'[s] = t /\ \A q \in Slots : q # s => task'[q] = task[q]
    BY ChangesOne
  <1>2. \A q \in Slots : FreshInv(q)'
    BY <1>1 DEF SnapshotInv, FreshInv, At
  <1>3. \A u \in Users : SnapInv(u)'
    <2>1. CASE s = Flow
      BY <1>1, <2>1 DEF SnapshotInv, SnapInv, Finalizing
    <2>2. CASE s # Flow
      BY <1>1, <2>2, Kinds DEF SnapshotInv, SnapInv, Finalizing
    <2> QED
      BY <2>1, <2>2
  <1> QED
    BY <1>2, <1>3 DEF SnapshotInv

\* Only reports bear on what is reported.
LEMMA ReportFrame ==
    ASSUME TaskInv, ReportInv, NEW s \in Slots, NEW t, Changes(s, t),
           Job(s) # "reports", UNCHANGED <<reported, reportDone, disturbed>>
    PROVE  ReportInv'
  <1>1. task'[s] = t /\ \A q \in Slots : q # s => task'[q] = task[q]
    BY ChangesOne
  <1>2. \A q \in Slots : /\ MayReport(q)' <=> MayReport(q)
                         /\ Reporting(q)' <=> Reporting(q)
                         /\ Passed(q)' <=> Passed(q)
                         /\ Reporting(q) => task'[q] = task[q]
    BY <1>1 DEF MayReport, Reporting, Passed
  <1> QED
    BY <1>2 DEF ReportInv

--------------------------------------------------------------------------------
(* Scans                                                                   *)

LEMMA ScanMoves ==
    ASSUME NEW t \in IdleScan,
           NEW pc \in Cleared \cup {"setCooldown", "setPending"}
    PROVE  LET v == [t EXCEPT !.pc = pc]
           IN v \in IdleScan /\ v.pc = pc /\ v.late = t.late /\ v.alone = t.alone
  BY DEF IdleScan, Cleared

\* The scan of slot s is now at pc, or has ended.
ScanAt(s, pc) ==
    \E t : /\ Changes(s, t) /\ t \in IdleScan
           /\ t.pc = pc /\ t.alone = task[s].alone

LEMMA ScanGoes ==
    ASSUME TaskInv, NEW s \in Slots, Job(s) \in Users, task[s] # NoTask,
           NEW pc \in Cleared \cup {"setCooldown", "setPending"},
           GoTo(s, pc)
    PROVE  ScanAt(s, pc)
  <1> DEFINE t == [task[s] EXCEPT !.pc = pc]
  <1>1. task[s] \in IdleScan
    BY RunKinds DEF TaskInv
  <1>2. t \in IdleScan /\ t.pc = pc /\ t.alone = task[s].alone
    BY <1>1, ScanMoves
  <1>3. Changes(s, t)
    BY DEF GoTo, Changes
  <1> QED
    BY <1>2, <1>3 DEF ScanAt

\* What a step of a scan keeps, if the nudges are kept.
LEMMA ScanKeeps ==
    ASSUME IInv, NEW s \in Slots, Job(s) \in Users, task[s] # NoTask,
           NEW t, Changes(s, t), t = NoTask \/ t \in IdleScan,
           UNCHANGED <<world, rows, clock, best, reportDone, reportHistory, moveHistory>>,
           NudgeInv', cooldown' \in [Users -> Ttl], nudgePending' \in [Users -> Ttl],
           quiet' \in [Users -> 0..NudgeCooldown]
    PROVE  IInv'
  <1>1. TaskInv'
    <2>1. Job(s) \notin {"reports", "flow", "view"}
      BY Kinds
    <2> QED
      BY <2>1, TaskKeeps DEF IInv, Fits, ReportUser
  <1>2. WorldInv' /\ RowsInv'
    BY DEF IInv, WorldInv, RowsInv, world, rows, clock, reportHistory, moveHistory
  <1>3. KeysInv'
    BY DEF IInv, KeysInv
  <1>4. SnapshotInv' /\ ReportInv'
    <2>1. Job(s) \notin {"reports", "flow", "view"}
      BY Kinds
    <2> QED
      BY <2>1, SnapshotFrame, ReportFrame
         DEF IInv, world, rows, moveHistory, reportHistory
  <1> QED
    BY <1>1, <1>2, <1>3, <1>4 DEF IInv

\* The nudges are kept by a scan that goes on or ends.
LEMMA NudgeMoves ==
    ASSUME IInv, NEW s \in Slots, Job(s) \in Users, task[s] # NoTask,
           NEW t, Changes(s, t), t = NoTask \/ (t \in IdleScan /\ t.alone = task[s].alone),
           t # NoTask /\ t.alone /\ t.pc \in Cleared => quiet'[Job(s)] = 0,
           \A u \in Users : u # Job(s) => quiet'[u] = quiet[u] /\ cooldown'[u] = cooldown[u],
           quiet'[Job(s)] = quiet[Job(s)] \/ quiet'[Job(s)] = 0 \/ t.pc = "setCooldown",
           \/ quiet'[Job(s)] <= cooldown'[Job(s)] \/ t.pc = "setCooldown"
           \/ /\ CooldownInv(Job(s)) /\ ~At(s, "setCooldown")
              /\ quiet'[Job(s)] = quiet[Job(s)] /\ cooldown'[Job(s)] = cooldown[Job(s)]
    PROVE  NudgeInv'
  <1>1. task'[s] = t /\ \A q \in Slots : q # s => task'[q] = task[q]
    BY ChangesOne DEF IInv
  <1>2. \A u \in Users : CooldownInv(u)'
    <2> SUFFICES ASSUME NEW u \in Users PROVE CooldownInv(u)'
      OBVIOUS
    <2>1. CASE u # Job(s)
      BY <1>1, <2>1 DEF IInv, NudgeInv, CooldownInv, At
    <2>2. CASE u = Job(s)
      BY <1>1, <2>2 DEF CooldownInv, At
    <2> QED
      BY <2>1, <2>2
  <1>3. ASSUME NEW q \in Slots, Job(q) \in Users, task'[q] # NoTask, task'[q].alone
        PROVE  /\ task'[Other(q)] = NoTask
               /\ task'[q].pc \in Cleared => quiet'[Job(q)] = 0
    <2>1. q \notin {Flow, View} /\ s \notin {Flow, View}
      BY <1>3, Kinds
    <2>2. Other(q) \in Slots /\ Other(q) # q
      BY <2>1, OtherSlot
    <2>3. CASE q = s
      <3>1. task[s].alone
        BY <1>1, <1>3, <2>3
      <3> QED
        BY <1>1, <1>3, <2>2, <2>3, <3>1 DEF IInv, NudgeInv, ScanInv
    <2>4. CASE q # s /\ Job(q) = Job(s)
      <3>1. s = Other(q)
        BY <2>1, <2>4, OtherSlot
      <3>2. task[q].alone /\ task[q] # NoTask
        BY <1>1, <1>3, <2>4
      <3> QED
        BY <1>3, <3>1, <3>2 DEF IInv, NudgeInv, ScanInv
    <2>5. CASE q # s /\ Job(q) # Job(s)
      <3>1. Other(q) # s
        BY <2>1, <2>5, OtherSlot
      <3> QED
        BY <1>1, <1>3, <2>2, <2>5, <3>1 DEF IInv, NudgeInv, ScanInv
    <2> QED
      BY <2>3, <2>4, <2>5
  <1>4. \A q \in Slots : ScanInv(q)'
    BY <1>3 DEF ScanInv
  <1> QED
    BY <1>2, <1>4 DEF NudgeInv

LEMMA Typed ==
    ASSUME IInv
    PROVE  /\ cooldown \in [Users -> Ttl] /\ nudgePending \in [Users -> Ttl]
           /\ quiet \in [Users -> 0..NudgeCooldown] /\ best \in 0..BestTtl
           /\ NudgeCooldown \in Ttl /\ NudgeCooldown \in 0..NudgeCooldown /\ 0 \in Ttl
           /\ 0 \in 0..NudgeCooldown
           /\ \A s \in Slots : At(s, "idle") <=> task[s] = NoTask
  <1>1. \A s \in Slots : At(s, "idle") <=> task[s] = NoTask
    BY RunKinds, NoRun DEF IInv, TaskInv, At
  <1> QED
    BY <1>1, Bounds DEF IInv, KeysInv, Ttl

LEMMA CheckCooldownKeeps ==
    ASSUME IInv, NEW s \in Slots, CheckCooldown(s)
    PROVE  IInv'
  <1>1. /\ Job(s) \in Users /\ At(s, "cooldown") /\ task[s] # NoTask
    BY NoRun DEF CheckCooldown, At
  <1>2. UNCHANGED <<world, nudgeKeys, rows, clock, best, reportDone, quiet, reportHistory,
                    moveHistory>>
    BY DEF CheckCooldown
  <1>3. UNCHANGED <<cooldown, nudgePending, quiet>>
    BY <1>2 DEF nudgeKeys
  <1>4. CooldownInv(Job(s))
    BY <1>1 DEF IInv, NudgeInv
  <1>5. CASE cooldown[Job(s)] = 0 /\ GoTo(s, "pending")
    <2>1. PICK t : Changes(s, t) /\ t \in IdleScan /\ t.pc = "pending" /\ t.alone = task[s].alone
      BY <1>1, <1>5, ScanGoes DEF ScanAt, IInv, Cleared
    <2>2. t.alone => quiet[Job(s)] = 0
      <3> SUFFICES ASSUME t.alone PROVE quiet[Job(s)] = 0
        OBVIOUS
      <3>1. task[Other(s)] = NoTask
        BY <1>1, <2>1 DEF IInv, NudgeInv, ScanInv
      <3>2. ~ \E q \in Slots : Job(q) = Job(s) /\ At(q, "setCooldown")
        BY <1>1, <3>1, OtherSlot, Kinds, NoRun DEF At
      <3>3. quiet[Job(s)] <= 0 /\ quiet[Job(s)] \in 0..NudgeCooldown
        BY <1>1, <1>4, <1>5, <3>2, Typed DEF CooldownInv
      <3> QED
        BY <3>3, Bounds
    <2>3. NudgeInv'
      BY <1>1, <1>3, <1>4, <2>1, <2>2, NudgeMoves DEF At
    <2> QED
      BY <1>1, <1>2, <1>3, <2>1, <2>3, ScanKeeps, Typed
  <1>6. CASE End(s)
    <2>1. Changes(s, NoTask)
      BY <1>6 DEF End, Changes
    <2>2. NudgeInv'
      BY <1>1, <1>3, <1>4, <2>1, NudgeMoves, NoRun DEF At
    <2> QED
      BY <1>1, <1>2, <1>3, <2>1, <2>2, ScanKeeps, Typed
  <1> QED
    BY <1>5, <1>6 DEF CheckCooldown, Continue

\* A scan that has seen that there is no cooldown goes on to its next check, or ends.
LEMMA ChecksKeep ==
    ASSUME IInv, NEW s \in Slots, Job(s) \in Users, task[s].pc \in Cleared,
           NEW pc \in Cleared, GoTo(s, pc) \/ End(s),
           UNCHANGED <<world, nudgeKeys, rows, clock, best, reportDone, quiet, reportHistory,
                       moveHistory>>
    PROVE  IInv'
  <1>1. task[s] # NoTask /\ ~At(s, "setCooldown")
    BY NoRun DEF At, Cleared
  <1>2. UNCHANGED <<cooldown, nudgePending, quiet>>
    BY DEF nudgeKeys
  <1>3. CooldownInv(Job(s))
    BY DEF IInv, NudgeInv
  <1>4. CASE GoTo(s, pc)
    <2>1. PICK t : Changes(s, t) /\ t \in IdleScan /\ t.pc = pc /\ t.alone = task[s].alone
      BY <1>1, <1>4, ScanGoes DEF ScanAt, IInv
    <2>2. t.alone => quiet[Job(s)] = 0
      BY <1>1, <2>1 DEF IInv, NudgeInv, ScanInv
    <2>3. NudgeInv'
      BY <1>1, <1>2, <1>3, <2>1, <2>2, NudgeMoves
    <2> QED
      BY <1>1, <1>2, <2>1, <2>3, ScanKeeps, Typed
  <1>5. CASE End(s)
    <2>1. Changes(s, NoTask)
      BY <1>5 DEF End, Changes
    <2>2. NudgeInv'
      BY <1>1, <1>2, <1>3, <2>1, NudgeMoves
    <2> QED
      BY <1>1, <1>2, <2>1, <2>2, ScanKeeps, Typed
  <1> QED
    BY <1>4, <1>5

LEMMA CheckUserKeeps ==
    ASSUME IInv, NEW s \in Slots, CheckPending(s) \/ CheckBalance(s) \/ CheckBest(s)
    PROVE  IInv'
  <1>1. CASE CheckPending(s)
    BY <1>1, ChecksKeep DEF CheckPending, Continue, At, Cleared
  <1>2. CASE CheckBalance(s)
    BY <1>2, ChecksKeep DEF CheckBalance, Continue, At, Cleared
  <1>3. CASE CheckBest(s)
    BY <1>3, ChecksKeep DEF CheckBest, Continue, At, Cleared
  <1> QED
    BY <1>1, <1>2, <1>3

LEMMA SendNudgeKeeps ==
    ASSUME IInv, NEW s \in Slots, SendNudge(s)
    PROVE  IInv'
  <1>1. /\ Job(s) \in Users /\ At(s, "send") /\ task[s] # NoTask
    BY NoRun DEF SendNudge, At
  <1>2. UNCHANGED <<world, nudgeKeys, rows, clock, best, reportDone, reportHistory,
                    moveHistory>>
    BY DEF SendNudge
  <1>3. UNCHANGED <<cooldown, nudgePending>>
    BY <1>2 DEF nudgeKeys
  <1>4. quiet' = [quiet EXCEPT ![Job(s)] = NudgeCooldown]
    BY DEF SendNudge, Nudged
  <1>5. PICK t : /\ Changes(s, t) /\ t \in IdleScan /\ t.pc = "setCooldown"
                 /\ t.alone = task[s].alone
    BY <1>1, ScanGoes DEF ScanAt, IInv, SendNudge
  <1>6. /\ quiet' \in [Users -> 0..NudgeCooldown]
        /\ \A u \in Users : u # Job(s) => quiet'[u] = quiet[u]
    BY <1>1, <1>4, Typed
  <1>7. NudgeInv'
    BY <1>1, <1>3, <1>5, <1>6, NudgeMoves DEF Cleared
  <1> QED
    BY <1>1, <1>2, <1>3, <1>5, <1>6, <1>7, ScanKeeps, Typed

LEMMA SetCooldownKeeps ==
    ASSUME IInv, NEW s \in Slots, SetCooldown(s)
    PROVE  IInv'
  <1>1. /\ Job(s) \in Users /\ At(s, "setCooldown") /\ task[s] # NoTask
    BY NoRun DEF SetCooldown, At
  <1>2. UNCHANGED <<world, nudgePending, rows, clock, best, reportDone, quiet, reportHistory,
                    moveHistory>>
    BY DEF SetCooldown
  <1>3. cooldown' = [cooldown EXCEPT ![Job(s)] = NudgeCooldown]
    BY DEF SetCooldown, CooldownSet
  <1>4. PICK t : /\ Changes(s, t) /\ t \in IdleScan /\ t.pc = "setPending"
                 /\ t.alone = task[s].alone
    BY <1>1, ScanGoes DEF ScanAt, IInv, SetCooldown
  <1>5. /\ cooldown' \in [Users -> Ttl] /\ cooldown'[Job(s)] = NudgeCooldown
        /\ \A u \in Users : u # Job(s) => cooldown'[u] = cooldown[u]
    BY <1>1, <1>3, Typed
  <1>6. quiet'[Job(s)] <= cooldown'[Job(s)]
    BY <1>1, <1>2, <1>5, Typed, Bounds
  <1>7. NudgeInv'
    BY <1>1, <1>2, <1>4, <1>5, <1>6, NudgeMoves DEF Cleared
  <1> QED
    BY <1>1, <1>2, <1>4, <1>5, <1>7, ScanKeeps, Typed

LEMMA SetPendingKeeps ==
    ASSUME IInv, NEW s \in Slots, SetPending(s)
    PROVE  IInv'
  <1>1. /\ Job(s) \in Users /\ At(s, "setPending") /\ task[s] # NoTask
    BY NoRun DEF SetPending, At
  <1>2. UNCHANGED <<world, cooldown, rows, clock, best, reportDone, quiet, reportHistory,
                    moveHistory>>
    BY DEF SetPending
  <1>3. nudgePending' \in [Users -> Ttl]
    BY Typed DEF SetPending
  <1>4. Changes(s, NoTask)
    BY DEF SetPending, End, Changes
  <1>5. CooldownInv(Job(s))
    BY <1>1 DEF IInv, NudgeInv
  <1>6. NudgeInv'
    BY <1>1, <1>2, <1>4, <1>5, NudgeMoves, NoRun DEF At
  <1> QED
    BY <1>1, <1>2, <1>3, <1>4, <1>6, ScanKeeps, Typed

LEMMA RunPoolScanKeeps ==
    ASSUME IInv, NEW s \in Slots, RunPoolScan(s)
    PROVE  IInv'
  <1>1. Job(s) = "pools" /\ task[s] # NoTask
    BY NoRun DEF RunPoolScan, At
  <1>2. Changes(s, NoTask)
    BY DEF RunPoolScan, End, Changes
  <1>3. UNCHANGED <<world, nudgeKeys, reportDone, rows, clock, quiet, reportHistory,
                    moveHistory>>
    BY DEF RunPoolScan
  <1>4. best' \in 0..BestTtl
    BY Typed, Bounds DEF RunPoolScan, StoreBest
  <1>5. Job(s) \notin Users \cup {"reports", "flow", "view"}
    BY <1>1, Kinds
  <1>6. TaskInv'
    BY <1>1, <1>2, TaskKeeps DEF IInv, Fits, ReportUser
  <1>7. NudgeInv' /\ SnapshotInv' /\ ReportInv'
    BY <1>2, <1>3, <1>5, NudgeFrame, SnapshotFrame, ReportFrame
       DEF IInv, world, nudgeKeys, rows, moveHistory, reportHistory
  <1>8. WorldInv' /\ RowsInv' /\ KeysInv'
    BY <1>3, <1>4 DEF IInv, WorldInv, RowsInv, KeysInv, world, nudgeKeys, rows, clock,
                      reportHistory, moveHistory
  <1> QED
    BY <1>6, <1>7, <1>8 DEF IInv

--------------------------------------------------------------------------------
(* Reports                                                                 *)

\* A report goes on as t, or ends.
LEMMA ReportMoves ==
    ASSUME TaskInv, ReportInv, NEW s \in Slots, Job(s) = "reports", task[s] # NoTask,
           NEW t, Changes(s, t),
           t # NoTask => /\ t.today = task[s].today /\ t.pc \notin {"done", "users"}
                         /\ task[s].pc \notin {"done", "users"},
           disturbed => disturbed', reportDone \subseteq reportDone',
           t = NoTask /\ task[s].today /\ task[s].pc \notin {"done", "users"} =>
              disturbed' \/ "today" \in reportDone',
           ~disturbed' /\ t # NoTask /\ t.today =>
              /\ \A u \in t.todo : reported'[u] = 0
              /\ t.user \in Users => t.user \notin t.todo /\ reported'[t.user] = 0,
           \A u \in Users : reported'[u] # reported[u] /\ ~disturbed' =>
                             t # NoTask /\ t.today /\ reported'[u] \in {0, 1}
    PROVE  ReportInv'
  <1>1. task'[s] = t /\ \A q \in Slots : q # s => task'[q] = task[q]
    BY ChangesOne
  <1> SUFFICES ASSUME ~disturbed' PROVE ReportInv'
    BY DEF ReportInv
  <1>2. ~disturbed
    OBVIOUS
  <1>3. \A q \in Slots : q # s => /\ MayReport(q)' <=> MayReport(q)
                                  /\ Reporting(q)' <=> Reporting(q)
                                  /\ Passed(q)' <=> Passed(q)
    BY <1>1 DEF MayReport, Reporting, Passed
  <1>4. /\ MayReport(s)' => MayReport(s)
        /\ Reporting(s)' => Reporting(s)
        /\ Reporting(s)' <=> t # NoTask /\ t.today
        /\ ~Passed(s)'
    BY <1>1 DEF MayReport, Reporting, Passed
  <1>5. \A q, p \in Slots : MayReport(q)' /\ Reporting(p)' => q = p
    BY <1>2, <1>3, <1>4 DEF ReportInv
  <1>6. ASSUME NEW u \in Users
        PROVE  /\ reported'[u] \in {0, 1}
               /\ reported'[u] = 1 =>
                     "today" \in reportDone' \/ \E q \in Slots : Reporting(q)'
    <2>1. CASE reported'[u] # reported[u]
      BY <1>4, <2>1
    <2>2. CASE reported'[u] = reported[u]
      <3>1. reported[u] \in {0, 1} /\ (reported[u] = 1 =>
              "today" \in reportDone \/ \E q \in Slots : Reporting(q))
        BY <1>2 DEF ReportInv
      <3>2. ASSUME Reporting(s) PROVE "today" \in reportDone' \/ Reporting(s)'
        BY <1>4, <3>2 DEF Reporting
      <3> QED
        BY <1>3, <2>2, <3>1, <3>2
    <2> QED
      BY <2>1, <2>2
  <1>7. ASSUME NEW q \in Slots, Reporting(q)'
        PROVE  /\ \A u \in task'[q].todo : reported'[u] = 0
               /\ task'[q].user \in Users =>
                     task'[q].user \notin task'[q].todo /\ reported'[task'[q].user] = 0
    <2>1. CASE q = s
      BY <1>1, <1>4, <1>7, <2>1
    <2>2. CASE q # s
      <3>1. Reporting(q) /\ MayReport(q) /\ MayReport(q)' /\ Fits(q, task[q])
        BY <1>3, <1>7, <2>2 DEF Reporting, MayReport, TaskInv
      <3>2. \A u \in Users : reported'[u] = reported[u]
        BY <1>4, <1>5, <2>2, <3>1
      <3>3. task[q].todo \subseteq Users
        BY <3>1, RunKinds DEF Reporting, Report
      <3> QED
        BY <1>1, <1>2, <2>2, <3>1, <3>2, <3>3 DEF ReportInv
    <2> QED
      BY <2>1, <2>2
  <1>8. ASSUME NEW q \in Slots, Passed(q)', NEW u \in Users PROVE reported'[u] = 0
    <2>1. q # s /\ Passed(q) /\ MayReport(q) /\ reported[u] = 0
      BY <1>2, <1>3, <1>4, <1>8 DEF Passed, MayReport, ReportInv
    <2>2. ~Reporting(s)
      BY <1>2, <2>1 DEF ReportInv
    <2> QED
      BY <1>4, <2>1, <2>2
  <1> QED
    BY <1>5, <1>6, <1>7, <1>8 DEF ReportInv

\* What a step of a report keeps, if reports and snapshots are kept.
LEMMA ReportKeeps ==
    ASSUME IInv, NEW s \in Slots, Job(s) = "reports", task[s] # NoTask,
           NEW t, Changes(s, t), t = NoTask \/ t \in Report,
           t # NoTask => (t.user \in Users <=> t.pc \in OfUser),
           UNCHANGED <<world, nudgeKeys, best, quiet, period, fired>>,
           ReportInv', SnapshotInv', RowsInv', reportDone' \subseteq Dates
    PROVE  IInv'
  <1>1. TaskInv'
    BY TaskKeeps DEF IInv, Fits, ReportUser
  <1>2. NudgeInv'
    <2>1. Job(s) \notin Users
      BY Kinds
    <2> QED
      BY <2>1, NudgeFrame DEF IInv, nudgeKeys
  <1>3. WorldInv' /\ KeysInv'
    BY DEF IInv, WorldInv, KeysInv, world, nudgeKeys
  <1> QED
    BY <1>1, <1>2, <1>3 DEF IInv

\* The report of a slot, and what is at stake with it.
LEMMA ReportIs ==
    ASSUME IInv, NEW s \in Slots, Job(s) = "reports", task[s].pc # "idle"
    PROVE  /\ task[s] # NoTask /\ task[s] \in Report
           /\ task[s].user \in Users <=> task[s].pc \in OfUser
           /\ s # Flow
           /\ task[s].pc \in {"snapshots", "upsert"} /\ task[s].fresh =>
                 task[s].balance = pos[task[s].user]
           /\ ~disturbed /\ task[s].today /\ task[s].pc \notin {"done", "users"} =>
                 /\ \A u \in task[s].todo : reported[u] = 0
                 /\ task[s].user \in Users =>
                       task[s].user \notin task[s].todo /\ reported[task[s].user] = 0
  <1>1. task[s] # NoTask
    BY NoRun
  <1>2. task[s] \in Report /\ (task[s].user \in Users <=> task[s].pc \in OfUser)
    BY <1>1, RunKinds DEF IInv, TaskInv
  <1>3. FreshInv(s)
    BY DEF IInv, SnapshotInv
  <1>4. ~disturbed /\ Reporting(s) =>
           /\ \A u \in task[s].todo : reported[u] = 0
           /\ task[s].user \in Users =>
                 task[s].user \notin task[s].todo /\ reported[task[s].user] = 0
    BY DEF IInv, ReportInv
  <1> QED
    BY <1>1, <1>2, <1>3, <1>4, Kinds DEF FreshInv, Reporting

LEMMA NextUserIs ==
    ASSUME NEW s, task[s] \in Report
    PROVE  /\ NextUser(s) \in Report /\ NextUser(s).pc = "build"
           /\ NextUser(s).today = task[s].today /\ NextUser(s).todo = task[s].todo
           /\ NextUser(s).user = NoRecord
  <1>1. 0 \in Balance /\ 0 \in Int
    BY Bounds DEF Balance
  <1> QED
    BY <1>1 DEF Report, NextUser

LEMMA CheckDoneKeeps ==
    ASSUME IInv, NEW s \in Slots, CheckDone(s)
    PROVE  IInv'
  <1>1. Job(s) = "reports" /\ task[s].pc = "done" /\ task[s].pc # "idle"
    BY DEF CheckDone, At
  <1>2. /\ task[s] # NoTask /\ task[s] \in Report /\ ~(task[s].user \in Users)
    BY <1>1, ReportIs DEF OfUser
  <1>3. UNCHANGED <<world, nudgeKeys, best, reportDone, rows, clock, quiet, reportHistory,
                    moveHistory>>
    BY DEF CheckDone
  <1>4. RowsInv' /\ UNCHANGED <<pos, snaps, moved, unseen, reported, disturbed>>
    BY <1>3 DEF IInv, RowsInv, world, rows, clock, moveHistory, reportHistory
  <1>5. CASE End(s)
    <2>1. Changes(s, NoTask)
      BY <1>5 DEF End, Changes
    <2>2. ReportInv'
      BY <1>1, <1>2, <1>3, <1>4, <2>1, ReportMoves DEF IInv
    <2>3. SnapshotInv'
      BY <1>1, <1>4, <2>1, SnapshotKeeps, NoRun, Kinds DEF IInv
    <2> QED
      BY <1>1, <1>2, <1>3, <1>4, <2>1, <2>2, <2>3, ReportKeeps DEF IInv, KeysInv, clock
  <1>6. CASE /\ Date(s) \notin reportDone
             /\ task' = [task EXCEPT ![s].pc = "users", ![s].today = TRUE]
    <2> DEFINE t == [task[s] EXCEPT !.pc = "users", !.today = TRUE]
    <2>1. Changes(s, t)
      BY <1>6 DEF Changes
    <2>2. t \in Report /\ t.pc = "users" /\ t.today = TRUE /\ t.user = task[s].user
      BY <1>2 DEF Report
    <2> HIDE DEF t
    <2>3. t # NoTask
      BY <2>2, NoRun
    <2>4. task'[s] = t /\ \A q \in Slots : q # s => task'[q] = task[q]
      BY <2>1, ChangesOne DEF IInv
    <2>5. \A q \in Slots : q # s => /\ MayReport(q)' <=> MayReport(q)
                                    /\ Reporting(q)' <=> Reporting(q)
                                    /\ Passed(q)' <=> Passed(q)
      BY <2>4 DEF MayReport, Reporting, Passed
    <2>6. MayReport(s) /\ ~Reporting(s) /\ ~Reporting(s)'
      BY <1>1, <1>2, <2>2, <2>4 DEF MayReport, Reporting
    <2>7. ASSUME ~disturbed PROVE \A u \in Users : reported[u] = 0
      <3>1. CASE task[s].today
        <4>1. "today" \notin reportDone
          BY <1>6, <3>1 DEF Date
        <4>2. ~ \E q \in Slots : Reporting(q)
          BY <2>6, <2>7 DEF IInv, ReportInv
        <4> QED
          BY <2>7, <4>1, <4>2 DEF IInv, ReportInv
      <3>2. CASE ~task[s].today
        BY <1>1, <1>2, <2>7, <3>2 DEF IInv, ReportInv, Passed
      <3> QED
        BY <3>1, <3>2
    <2>8. \A q \in Slots : Reporting(q)' => task'[q] = task[q]
      BY <2>4, <2>6
    <2>9. ReportInv'
      BY <1>3, <1>4, <2>5, <2>6, <2>7, <2>8 DEF IInv, ReportInv
    <2>10. SnapshotInv'
      BY <1>1, <1>4, <2>1, <2>2, SnapshotKeeps, Kinds DEF IInv
    <2> QED
      BY <1>1, <1>2, <1>3, <1>4, <2>1, <2>2, <2>3, <2>9, <2>10, ReportKeeps
         DEF IInv, KeysInv, clock, OfUser
  <1> QED
    BY <1>5, <1>6 DEF CheckDone

LEMMA ListUsersKeeps ==
    ASSUME IInv, NEW s \in Slots, ListUsers(s)
    PROVE  IInv'
  <1> DEFINE todo == ListUsersWithRecentSnapshots(Users)
  <1>1. Job(s) = "reports" /\ task[s].pc = "users" /\ task[s].pc # "idle"
    BY DEF ListUsers, At
  <1>2. /\ task[s] # NoTask /\ task[s] \in Report /\ ~(task[s].user \in Users)
        /\ task[s].today \in BOOLEAN
    BY <1>1, ReportIs DEF OfUser, Report
  <1>3. UNCHANGED <<world, nudgeKeys, best, reportDone, rows, clock, quiet, reported,
                    moveHistory>>
    BY DEF ListUsers
  <1>4. PICK today \in {task[s].today, TRUE} :
          /\ task' = [task EXCEPT ![s].pc = "build", ![s].today = today, ![s].todo = todo]
          /\ disturbed' = (disturbed \/ (today /\ \E t \in Slots \ {s} :
                                            Job(t) = "reports" /\ ~At(t, "idle")))
    BY DEF ListUsers
  <1>5. today \in BOOLEAN /\ disturbed' \in BOOLEAN /\ todo \in SUBSET Users
    BY <1>2, <1>4 DEF ListUsersWithRecentSnapshots, IInv, RowsInv
  <1>6. RowsInv' /\ UNCHANGED <<pos, snaps, moved, unseen, reported>>
    BY <1>3, <1>5 DEF IInv, RowsInv, world, rows, clock, moveHistory
  <1> DEFINE t == [task[s] EXCEPT !.pc = "build", !.today = today, !.todo = todo]
  <1>7. Changes(s, t)
    BY <1>4 DEF Changes
  <1> HIDE DEF todo
  <1>8. /\ t \in Report /\ t.pc = "build" /\ t.today = today /\ t.todo = todo
        /\ t.user = task[s].user
    BY <1>2, <1>5 DEF Report
  <1> HIDE DEF t
  <1>9. t # NoTask
    BY <1>8, NoRun
  <1>10. task'[s] = t /\ \A q \in Slots : q # s => task'[q] = task[q]
    BY <1>7, ChangesOne DEF IInv
  <1>11. ReportInv'
    <2> SUFFICES ASSUME ~disturbed' PROVE ReportInv'
      BY DEF ReportInv
    <2>1. /\ ~disturbed
          /\ today => \A q \in Slots : q # s /\ Job(q) = "reports" => task[q] = NoTask
      BY <1>4, Typed
    <2>2. \A u \in Users : reported'[u] = 0
      BY <1>1, <1>2, <1>3, <2>1 DEF IInv, ReportInv, Passed
    <2>3. \A q \in Slots : Reporting(q)' => q = s /\ today
      <3>1. MayReport(s)
        BY <1>1, <1>2 DEF MayReport
      <3>2. \A q \in Slots : Reporting(q) => q = s
        BY <2>1, <3>1 DEF IInv, ReportInv
      <3>3. Reporting(s)' => today
        BY <1>8, <1>10 DEF Reporting
      <3> QED
        BY <1>10, <3>2, <3>3 DEF Reporting
    <2>4. \A q, p \in Slots : MayReport(q)' /\ Reporting(p)' => q = p
      BY <1>10, <2>1, <2>3 DEF MayReport
    <2>5. \A q \in Slots : Reporting(q)' => task'[q].user \notin Users /\ task'[q].todo \subseteq Users
      BY <1>2, <1>5, <1>8, <1>10, <2>3
    <2> QED
      BY <2>2, <2>4, <2>5 DEF ReportInv
  <1>12. SnapshotInv'
    BY <1>1, <1>6, <1>7, <1>8, SnapshotKeeps, Kinds DEF IInv
  <1> QED
    BY <1>1, <1>2, <1>3, <1>6, <1>7, <1>8, <1>9, <1>11, <1>12, ReportKeeps
       DEF IInv, KeysInv, clock, OfUser

LEMMA ReadSnapshotsKeeps ==
    ASSUME IInv, NEW s \in Slots, ReadSnapshots(s)
    PROVE  IInv'
  <1> DEFINE delta == Delta24h(task[s].user, task[s].balance)
             t == [task[s] EXCEPT !.pc = "upsert", !.delta = delta]
  <1>1. Job(s) = "reports" /\ task[s].pc = "snapshots" /\ task[s].pc # "idle"
    BY DEF ReadSnapshots, At
  <1>2. /\ task[s] # NoTask /\ task[s] \in Report /\ task[s].user \in Users
    BY <1>1, ReportIs DEF OfUser
  <1>3. UNCHANGED <<world, nudgeKeys, best, reportDone, rows, clock, quiet, reportHistory,
                    moveHistory>>
    BY DEF ReadSnapshots
  <1>4. RowsInv' /\ UNCHANGED <<pos, snaps, moved, unseen, reported, disturbed>>
    BY <1>3 DEF IInv, RowsInv, world, rows, clock, moveHistory, reportHistory
  <1>5. delta \in Int
    <2>1. task[s].balance \in Int /\ snaps[task[s].user].yesterday \in Balance \cup {NoRecord}
      BY <1>2 DEF Report, Balance, IInv, RowsInv, Dates
    <2> QED
      BY <2>1 DEF Delta24h, ListSnapshots, Balance
  <1>6. Changes(s, t)
    BY DEF ReadSnapshots, Changes
  <1> HIDE DEF delta
  <1>7. /\ t \in Report /\ t.pc = "upsert" /\ t.today = task[s].today /\ t.todo = task[s].todo
        /\ t.user = task[s].user /\ t.balance = task[s].balance /\ t.fresh = task[s].fresh
    BY <1>2, <1>5 DEF Report
  <1> HIDE DEF t
  <1>8. t # NoTask
    BY <1>7, NoRun
  <1>9. ReportInv'
    BY <1>1, <1>2, <1>3, <1>4, <1>6, <1>7, <1>8, ReportIs, ReportMoves DEF IInv
  <1>10. SnapshotInv'
    BY <1>1, <1>4, <1>6, <1>7, ReportIs, SnapshotKeeps, Kinds DEF IInv
  <1> QED
    BY <1>1, <1>2, <1>3, <1>4, <1>6, <1>7, <1>8, <1>9, <1>10, ReportKeeps
       DEF IInv, KeysInv, clock, OfUser

LEMMA FinishReportsKeeps ==
    ASSUME IInv, NEW s \in Slots, FinishReports(s)
    PROVE  IInv'
  <1>1. Job(s) = "reports" /\ task[s].pc = "finish" /\ task[s].pc # "idle"
    BY DEF FinishReports, At
  <1>2. /\ task[s] # NoTask /\ task[s] \in Report
    BY <1>1, ReportIs
  <1>3. UNCHANGED <<world, nudgeKeys, best, rows, clock, quiet, reportHistory, moveHistory>>
    BY DEF FinishReports
  <1>4. RowsInv' /\ UNCHANGED <<pos, snaps, moved, unseen, reported, disturbed>>
    BY <1>3 DEF IInv, RowsInv, world, rows, clock, moveHistory, reportHistory
  <1>5. /\ reportDone \subseteq reportDone' /\ reportDone' \subseteq Dates
        /\ task[s].today => "today" \in reportDone'
    BY DEF FinishReports, SetReportDone, Date, Dates, IInv, KeysInv
  <1>6. Changes(s, NoTask)
    BY DEF FinishReports, End, Changes
  <1>7. ReportInv'
    BY <1>1, <1>2, <1>4, <1>5, <1>6, ReportMoves DEF IInv
  <1>8. SnapshotInv'
    BY <1>1, <1>4, <1>6, SnapshotKeeps, NoRun, Kinds DEF IInv
  <1> QED
    BY <1>1, <1>2, <1>3, <1>4, <1>5, <1>6, <1>7, <1>8, ReportKeeps
       DEF IInv, KeysInv, clock

LEMMA SendReportKeeps ==
    ASSUME IInv, NEW s \in Slots, SendReport(s)
    PROVE  IInv'
  <1> DEFINE t == NextUser(s)
             u == task[s].user
  <1>1. Job(s) = "reports" /\ task[s].pc = "send" /\ task[s].pc # "idle"
    BY DEF SendReport, At
  <1>2. /\ task[s] # NoTask /\ task[s] \in Report /\ u \in Users
    BY <1>1, ReportIs DEF OfUser
  <1>3. UNCHANGED <<world, nudgeKeys, best, reportDone, rows, clock, quiet, disturbed,
                    moveHistory>>
    BY DEF SendReport
  <1>4. \/ reported' = reported
        \/ task[s].today /\ reported' = [reported EXCEPT ![u] = reported[u] + 1]
    BY DEF SendReport
  <1>5. reported' \in [Users -> Nat]
    BY <1>2, <1>4 DEF IInv, RowsInv
  <1>6. RowsInv' /\ UNCHANGED <<pos, snaps, moved, unseen, disturbed>>
    BY <1>3, <1>5 DEF IInv, RowsInv, world, rows, clock, moveHistory
  <1>7. Changes(s, t)
    BY DEF SendReport, Changes
  <1>8. /\ t \in Report /\ t.pc = "build" /\ t.today = task[s].today /\ t.todo = task[s].todo
        /\ t.user = NoRecord /\ t.user \notin Users
    BY <1>2, NextUserIs, NamesAssumption
  <1> HIDE DEF t
  <1>9. t # NoTask
    BY <1>8, NoRun
  <1>10. ASSUME ~disturbed, task[s].today
         PROVE  /\ \A v \in task[s].todo : reported'[v] = 0
                /\ \A v \in Users : reported'[v] # reported[v] => reported'[v] \in {0, 1}
    <2>1. \A v \in task[s].todo : reported[v] = 0 /\ v # u
      BY <1>1, <1>2, <1>10, ReportIs
    <2>2. reported[u] = 0
      BY <1>1, <1>2, <1>10, ReportIs
    <2>3. task[s].todo \subseteq Users /\ reported \in [Users -> Nat]
      BY <1>2 DEF Report, IInv, RowsInv
    <2> QED
      BY <1>2, <1>4, <2>1, <2>2, <2>3
  <1>11. \A v \in Users : reported'[v] # reported[v] => task[s].today
    BY <1>4
  <1>12. ReportInv'
    BY <1>1, <1>2, <1>3, <1>7, <1>8, <1>9, <1>10, <1>11, ReportMoves DEF IInv
  <1>13. SnapshotInv'
    BY <1>1, <1>6, <1>7, <1>8, SnapshotKeeps, Kinds DEF IInv
  <1> QED
    BY <1>1, <1>2, <1>3, <1>6, <1>7, <1>8, <1>9, <1>12, <1>13, ReportKeeps
       DEF IInv, KeysInv, clock, OfUser

LEMMA ActBounded ==
    ASSUME IInv, Act \/ UNCHANGED acts
    PROVE  acts' \in 0..MaxActs
  BY Bounds DEF IInv, RowsInv, Act

LEMMA DiscoverKeeps ==
    ASSUME IInv, NEW s \in Slots, Discover(s)
    PROVE  IInv'
  <1>1. Job(s) = "reports" /\ task[s].pc = "build" /\ task[s].pc # "idle"
    BY DEF Discover, At
  <1>2. /\ task[s] # NoTask /\ task[s] \in Report /\ ~(task[s].user \in Users)
    BY <1>1, ReportIs DEF OfUser
  <1>3. /\ UNCHANGED <<world, nudgeKeys, best, reportDone, rows, period, fired, quiet,
                       reportHistory, moveHistory>>
        /\ Act \/ UNCHANGED acts
    BY DEF Discover, ProbeFails
  <1>4. acts' \in 0..MaxActs
    BY <1>3, ActBounded
  <1>5. RowsInv' /\ UNCHANGED <<pos, snaps, moved, unseen, reported, disturbed>>
    BY <1>3, <1>4 DEF IInv, RowsInv, world, rows, moveHistory, reportHistory
  <1>6. task[s].todo \subseteq Users /\ (~disturbed /\ task[s].today =>
           \A u \in task[s].todo : reported[u] = 0)
    BY <1>1, <1>2, ReportIs DEF Report
  <1>7. ASSUME NEW t \in Report, Changes(s, t), t.today = task[s].today,
               t.pc \in {"build", "snapshots", "finish"}, t.todo \subseteq task[s].todo,
               t.user \in Users <=> t.pc \in OfUser,
               t.user \in Users => /\ t.user \in task[s].todo \ t.todo
                                   /\ t.balance = pos[t.user]
        PROVE  IInv'
    <2>1. t # NoTask
      BY <1>7, NoRun
    <2>2. ReportInv'
      BY <1>1, <1>2, <1>3, <1>5, <1>6, <1>7, <2>1, ReportMoves DEF IInv
    <2>3. SnapshotInv'
      BY <1>1, <1>5, <1>7, SnapshotKeeps, Kinds DEF IInv, OfUser
    <2> QED
      BY <1>1, <1>2, <1>3, <1>5, <1>7, <2>2, <2>3, ReportKeeps DEF IInv, KeysInv
  <1>8. ASSUME NEW u \in task[s].todo,
               task' = [task EXCEPT ![s] = [[task[s] EXCEPT !.todo = @ \ {u}]
                           EXCEPT !.pc = "snapshots", !.user = u,
                                  !.balance = GetUserPosition(u), !.fresh = TRUE]]
        PROVE  IInv'
    <2> DEFINE todo == task[s].todo \ {u}
               b == GetUserPosition(u)
               r == [task[s] EXCEPT !.todo = todo]
               t == [r EXCEPT !.pc = "snapshots", !.user = u, !.balance = b, !.fresh = TRUE]
    <2>1. u \in Users /\ todo \in SUBSET Users /\ b = pos[u] /\ b \in Balance
      <3>1. /\ idle[u] \in Nat /\ pos[u] \in Nat /\ idle[u] + pos[u] <= MaxBalance
            /\ MaxBalance \in Nat
        BY <1>6, Bounds DEF IInv, WorldInv
      <3>2. pos[u] \in 0..MaxBalance
        BY <3>1
      <3> QED
        BY <1>6, <3>2 DEF GetUserPosition, Balance
    <2>2. Changes(s, t)
      BY <1>8 DEF Changes
    <2> HIDE DEF b, todo
    <2>3. r \in Report /\ r.todo = todo /\ r.today = task[s].today
      BY <1>2, <2>1 DEF Report
    <2> HIDE DEF r
    <2>4. /\ t \in Report /\ t.pc = "snapshots" /\ t.today = task[s].today /\ t.todo = todo
          /\ t.user = u /\ t.balance = b
      BY <2>1, <2>3 DEF Report
    <2> HIDE DEF t
    <2>5. todo \subseteq task[s].todo /\ u \in task[s].todo \ todo
      BY DEF todo
    <2> QED
      BY <1>7, <2>1, <2>2, <2>4, <2>5 DEF OfUser
  <1>9. ASSUME NEW u \in task[s].todo, task' = [task EXCEPT ![s] = [task[s] EXCEPT !.todo = @ \ {u}]]
        PROVE  IInv'
    <2> DEFINE todo == task[s].todo \ {u}
               t == [task[s] EXCEPT !.todo = todo]
    <2>1. Changes(s, t) /\ todo \in SUBSET Users /\ todo \subseteq task[s].todo
      BY <1>6, <1>9 DEF Changes
    <2> HIDE DEF todo
    <2>2. /\ t \in Report /\ t.pc = "build" /\ t.today = task[s].today /\ t.todo = todo
          /\ t.user = task[s].user
      BY <1>1, <1>2, <2>1 DEF Report
    <2> HIDE DEF t
    <2> QED
      BY <1>2, <1>7, <2>1, <2>2 DEF OfUser
  <1>10. ASSUME GoTo(s, "finish") PROVE IInv'
    <2> DEFINE t == [task[s] EXCEPT !.pc = "finish"]
    <2>1. Changes(s, t)
      BY <1>10 DEF Changes, GoTo
    <2>2. /\ t \in Report /\ t.pc = "finish" /\ t.today = task[s].today
          /\ t.todo = task[s].todo /\ t.user = task[s].user
      BY <1>2 DEF Report
    <2> HIDE DEF t
    <2> QED
      BY <1>2, <1>7, <2>1, <2>2 DEF OfUser
  <1> QED
    BY <1>8, <1>9, <1>10 DEF Discover

\* A snapshot is taken by a report or by the bot loop.
LEMMA UpsertType ==
    ASSUME IInv, NEW u \in Users, NEW balance \in Balance, NEW fresh \in BOOLEAN,
           UpsertSnapshot(u, balance), Seen(u, fresh)
    PROVE  /\ snaps' \in [Users -> [Dates -> Balance \cup {NoRecord}]]
           /\ known' \subseteq Users /\ unseen' \in [Users -> SUBSET Dates]
           /\ snaps'[u]["today"] = balance /\ snaps'[u]["yesterday"] = snaps[u]["yesterday"]
           /\ "yesterday" \in unseen[u] => "yesterday" \in unseen'[u]
           /\ ~fresh => "today" \in unseen'[u]
           /\ \A v \in Users : v # u => snaps'[v] = snaps[v] /\ unseen'[v] = unseen[v]
  <1>1. /\ snaps \in [Users -> [Dates -> Balance \cup {NoRecord}]] /\ known \subseteq Users
        /\ unseen \in [Users -> SUBSET Dates]
    BY DEF IInv, RowsInv
  <1>2. /\ snaps' = [snaps EXCEPT ![u] = [snaps[u] EXCEPT !["today"] = balance]]
        /\ known' = known \cup {u}
    BY DEF UpsertSnapshot
  <1>3. unseen' = [unseen EXCEPT ![u] = IF fresh THEN unseen[u] \ {"today"}
                                        ELSE unseen[u] \cup {"today"}]
    BY DEF Seen
  <1>4. [snaps[u] EXCEPT !["today"] = balance] \in [Dates -> Balance \cup {NoRecord}]
    BY <1>1 DEF Dates
  <1>5. /\ [snaps[u] EXCEPT !["today"] = balance]["today"] = balance
        /\ [snaps[u] EXCEPT !["today"] = balance]["yesterday"] = snaps[u]["yesterday"]
    BY <1>1 DEF Dates
  <1> QED
    BY <1>1, <1>2, <1>3, <1>4, <1>5 DEF Dates

LEMMA UpsertReportedKeeps ==
    ASSUME IInv, NEW s \in Slots, UpsertReported(s)
    PROVE  IInv'
  <1> DEFINE t == [task[s] EXCEPT !.pc = "send"]
             u == task[s].user
             b == task[s].balance
  <1>1. Job(s) = "reports" /\ task[s].pc = "upsert" /\ task[s].pc # "idle"
    BY DEF UpsertReported, At
  <1>2. /\ task[s] # NoTask /\ task[s] \in Report /\ u \in Users
    BY <1>1, ReportIs DEF OfUser
  <1>3. /\ UNCHANGED <<world, nudgeKeys, best, reportDone, clock, quiet, reportHistory, moved>>
        /\ UpsertSnapshot(u, b) /\ Seen(u, task[s].fresh)
    BY DEF UpsertReported
  <1>4. b \in Balance /\ task[s].fresh \in BOOLEAN
    BY <1>2 DEF Report
  <1>5. Changes(s, t)
    BY DEF UpsertReported, GoTo, Changes
  <1>6. /\ t \in Report /\ t.pc = "send" /\ t.today = task[s].today /\ t.todo = task[s].todo
        /\ t.user = task[s].user
    BY <1>2 DEF Report
  <1> HIDE DEF t
  <1>7. t # NoTask
    BY <1>6, NoRun
  <1>8. RowsInv' /\ UNCHANGED <<pos, moved, reported, disturbed>>
    BY <1>2, <1>3, <1>4, UpsertType
       DEF IInv, RowsInv, world, clock, reportHistory
  <1>9. ReportInv'
    BY <1>1, <1>2, <1>3, <1>5, <1>6, <1>7, <1>8, ReportIs, ReportMoves DEF IInv
  <1>10. task'[s] = t /\ \A q \in Slots : q # s => task'[q] = task[q]
    BY <1>5, ChangesOne DEF IInv
  <1>11. \A q \in Slots : FreshInv(q)'
    BY <1>1, <1>6, <1>8, <1>10, Kinds DEF IInv, SnapshotInv, FreshInv, At
  <1>12. ASSUME NEW v \in Users PROVE SnapInv(v)'
    <2>1. Finalizing(v)' <=> Finalizing(v)
      BY <1>1, <1>10, Kinds DEF Finalizing
    <2>2. SnapInv(v)
      BY DEF IInv, SnapshotInv
    <2>3. CASE v # u
      BY <1>2, <1>3, <1>4, <1>8, <2>1, <2>2, <2>3, UpsertType DEF SnapInv
    <2>4. CASE v = u
      <3>1. task[s].fresh => b = pos[u]
        BY <1>1, ReportIs
      <3> QED
        BY <1>2, <1>3, <1>4, <1>8, <2>2, <2>4, <3>1, UpsertType DEF SnapInv
    <2> QED
      BY <2>3, <2>4
  <1>13. SnapshotInv'
    BY <1>11, <1>12 DEF SnapshotInv
  <1> QED
    BY <1>1, <1>2, <1>3, <1>5, <1>6, <1>7, <1>8, <1>9, <1>13, ReportKeeps
       DEF IInv, KeysInv, clock, OfUser

--------------------------------------------------------------------------------
(* The bot loop                                                            *)

\* The deposit or withdrawal under way.
LEMMA FlowIs ==
    ASSUME IInv, task[Flow].pc # "idle"
    PROVE  /\ Flow \in Slots /\ task[Flow] # NoTask /\ task[Flow] \in Capability
           /\ Me \in Users /\ task[Flow].amount \in Balance
           /\ Job(Flow) = "flow" /\ Job(Flow) \notin Users \cup {"reports", "view"}
           /\ At(Flow, "upsert") => task[Flow].amount = pos[Me]
  <1>1. Flow \in Slots /\ Job(Flow) = "flow" /\ Job(Flow) \notin Users \cup {"reports", "view"}
    BY Kinds, NamesAssumption DEF Slots, Flow, Job
  <1>2. task[Flow] # NoTask
    BY NoRun
  <1>3. task[Flow] \in Capability
    BY <1>1, <1>2, RunKinds DEF IInv, TaskInv
  <1>4. FreshInv(Flow)
    BY <1>1 DEF IInv, SnapshotInv
  <1> QED
    BY <1>1, <1>2, <1>3, <1>4 DEF Capability, Me, FreshInv

\* What a step of the bot loop keeps, if the snapshots are kept.
LEMMA FlowKeeps ==
    ASSUME IInv, task[Flow].pc # "idle", NEW t, Changes(Flow, t),
           t = NoTask \/ t \in Capability,
           UNCHANGED <<best, cooldown, quiet, reportDone, reportHistory>>,
           WorldInv', RowsInv', SnapshotInv', nudgePending' \in [Users -> Ttl]
    PROVE  IInv'
  <1>1. TaskInv'
    BY FlowIs, TaskKeeps DEF IInv, Fits, ReportUser
  <1>2. NudgeInv' /\ ReportInv'
    BY FlowIs, NudgeFrame, ReportFrame DEF IInv, reportHistory
  <1>3. KeysInv'
    BY DEF IInv, KeysInv
  <1> QED
    BY <1>1, <1>2, <1>3 DEF IInv

LEMMA PlanDepositKeeps ==
    ASSUME IInv, PlanDeposit
    PROVE  IInv'
  <1>1. task[Flow].pc = "plan" /\ task[Flow].pc # "idle"
    BY DEF PlanDeposit, At
  <1>2. UNCHANGED <<world, cooldown, best, reportDone, rows, clock, quiet, reportHistory,
                    moveHistory>>
    BY DEF PlanDeposit
  <1>3. nudgePending' \in [Users -> Ttl]
    BY <1>1, FlowIs, Typed DEF PlanDeposit
  <1>4. WorldInv' /\ RowsInv' /\ UNCHANGED <<pos, snaps, moved, unseen>>
    BY <1>2 DEF IInv, WorldInv, RowsInv, world, rows, clock, reportHistory, moveHistory
  <1>5. \A u \in Users : ~Finalizing(u)
    BY <1>1 DEF Finalizing
  <1>6. \E t : Changes(Flow, t) /\ (t = NoTask \/ t \in Capability) /\ t.pc # "upsert"
    <2>1. CASE End(Flow)
      BY <2>1, NoRun DEF End, Changes
    <2>2. CASE GoTo(Flow, "sign")
      <3> DEFINE t == [task[Flow] EXCEPT !.pc = "sign"]
      <3>1. Changes(Flow, t)
        BY <2>2 DEF GoTo, Changes
      <3>2. t \in Capability /\ t.pc = "sign"
        BY <1>1, FlowIs DEF Capability
      <3> QED
        BY <3>1, <3>2
    <2> QED
      BY <2>1, <2>2 DEF PlanDeposit, Continue
  <1>7. PICK t : Changes(Flow, t) /\ (t = NoTask \/ t \in Capability) /\ t.pc # "upsert"
    BY <1>6
  <1>8. SnapshotInv'
    BY <1>1, <1>4, <1>5, <1>7, FlowIs, SnapshotKeeps DEF IInv
  <1> QED
    BY <1>1, <1>2, <1>3, <1>4, <1>7, <1>8, FlowKeeps

LEMMA GiveUpKeeps ==
    ASSUME IInv, GiveUp
    PROVE  IInv'
  <1>1. task[Flow].pc \in {"sign", "signAll"} /\ task[Flow].pc # "idle"
    BY DEF GiveUp
  <1>2. UNCHANGED <<world, nudgeKeys, best, reportDone, rows, clock, quiet, reportHistory,
                    moveHistory>>
    BY DEF GiveUp
  <1>3. WorldInv' /\ RowsInv' /\ UNCHANGED <<pos, snaps, moved, unseen>>
    BY <1>2 DEF IInv, WorldInv, RowsInv, world, rows, clock, reportHistory, moveHistory
  <1>4. \A u \in Users : ~Finalizing(u)
    BY <1>1 DEF Finalizing
  <1>5. Changes(Flow, NoTask)
    BY DEF GiveUp, End, Changes
  <1>6. SnapshotInv'
    BY <1>1, <1>3, <1>4, <1>5, NoRun, FlowIs, SnapshotKeeps DEF IInv
  <1> QED
    BY <1>1, <1>2, <1>3, <1>5, <1>6, FlowKeeps, Typed DEF nudgeKeys

LEMMA DiscoverDepositKeeps ==
    ASSUME IInv, DiscoverDeposit
    PROVE  IInv'
  <1>1. task[Flow].pc = "discover" /\ task[Flow].pc # "idle"
    BY DEF DiscoverDeposit, At
  <1>2. UNCHANGED <<world, nudgeKeys, best, reportDone, rows, period, fired, quiet,
                    reportHistory, moved>>
    BY DEF DiscoverDeposit
  <1>3. acts' \in 0..MaxActs
    BY ActBounded DEF DiscoverDeposit, ProbeFails
  <1>4. \/ unseen' = unseen
        \/ unseen' = [unseen EXCEPT ![Me] = unseen[Me] \cup {"today"}] /\ End(Flow)
    BY DEF DiscoverDeposit
  <1>5. /\ unseen' \in [Users -> SUBSET Dates]
        /\ \A u \in Users : unseen[u] \subseteq unseen'[u]
        /\ unseen' # unseen => "today" \in unseen'[Me]
    BY <1>1, <1>4, FlowIs DEF IInv, RowsInv, Dates
  <1>6. WorldInv' /\ RowsInv' /\ UNCHANGED <<pos, snaps, moved>>
    BY <1>2, <1>3, <1>5 DEF IInv, WorldInv, RowsInv, world, rows, reportHistory
  <1>7. pos[Me] \in Balance
    <2>1. /\ idle[Me] \in Nat /\ pos[Me] \in Nat /\ idle[Me] + pos[Me] <= MaxBalance
          /\ MaxBalance \in Nat
      BY <1>1, FlowIs, Bounds DEF IInv, WorldInv
    <2> QED
      BY <2>1 DEF Balance
  <1>8. CASE task' = [task EXCEPT ![Flow].pc = "upsert", ![Flow].amount = GetUserPosition(Me)]
    <2> DEFINE b == pos[Me]
               t == [task[Flow] EXCEPT !.pc = "upsert", !.amount = b]
    <2>1. Changes(Flow, t)
      BY <1>8 DEF Changes, GetUserPosition
    <2>2. b \in Balance
      BY <1>7
    <2> HIDE DEF b
    <2>3. t \in Capability /\ t.pc = "upsert" /\ t.amount = b /\ t.user = Me
      BY <1>1, <2>2, FlowIs DEF Capability, Me
    <2> HIDE DEF t
    <2>4. b = pos[Me]
      BY DEF b
    <2>5. SnapshotInv'
      <3>1. \A u \in Users : Finalizing(u) => t.pc \in {"discover", "upsert"} /\ t.user = u
        BY <2>3 DEF Finalizing, Me
      <3> QED
        BY <1>1, <1>5, <1>6, <2>1, <2>3, <2>4, <3>1, FlowIs, SnapshotKeeps DEF IInv
    <2> QED
      BY <1>1, <1>2, <1>6, <2>1, <2>3, <2>5, FlowKeeps, Typed DEF nudgeKeys
  <1>9. CASE End(Flow) /\ "today" \in unseen'[Me]
    <2>1. Changes(Flow, NoTask)
      BY <1>9 DEF End, Changes
    <2>2. SnapshotInv'
      <3>1. \A u \in Users : Finalizing(u) => "today" \in unseen'[u]
        BY <1>9 DEF Finalizing, Me
      <3> QED
        BY <1>1, <1>5, <1>6, <2>1, <3>1, NoRun, FlowIs, SnapshotKeeps DEF IInv
    <2> QED
      BY <1>1, <1>2, <1>6, <2>1, <2>2, FlowKeeps, Typed DEF nudgeKeys
  <1>10. unseen' = [unseen EXCEPT ![Me] = unseen[Me] \cup {"today"}] => "today" \in unseen'[Me]
    BY <1>1, FlowIs DEF IInv, RowsInv
  <1> QED
    BY <1>8, <1>9, <1>10 DEF DiscoverDeposit

LEMMA UpsertDepositedKeeps ==
    ASSUME IInv, UpsertDeposited
    PROVE  IInv'
  <1> DEFINE b == task[Flow].amount
  <1>1. task[Flow].pc = "upsert" /\ task[Flow].pc # "idle" /\ At(Flow, "upsert")
    BY DEF UpsertDeposited, At
  <1>2. /\ Me \in Users /\ b \in Balance /\ b = pos[Me]
        /\ Flow \in Slots /\ Job(Flow) \notin Users \cup {"reports", "view"}
    BY <1>1, FlowIs
  <1>3. /\ UNCHANGED <<world, nudgeKeys, best, reportDone, clock, quiet, reportHistory, moved>>
        /\ UpsertSnapshot(Me, b) /\ Seen(Me, TRUE)
    BY DEF UpsertDeposited
  <1>4. Changes(Flow, NoTask)
    BY DEF UpsertDeposited, End, Changes
  <1>5. WorldInv' /\ RowsInv' /\ UNCHANGED <<pos, moved>>
    BY <1>2, <1>3, UpsertType
       DEF IInv, WorldInv, RowsInv, world, clock, reportHistory
  <1>6. task'[Flow] = NoTask /\ \A q \in Slots : q # Flow => task'[q] = task[q]
    BY <1>2, <1>4, ChangesOne DEF IInv
  <1>7. \A q \in Slots : FreshInv(q)'
    BY <1>5, <1>6, NoRun DEF IInv, SnapshotInv, FreshInv, At
  <1>8. ASSUME NEW v \in Users PROVE SnapInv(v)'
    <2>1. SnapInv(v)
      BY DEF IInv, SnapshotInv
    <2>2. CASE v # Me
      <3>1. ~Finalizing(v)
        BY <2>2 DEF Finalizing, Me
      <3> QED
        BY <1>2, <1>3, <1>5, <2>1, <2>2, <3>1, UpsertType DEF SnapInv
    <2>3. CASE v = Me
      BY <1>2, <1>3, <1>5, <2>1, <2>3, UpsertType DEF SnapInv
    <2> QED
      BY <2>2, <2>3
  <1>9. SnapshotInv'
    BY <1>7, <1>8 DEF SnapshotInv
  <1> QED
    BY <1>1, <1>3, <1>4, <1>5, <1>9, FlowKeeps, Typed DEF nudgeKeys

\* Several runs change, and none is new.
LEMMA TasksKeep ==
    ASSUME TaskInv, task' = [s \in Slots |-> task'[s]],
           \A s \in Slots : Fits(s, task'[s]) /\ ReportUser(s, task'[s]),
           \A s \in Slots : task[s] = NoTask => task'[s] = NoTask
    PROVE  TaskInv'
  <1>1. Busy' \subseteq Busy
    BY BusyIs, NoRun DEF Busy, At
  <1>2. IsFiniteSet(Busy') /\ Cardinality(Busy') <= Cardinality(Busy)
    BY <1>1, FS_Subset DEF TaskInv
  <1>3. Cardinality(Busy) \in Nat /\ Cardinality(Busy') \in Nat
    BY <1>2, FS_CardinalityType DEF TaskInv
  <1>4. Cardinality(Busy') <= MaxBusy
    BY <1>2, <1>3, Bounds DEF TaskInv
  <1> QED
    BY <1>2, <1>4 DEF TaskInv, ReportUser

\* What a run is apart from its marks late and fresh.
Same(q) ==
    /\ (task'[q] = NoTask) <=> (task[q] = NoTask)
    /\ task'[q].pc = task[q].pc
    /\ Job(q) \in Users /\ task[q] # NoTask => task'[q].alone = task[q].alone

LEMMA NudgesSame ==
    ASSUME NudgeInv, \A q \in Slots : Job(q) \in Users => Same(q),
           UNCHANGED <<quiet, cooldown>>
    PROVE  NudgeInv'
  <1>1. ASSUME NEW q \in Slots PROVE ScanInv(q)'
    <2>1. CASE Job(q) \in Users
      <3>1. Other(q) \in Slots /\ Job(Other(q)) = Job(q)
        BY <2>1, OtherSlot, Kinds
      <3> QED
        BY <2>1, <3>1 DEF NudgeInv, ScanInv, Same
    <2>2. CASE Job(q) \notin Users
      BY <2>2 DEF ScanInv
    <2> QED
      BY <2>1, <2>2
  <1>2. \A u \in Users : CooldownInv(u)'
    BY DEF NudgeInv, CooldownInv, At, Same
  <1> QED
    BY <1>1, <1>2 DEF NudgeInv

LEMMA ReportsSame ==
    ASSUME TaskInv, ReportInv, UNCHANGED <<reported, reportDone, disturbed>>,
           \A q \in Slots : Job(q) = "reports" =>
              /\ (task'[q] = NoTask) <=> (task[q] = NoTask)
              /\ task[q] # NoTask => /\ task'[q].pc = task[q].pc
                                     /\ task'[q].today = task[q].today
                                     /\ task'[q].todo = task[q].todo
                                     /\ task'[q].user = task[q].user
    PROVE  ReportInv'
  <1>1. \A q \in Slots : /\ MayReport(q)' <=> MayReport(q)
                         /\ Reporting(q)' <=> Reporting(q)
                         /\ Passed(q)' <=> Passed(q)
                         /\ Reporting(q) => /\ task'[q].todo = task[q].todo
                                            /\ task'[q].user = task[q].user
    BY DEF MayReport, Reporting, Passed
  <1> QED
    BY <1>1 DEF ReportInv

\* A transaction is executed.
LEMMA ExecuteKeeps ==
    ASSUME IInv, task[Flow].pc \in {"sign", "signAll"}, NEW amount \in Int,
           amount <= idle[Me], -amount <= pos[Me],
           NEW answered \in BOOLEAN, NEW t, Execute(Me, amount, answered, t),
           IF answered THEN t \in Capability /\ t.pc = "discover" /\ t.user = Me
                       ELSE t = NoTask
    PROVE  IInv'
  <1>1. /\ task[Flow].pc # "idle" /\ Me \in Users /\ Flow \in Slots
        /\ Job(Flow) \notin Users \cup {"reports", "view"} /\ task[Flow] # NoTask
    BY FlowIs
  <1>2. UNCHANGED <<session, nudgeKeys, best, reportDone, rows, clock, quiet, reportHistory>>
    BY DEF Execute
  <1>3. /\ idle' = [idle EXCEPT ![Me] = idle[Me] - amount]
        /\ pos' = [pos EXCEPT ![Me] = pos[Me] + amount]
        /\ moved' = moved \cup {Me}
        /\ unseen' = IF answered THEN unseen
                     ELSE [unseen EXCEPT ![Me] = unseen[Me] \cup {"today"}]
    BY DEF Execute
  <1>4. task' = [s \in Slots |->
          IF s = Flow THEN t
          ELSE IF Job(s) \in {"reports", "view"} /\ ~At(s, "idle") /\ task[s].user = Me
               THEN [task[s] EXCEPT !.fresh = FALSE] ELSE task[s]]
    BY DEF Execute
  <1>5. /\ task' = [s \in Slots |-> task'[s]] /\ task'[Flow] = t
        /\ \A s \in Slots : s # Flow /\ ~(Job(s) \in {"reports", "view"} /\ task[s] # NoTask) =>
              task'[s] = task[s]
    BY <1>1, <1>4, Typed
  <1>6. ASSUME NEW s \in Slots, Job(s) \in {"reports", "view"}, task[s] # NoTask
        PROVE  /\ task'[s] # NoTask /\ task'[s].pc = task[s].pc
               /\ task'[s].user = task[s].user /\ task'[s].balance = task[s].balance
               /\ task'[s].fresh => task[s].fresh /\ task[s].user # Me
               /\ Job(s) = "reports" => /\ task'[s] \in Report
                                       /\ task'[s].today = task[s].today
                                       /\ task'[s].todo = task[s].todo
               /\ Job(s) = "view" => task'[s] \in Positions /\ task[s].user \in Users
    <2>1. /\ Job(s) = "reports" => task[s] \in Report
          /\ Job(s) = "view" => task[s] \in Positions
          /\ s # Flow /\ ~At(s, "idle")
      BY <1>1, <1>6, RunKinds, Kinds, Typed DEF IInv, TaskInv
    <2> DEFINE r == [task[s] EXCEPT !.fresh = FALSE]
    <2>2. /\ r.pc = task[s].pc /\ r.user = task[s].user
          /\ r.balance = task[s].balance /\ r.fresh = FALSE
          /\ Job(s) = "reports" => /\ r \in Report /\ r.today = task[s].today
                                  /\ r.todo = task[s].todo
          /\ Job(s) = "view" => r \in Positions
      <3>1. CASE Job(s) = "reports"
        BY <2>1, <3>1 DEF Report
      <3>2. CASE Job(s) = "view"
        BY <2>1, <3>2 DEF Positions
      <3> QED
        BY <1>6, <3>1, <3>2
    <2>3. task'[s] = IF task[s].user = Me THEN r ELSE task[s]
      BY <1>4, <1>6, <2>1
    <2>4. task[s].pc # "idle"
      BY <1>6, <2>1 DEF At
    <2> HIDE DEF r
    <2>5. task'[s].pc # "idle"
      BY <2>2, <2>3, <2>4
    <2>6. Job(s) = "view" => task[s].user \in Users
      BY <2>1 DEF Positions
    <2> QED
      BY <1>6, <2>1, <2>2, <2>3, <2>5, <2>6, NoRun
  <1>7. TaskInv'
    <2>1. ASSUME NEW s \in Slots
          PROVE  /\ Fits(s, task'[s]) /\ ReportUser(s, task'[s])
                 /\ task[s] = NoTask => task'[s] = NoTask
      <3>1. CASE s = Flow
        BY <1>1, <1>5, <3>1 DEF Fits, ReportUser
      <3>2. CASE s # Flow /\ ~(Job(s) \in {"reports", "view"} /\ task[s] # NoTask)
        BY <1>5, <3>2 DEF IInv, TaskInv, ReportUser
      <3>3. CASE Job(s) \in {"reports", "view"} /\ task[s] # NoTask
        BY <1>6, <3>3, Kinds DEF Fits, ReportUser, IInv, TaskInv
      <3> QED
        BY <3>1, <3>2, <3>3
    <2> QED
      BY <1>5, <2>1, TasksKeep DEF IInv
  <1>8. WorldInv'
    <2>1. \A u \in Users : idle[u] \in Nat /\ pos[u] \in Nat /\ idle[u] + pos[u] <= MaxBalance
      BY DEF IInv, WorldInv
    <2>2. idle[Me] - amount \in Nat /\ pos[Me] + amount \in Nat
      BY <1>1, <2>1
    <2>3. idle[Me] - amount + (pos[Me] + amount) <= MaxBalance
      BY <1>1, <2>1, Bounds
    <2> QED
      BY <1>1, <1>2, <1>3, <2>1, <2>2, <2>3 DEF IInv, WorldInv
  <1>9. /\ unseen' \in [Users -> SUBSET Dates]
        /\ \A u \in Users : unseen[u] \subseteq unseen'[u]
        /\ ~answered => "today" \in unseen'[Me]
    BY <1>1, <1>3 DEF IInv, RowsInv, Dates
  <1>10. RowsInv' /\ KeysInv'
    BY <1>1, <1>2, <1>3, <1>9 DEF IInv, RowsInv, KeysInv, nudgeKeys, rows, clock, reportHistory
  <1>11. NudgeInv'
    <2>1. \A q \in Slots : Job(q) \in Users => Same(q)
      BY <1>1, <1>5, Kinds DEF Same
    <2> QED
      BY <1>2, <2>1, NudgesSame DEF IInv, nudgeKeys
  <1>12. ReportInv'
    <2>1. \A q \in Slots : Job(q) = "reports" => q # Flow
      BY <1>1
    <2> QED
      BY <1>2, <1>5, <1>6, <2>1, ReportsSame DEF IInv, reportHistory
  <1>13. ASSUME NEW q \in Slots PROVE FreshInv(q)'
    <2>1. FreshInv(q)
      BY DEF IInv, SnapshotInv
    <2>2. CASE Job(q) \in {"reports", "view"} /\ task[q] # NoTask
      <3>1. q # Flow
        BY <1>1, <2>2
      <3>2. task'[q].pc \in {"snapshots", "upsert"} /\ task'[q].fresh =>
               task'[q].balance = pos[task'[q].user] /\ task'[q].user \in Users \ {Me}
        <4>1. task[q].pc \in {"snapshots", "upsert"} => task[q].user \in Users
          BY <1>6, <2>2 DEF IInv, TaskInv, OfUser
        <4> QED
          BY <1>6, <2>1, <2>2, <4>1 DEF FreshInv
      <3> QED
        BY <1>3, <3>1, <3>2 DEF FreshInv, IInv, WorldInv
    <2>3. CASE q = Flow
      BY <1>1, <1>5, <2>3, NoRun DEF FreshInv, At
    <2>4. CASE q # Flow /\ ~(Job(q) \in {"reports", "view"} /\ task[q] # NoTask)
      <3>1. Job(q) \in {"reports", "view"} => task'[q].pc = "idle"
        BY <1>5, <2>4, NoRun
      <3> QED
        BY <2>4, <3>1 DEF FreshInv
    <2> QED
      BY <2>2, <2>3, <2>4
  <1>14. ASSUME NEW u \in Users PROVE SnapInv(u)'
    <2>1. SnapInv(u) /\ ~Finalizing(u)
      BY DEF IInv, SnapshotInv, Finalizing
    <2>2. CASE u = Me
      <3>1. "today" \in unseen'[u] \/ Finalizing(u)'
        BY <1>5, <1>9, <2>2 DEF Finalizing
      <3> QED
        BY <1>3, <2>2, <3>1 DEF SnapInv
    <2>3. CASE u # Me
      <3>1. pos'[u] = pos[u] /\ snaps' = snaps /\ unseen'[u] = unseen[u]
        BY <1>2, <1>3, <2>3 DEF IInv, WorldInv, RowsInv, rows
      <3> QED
        BY <1>3, <2>1, <3>1 DEF SnapInv
    <2> QED
      BY <2>2, <2>3
  <1> QED
    BY <1>7, <1>8, <1>10, <1>11, <1>12, <1>13, <1>14 DEF IInv, SnapshotInv

LEMMA DepositKeeps ==
    ASSUME IInv, NEW answered \in BOOLEAN, Deposit(answered)
    PROVE  IInv'
  <1> DEFINE t == IF answered THEN [task[Flow] EXCEPT !.pc = "discover"] ELSE NoTask
             amount == task[Flow].amount
  <1>1. task[Flow].pc = "sign" /\ task[Flow].pc # "idle" /\ amount <= idle[Me]
    BY Bounds, FlowIs DEF Deposit, At, Balance, IInv, WorldInv
  <1>2. Me \in Users /\ amount \in Nat /\ pos[Me] \in Nat /\ task[Flow] \in Capability
    BY <1>1, FlowIs, Bounds DEF Balance, IInv, WorldInv
  <1>3. Execute(Me, amount, answered, t)
    BY DEF Deposit
  <1>4. IF answered THEN t \in Capability /\ t.pc = "discover" /\ t.user = Me
                    ELSE t = NoTask
    BY <1>2 DEF Capability, Me
  <1>5. amount \in Int /\ -amount <= pos[Me]
    BY <1>2
  <1> HIDE DEF t, amount
  <1> QED
    BY <1>1, <1>3, <1>4, <1>5, ExecuteKeeps

LEMMA WithdrawAllKeeps ==
    ASSUME IInv, WithdrawAll
    PROVE  IInv'
  <1> DEFINE amount == -pos[Me]
  <1>1. task[Flow].pc = "signAll" /\ task[Flow].pc # "idle"
    BY DEF WithdrawAll, At
  <1>2. Me \in Users /\ pos[Me] \in Nat /\ idle[Me] \in Nat
    BY <1>1, FlowIs DEF IInv, WorldInv
  <1>3. Execute(Me, amount, FALSE, NoTask)
    BY DEF WithdrawAll
  <1>4. amount \in Int /\ amount <= idle[Me] /\ -amount <= pos[Me]
    BY <1>2
  <1> HIDE DEF amount
  <1> QED
    BY <1>1, <1>3, <1>4, ExecuteKeeps

--------------------------------------------------------------------------------
(* Starting and failing                                                    *)

\* A run starts.
LEMMA TaskStarts ==
    ASSUME TaskInv, NEW s \in Slots, Cardinality(Busy) < MaxBusy,
           task' = [q \in Slots |-> task'[q]],
           \A q \in Slots : Fits(q, task'[q]) /\ ReportUser(q, task'[q]),
           \A q \in Slots \ {s} : task[q] = NoTask => task'[q] = NoTask
    PROVE  TaskInv'
  <1>1. Busy' \subseteq Busy \cup {s}
    BY BusyIs, NoRun DEF Busy, At
  <1>2. IsFiniteSet(Busy) /\ Cardinality(Busy) \in Nat
    BY FS_CardinalityType DEF TaskInv
  <1>3. /\ IsFiniteSet(Busy \cup {s})
        /\ Cardinality(Busy \cup {s}) \in {Cardinality(Busy), Cardinality(Busy) + 1}
    BY <1>2, FS_AddElement
  <1>4. IsFiniteSet(Busy') /\ Cardinality(Busy') <= Cardinality(Busy \cup {s})
    BY <1>1, <1>3, FS_Subset
  <1>5. Cardinality(Busy') \in Nat
    BY <1>4, FS_CardinalityType
  <1>6. Cardinality(Busy') <= MaxBusy
    BY <1>2, <1>3, <1>4, <1>5, Bounds
  <1> QED
    BY <1>4, <1>6 DEF TaskInv, ReportUser

LEMMA StartCapabilityKeeps ==
    ASSUME IInv, NEW u \in Users, NEW pc \in {"plan", "signAll"}, NEW amount \in Balance,
           StartCapability(u, pc, amount)
    PROVE  IInv'
  <1> DEFINE t == [pc |-> pc, late |-> FALSE, user |-> u, amount |-> amount]
  <1>1. /\ Flow \in Slots /\ Job(Flow) \notin Users \cup {"reports", "view"}
        /\ task[Flow] = NoTask /\ Cardinality(Busy) < MaxBusy
    BY Kinds, Typed, NamesAssumption DEF StartCapability, Slots, Flow, Job
  <1>2. /\ UNCHANGED <<world, nudgeKeys, best, reportDone, rows, period, fired, quiet,
                       reportHistory, moveHistory>>
        /\ Act
    BY DEF StartCapability
  <1>3. Changes(Flow, t)
    BY DEF StartCapability, Changes
  <1>4. t \in Capability /\ t.pc = pc
    BY DEF Capability
  <1> HIDE DEF t
  <1>5. /\ task' = [q \in Slots |-> task'[q]]
        /\ task'[Flow] = t /\ \A q \in Slots : q # Flow => task'[q] = task[q]
    BY <1>1, <1>3, ChangesOne DEF IInv
  <1>6. TaskInv'
    <2>1. \A q \in Slots : Fits(q, task'[q]) /\ ReportUser(q, task'[q])
      BY <1>1, <1>4, <1>5 DEF IInv, TaskInv, Fits, ReportUser
    <2> QED
      BY <1>1, <1>5, <2>1, TaskStarts DEF IInv
  <1>7. acts' \in 0..MaxActs
    BY <1>2, ActBounded
  <1>8. /\ WorldInv' /\ RowsInv' /\ KeysInv'
        /\ UNCHANGED <<pos, snaps, moved, unseen, reported, disturbed, cooldown>>
    BY <1>2, <1>7 DEF IInv, WorldInv, RowsInv, KeysInv, world, rows, nudgeKeys, moveHistory,
                      reportHistory
  <1>9. NudgeInv' /\ ReportInv'
    BY <1>1, <1>2, <1>3, <1>8, NudgeFrame, ReportFrame DEF IInv
  <1>10. SnapshotInv'
    <2>1. \A v \in Users : ~Finalizing(v)
      BY <1>1, NoRun DEF Finalizing
    <2> QED
      BY <1>1, <1>3, <1>4, <1>8, <2>1, SnapshotKeeps DEF IInv
  <1> QED
    BY <1>6, <1>8, <1>9, <1>10 DEF IInv

LEMMA DiscoverPositionsKeeps ==
    ASSUME IInv, NEW u \in Users, DiscoverPositions(u)
    PROVE  IInv'
  <1> DEFINE b == pos[u]
             t == [pc |-> "snapshots", late |-> FALSE, user |-> u, balance |-> b, fresh |-> TRUE]
  <1>1. /\ View \in Slots /\ View # Flow /\ Job(View) = "view" /\ Job(View) \notin Users
        /\ task[View] = NoTask /\ Cardinality(Busy) < MaxBusy
    BY Kinds, Typed, NamesAssumption DEF DiscoverPositions, Slots, View, Flow, Job
  <1>2. UNCHANGED <<world, nudgeKeys, best, reportDone, rows, clock, quiet, reportHistory,
                    moveHistory>>
    BY DEF DiscoverPositions
  <1>3. Changes(View, t)
    BY DEF DiscoverPositions, Changes, GetUserPosition
  <1>4. b \in Balance
    <2>1. idle[u] \in Nat /\ pos[u] \in Nat /\ idle[u] + pos[u] <= MaxBalance
      BY DEF IInv, WorldInv
    <2> QED
      BY <2>1, Bounds DEF Balance
  <1> HIDE DEF b
  <1>5. t \in Positions /\ t.user = u /\ t.balance = b /\ t.pc = "snapshots"
    BY <1>4 DEF Positions
  <1> HIDE DEF t
  <1>6. /\ task' = [q \in Slots |-> task'[q]]
        /\ task'[View] = t /\ \A q \in Slots : q # View => task'[q] = task[q]
    BY <1>1, <1>3, ChangesOne DEF IInv
  <1>7. TaskInv'
    <2>1. \A q \in Slots : Fits(q, task'[q]) /\ ReportUser(q, task'[q])
      BY <1>1, <1>5, <1>6 DEF IInv, TaskInv, Fits, ReportUser
    <2> QED
      BY <1>1, <1>6, <2>1, TaskStarts DEF IInv
  <1>8. /\ WorldInv' /\ RowsInv' /\ KeysInv'
        /\ UNCHANGED <<pos, snaps, moved, unseen, reported, disturbed, cooldown>>
    BY <1>2 DEF IInv, WorldInv, RowsInv, KeysInv, world, rows, nudgeKeys, clock, moveHistory,
                reportHistory
  <1>9. NudgeInv' /\ ReportInv'
    BY <1>1, <1>2, <1>3, <1>8, NudgeFrame, ReportFrame DEF IInv
  <1>10. SnapshotInv'
    <2>1. b = pos[u]
      BY DEF b
    <2> QED
      BY <1>1, <1>3, <1>5, <1>8, <2>1, SnapshotKeeps DEF IInv
  <1> QED
    BY <1>7, <1>8, <1>9, <1>10 DEF IInv

LEMMA ShowPositionsKeeps ==
    ASSUME IInv, ShowPositions
    PROVE  IInv'
  <1>1. /\ View \in Slots /\ View # Flow /\ Job(View) = "view" /\ Job(View) \notin Users
        /\ task[View] # NoTask
    BY Kinds, NoRun, NamesAssumption DEF ShowPositions, Slots, View, Flow, Job, At
  <1>2. UNCHANGED <<world, nudgeKeys, best, reportDone, rows, clock, quiet, reportHistory,
                    moveHistory>>
    BY DEF ShowPositions
  <1>3. Changes(View, NoTask)
    BY DEF ShowPositions, End, Changes
  <1>4. TaskInv'
    BY <1>1, <1>3, TaskKeeps DEF IInv, Fits, ReportUser
  <1>5. /\ WorldInv' /\ RowsInv' /\ KeysInv'
        /\ UNCHANGED <<pos, snaps, moved, unseen, reported, disturbed, cooldown>>
    BY <1>2 DEF IInv, WorldInv, RowsInv, KeysInv, world, rows, nudgeKeys, clock, moveHistory,
                reportHistory
  <1>6. NudgeInv' /\ ReportInv'
    BY <1>1, <1>2, <1>3, <1>5, NudgeFrame, ReportFrame DEF IInv
  <1>7. SnapshotInv'
    BY <1>1, <1>3, <1>5, NoRun, SnapshotKeeps DEF IInv
  <1> QED
    BY <1>4, <1>5, <1>6, <1>7 DEF IInv

\* A share of a balance is no more than the balance.
LEMMA ShareFits ==
    ASSUME NEW x \in Nat, NEW p \in 1..100
    PROVE  (x * p) \div 100 \in 0..x
  <1> DEFINE m == x * p
  <1>1. m \in Nat
    OBVIOUS
  <1>2. m <= 100 * x
    <2>1. x * p <= x * 100
      OBVIOUS
    <2> QED
      BY <2>1
  <1> HIDE DEF m
  <1>3. m \div 100 \in 0..x
    BY <1>1, <1>2
  <1> QED
    BY <1>3 DEF m

LEMMA BuildDepositPlanKeeps ==
    ASSUME IInv, NEW u \in Users, BuildDepositPlan(u)
    PROVE  IInv'
  <1>1. PICK pct \in Percents : StartCapability(u, "plan", (idle[u] * pct) \div 100)
    BY DEF BuildDepositPlan
  <1> DEFINE amount == (idle[u] * pct) \div 100
  <1>2. /\ idle[u] \in Nat /\ pos[u] \in Nat /\ idle[u] + pos[u] <= MaxBalance
        /\ pct \in 1..100
    BY PercentAssumption DEF IInv, WorldInv
  <1>3. amount \in 0..idle[u]
    BY <1>2, ShareFits
  <1>4. StartCapability(u, "plan", amount)
    BY <1>1
  <1> HIDE DEF amount
  <1>5. amount \in Balance
    BY <1>2, <1>3, Bounds DEF Balance
  <1> QED
    BY <1>4, <1>5, StartCapabilityKeeps

LEMMA BuildWithdrawAllPlanKeeps ==
    ASSUME IInv, NEW u \in Users, BuildWithdrawAllPlan(u)
    PROVE  IInv'
  <1>1. 0 \in Balance
    BY Bounds DEF Balance
  <1> QED
    BY <1>1, StartCapabilityKeeps DEF BuildWithdrawAllPlan

LEMMA FaultKeeps ==
    ASSUME IInv, NEW s \in Slots, Fault(s)
    PROVE  IInv'
  <1>1. task[s] # NoTask
    BY NoRun DEF Fault, At
  <1>2. /\ UNCHANGED <<world, nudgeKeys, best, reportDone, rows, period, fired, reported,
                       moved>>
        /\ Act
    BY DEF Fault
  <1>3. quiet' = IF Job(s) \in Users /\ At(s, "setCooldown")
                 THEN [quiet EXCEPT ![Job(s)] = 0] ELSE quiet
    BY DEF Fault
  <1>4. unseen' = IF s = Flow /\ task[s].pc \in {"discover", "upsert"}
                  THEN [unseen EXCEPT ![task[s].user] = @ \cup {"today"}] ELSE unseen
    BY DEF Fault
  <1> DEFINE r == [task[s] EXCEPT !.pc = "build", !.user = NoRecord]
  <1>5. \/ /\ Changes(s, NoTask)
           /\ disturbed' = (disturbed \/ (Job(s) = "reports" /\ task[s].today))
        \/ /\ Job(s) = "reports" /\ task[s].user # NoRecord
           /\ Changes(s, r) /\ UNCHANGED disturbed
    BY DEF Fault, End, Changes
  <1>6. Job(s) = "reports" =>
           /\ task[s] \in Report /\ r \in Report /\ r.pc = "build" /\ r.user = NoRecord
           /\ r.today = task[s].today /\ r.todo = task[s].todo /\ r.user \notin Users
           /\ task[s].today \in BOOLEAN
    <2> SUFFICES ASSUME Job(s) = "reports"
                 PROVE  /\ task[s] \in Report /\ r \in Report /\ r.pc = "build"
                        /\ r.user = NoRecord
                        /\ r.today = task[s].today /\ r.todo = task[s].todo /\ r.user \notin Users
                        /\ task[s].today \in BOOLEAN
      OBVIOUS
    <2>1. task[s] \in Report
      BY <1>1, RunKinds DEF IInv, TaskInv
    <2> QED
      BY <2>1, NamesAssumption DEF Report
  <1>7. s = Flow => task[s].user \in Users
    BY <1>1, RunKinds, Kinds DEF IInv, TaskInv, Capability
  <1> HIDE DEF r
  <1>8. PICK t : /\ Changes(s, t) /\ (t = NoTask \/ (t = r /\ Job(s) = "reports"))
                 /\ t = NoTask =>
                      disturbed' = (disturbed \/ (Job(s) = "reports" /\ task[s].today))
                 /\ t # NoTask => UNCHANGED disturbed /\ task[s].user # NoRecord
    BY <1>5, <1>6, NoRun
  <1>9. TaskInv'
    BY <1>1, <1>6, <1>8, TaskKeeps DEF IInv, Fits, ReportUser, OfUser
  <1>10. /\ quiet' \in [Users -> 0..NudgeCooldown]
         /\ \A u \in Users : quiet'[u] # quiet[u] =>
               u = Job(s) /\ At(s, "setCooldown") /\ quiet'[u] = 0
         /\ Job(s) \in Users /\ At(s, "setCooldown") => quiet'[Job(s)] = 0
    BY <1>3, Typed
  <1>11. /\ unseen' \in [Users -> SUBSET Dates]
         /\ \A u \in Users : unseen[u] \subseteq unseen'[u]
         /\ \A u \in Users : s = Flow /\ Finalizing(u) => "today" \in unseen'[u]
    BY <1>4, <1>7 DEF IInv, RowsInv, Dates, Finalizing
  <1>12. acts' \in 0..MaxActs /\ disturbed' \in BOOLEAN
    BY <1>2, <1>5, <1>6, ActBounded DEF IInv, RowsInv
  <1>13. /\ WorldInv' /\ RowsInv' /\ KeysInv'
         /\ UNCHANGED <<pos, snaps, moved, reported, reportDone, cooldown>>
    BY <1>2, <1>10, <1>11, <1>12
       DEF IInv, WorldInv, RowsInv, KeysInv, world, rows, nudgeKeys
  <1>14. NudgeInv'
    <2>1. CASE Job(s) \in Users
      <3>1. t = NoTask /\ cooldown' = cooldown /\ cooldown[Job(s)] \in Ttl
        BY <1>8, <1>13, <2>1, Kinds, Typed
      <3>2. 0 <= cooldown'[Job(s)]
        BY <3>1, Bounds DEF Ttl
      <3>3. CooldownInv(Job(s))
        BY <2>1 DEF IInv, NudgeInv
      <3>4. \A u \in Users : u # Job(s) => quiet'[u] = quiet[u] /\ cooldown'[u] = cooldown[u]
        BY <1>10, <1>13
      <3>5. \/ quiet'[Job(s)] <= cooldown'[Job(s)]
            \/ /\ CooldownInv(Job(s)) /\ ~At(s, "setCooldown")
               /\ quiet'[Job(s)] = quiet[Job(s)] /\ cooldown'[Job(s)] = cooldown[Job(s)]
        BY <1>10, <2>1, <3>1, <3>2, <3>3
      <3>6. quiet'[Job(s)] = quiet[Job(s)] \/ quiet'[Job(s)] = 0
        BY <1>10, <2>1
      <3> QED
        BY <1>1, <1>8, <2>1, <3>1, <3>4, <3>5, <3>6, NudgeMoves
    <2>2. CASE Job(s) \notin Users
      BY <1>3, <1>8, <1>13, <2>2, NudgeFrame DEF IInv
    <2> QED
      BY <2>1, <2>2
  <1>15. SnapshotInv'
    BY <1>6, <1>8, <1>11, <1>13, SnapshotKeeps, NoRun, Kinds DEF IInv
  <1>16. ReportInv'
    <2>1. CASE Job(s) = "reports"
      <3>1. task[s].pc # "idle"
        BY <1>1, RunKinds DEF IInv, TaskInv
      <3>3. ~disturbed /\ task[s].today /\ task[s].pc \notin {"done", "users"} =>
               \A u \in task[s].todo : reported[u] = 0
        BY <2>1, <3>1, ReportIs
      <3>4. t # NoTask => task[s].pc \notin {"done", "users"}
        <4>1. task[s].pc \in {"done", "users"} => task[s].user \notin Users
          BY <2>1, <3>1, ReportIs DEF OfUser
        <4>2. t # NoTask => task[s].user \in Users
          BY <1>6, <1>8, <2>1 DEF Report
        <4> QED
          BY <4>1, <4>2
      <3>5. /\ disturbed => disturbed'
            /\ t = NoTask /\ task[s].today => disturbed'
            /\ t # NoTask => /\ t.today = task[s].today /\ t.pc = "build"
                            /\ t.todo = task[s].todo /\ t.user \notin Users
                            /\ disturbed' = disturbed
        <4>1. t # NoTask => t = r
          BY <1>8
        <4>2. t # NoTask => /\ t.today = task[s].today /\ t.pc = "build"
                            /\ t.todo = task[s].todo /\ t.user \notin Users
          BY <1>6, <2>1, <4>1
        <4>3. t # NoTask => disturbed' = disturbed
          BY <1>8
        <4>4. (disturbed => disturbed') /\ (t = NoTask /\ task[s].today => disturbed')
          <5>1. CASE t = NoTask
            <6>1. disturbed' = (disturbed \/ (Job(s) = "reports" /\ task[s].today))
              BY <1>8, <5>1
            <6> QED
              BY <2>1, <6>1, Zenon
          <5>2. CASE t # NoTask
            <6>1. disturbed' = disturbed /\ disturbed \in BOOLEAN /\ disturbed' \in BOOLEAN
              BY <1>12, <4>3, <5>2 DEF IInv, RowsInv
            <6> QED
              BY <5>2, <6>1
          <5> QED
            BY <5>1, <5>2
        <4> QED
          BY <4>2, <4>3, <4>4
      <3> QED
        BY <1>1, <1>8, <1>13, <2>1, <3>3, <3>4, <3>5, ReportMoves DEF IInv
    <2>2. CASE Job(s) # "reports"
      <3>1. disturbed' = disturbed
        BY <1>8, <2>2 DEF IInv, RowsInv
      <3> QED
        BY <1>8, <1>13, <2>2, <3>1, ReportFrame DEF IInv
    <2> QED
      BY <2>1, <2>2
  <1> QED
    BY <1>9, <1>13, <1>14, <1>15, <1>16 DEF IInv

LEMMA StartJobKeeps ==
    ASSUME IInv, NEW j \in Jobs, NEW k \in {1, 2}, StartJob(j, k)
    PROVE  IInv'
  <1> DEFINE s == <<j, k>>
             o == <<j, 3 - k>>
             overlaps == k = 2
             lone == At(o, "idle")
             t == FirstStep(j, overlaps \/ ~lone)
             v == IF j \in Users /\ task[o] # NoTask THEN [task[o] EXCEPT !.alone = FALSE]
                  ELSE task[o]
  <1>1. /\ s \in Slots /\ o \in Slots /\ o # s /\ s \notin {Flow, View} /\ o \notin {Flow, View}
        /\ Job(s) = j /\ Job(o) = j
        /\ \A q \in Slots : Job(q) = j => q \in {s, o}
    <2>1. s \in Slots /\ Job(s) = j /\ s \notin {Flow, View} /\ Other(s) = o
      BY NamesAssumption DEF Slots, Job, Flow, View, Jobs, Other
    <2> HIDE DEF s, o
    <2> QED
      BY <2>1, OtherSlot
  <1>2. /\ task[s] = NoTask /\ Cardinality(Busy) < MaxBusy
        /\ lone <=> task[o] = NoTask
    BY <1>1, Typed DEF StartJob
  <1>3. /\ UNCHANGED <<world, nudgeKeys, best, reportDone, rows, period, quiet, reported,
                       moveHistory>>
        /\ Act \/ UNCHANGED acts
        /\ fired' = fired \cup {j}
        /\ disturbed' = (disturbed \/ (j = "reports" /\ ~lone))
    BY DEF StartJob
  <1>4. task' = [task EXCEPT ![s] = t, ![o] = v]
    BY DEF StartJob
  <1>5. /\ t.pc # "upsert" /\ t # NoTask
        /\ j = "pools" => t \in PoolScan
        /\ j = "reports" => t \in Report /\ t.pc = "done" /\ t.user \notin Users /\ t.today
        /\ j \in Users => /\ t \in IdleScan /\ t.pc = "cooldown"
                          /\ t.alone => lone
    <2>1. CASE j = "pools"
      <3>1. t = [pc |-> "scan", late |-> FALSE] /\ j \notin Users
        BY <2>1, NamesAssumption DEF FirstStep
      <3> HIDE DEF t, overlaps, lone
      <3>2. t.pc = "scan" /\ t \in PoolScan
        BY <3>1 DEF PoolScan
      <3> QED
        BY <2>1, <3>1, <3>2, NoRun
    <2>2. CASE j = "reports"
      <3>1. /\ t = [pc |-> "done", late |-> FALSE, today |-> TRUE, todo |-> {},
                    user |-> NoRecord, balance |-> 0, delta |-> 0, fresh |-> TRUE]
            /\ j \notin Users /\ NoRecord \notin Users
        BY <2>2, NamesAssumption DEF FirstStep
      <3> HIDE DEF t, overlaps, lone
      <3>2. 0 \in Balance
        BY Bounds DEF Balance
      <3>3. t.pc = "done" /\ t.user = NoRecord /\ t \in Report /\ t.today
        BY <3>1, <3>2 DEF Report
      <3> QED
        BY <2>2, <3>1, <3>3, NoRun
    <2>3. CASE j \in Users
      <3> DEFINE alone == ~(overlaps \/ ~lone)
      <3>1. t = [pc |-> "cooldown", late |-> FALSE, alone |-> alone]
            /\ j # "pools" /\ j # "reports"
        BY <2>3, NamesAssumption DEF FirstStep
      <3>2. alone \in BOOLEAN /\ (alone => lone)
        OBVIOUS
      <3> HIDE DEF t, alone, overlaps, lone
      <3>3. t.pc = "cooldown" /\ t.alone = alone /\ t \in IdleScan
        BY <3>1, <3>2 DEF IdleScan
      <3> QED
        BY <2>3, <3>1, <3>2, <3>3, NoRun
    <2> QED
      BY <2>1, <2>2, <2>3 DEF Jobs
  <1>6. /\ j \notin Users => v = task[o]
        /\ task[o] = NoTask => v = NoTask
        /\ j \in Users /\ task[o] # NoTask =>
              v \in IdleScan /\ v # NoTask /\ v.pc = task[o].pc /\ v.alone = FALSE
    <2> SUFFICES ASSUME j \in Users, task[o] # NoTask
                 PROVE  v \in IdleScan /\ v # NoTask /\ v.pc = task[o].pc /\ v.alone = FALSE
      OBVIOUS
    <2>1. task[o] \in IdleScan /\ task[o].pc # "idle"
      BY <1>1, RunKinds DEF IInv, TaskInv
    <2>2. v \in IdleScan /\ v.pc = task[o].pc /\ v.alone = FALSE
      BY <2>1 DEF IdleScan
    <2> HIDE DEF v
    <2> QED
      BY <2>1, <2>2, NoRun
  <1> HIDE DEF t, v, s, o, lone
  <1>7. /\ task' = [q \in Slots |-> task'[q]] /\ task'[s] = t /\ task'[o] = v
        /\ \A q \in Slots : q \notin {s, o} => task'[q] = task[q]
    BY <1>1, <1>4 DEF IInv, TaskInv
  <1>8. TaskInv'
    <2>1. ASSUME NEW q \in Slots PROVE Fits(q, task'[q]) /\ ReportUser(q, task'[q])
      <3>1. CASE q = s
        BY <1>1, <1>5, <1>7, <3>1, NamesAssumption DEF Fits, ReportUser, OfUser, Jobs
      <3>2. CASE q = o
        BY <1>1, <1>6, <1>7, <3>2, NamesAssumption DEF Fits, ReportUser, IInv, TaskInv
      <3>3. CASE q \notin {s, o}
        BY <1>7, <3>3 DEF ReportUser, IInv, TaskInv
      <3> QED
        BY <3>1, <3>2, <3>3
    <2>2. \A q \in Slots \ {s} : task[q] = NoTask => task'[q] = NoTask
      BY <1>6, <1>7
    <2> QED
      BY <1>1, <1>2, <1>7, <2>1, <2>2, TaskStarts DEF IInv
  <1>9. acts' \in 0..MaxActs /\ disturbed' \in BOOLEAN
    BY <1>3, ActBounded DEF IInv, RowsInv
  <1>10. /\ WorldInv' /\ RowsInv' /\ KeysInv'
         /\ UNCHANGED <<pos, snaps, moved, unseen, quiet, cooldown, reported, reportDone>>
    BY <1>3, <1>9 DEF IInv, WorldInv, RowsInv, KeysInv, world, rows, nudgeKeys, moveHistory
  <1>11. NudgeInv'
    <2>1. ASSUME NEW q \in Slots, Job(q) \in Users, task'[q] # NoTask, task'[q].alone
          PROVE  /\ task'[Other(q)] = NoTask
                 /\ task'[q].pc \in Cleared => quiet'[Job(q)] = 0
      <3>1. Other(q) \in Slots /\ Other(q) # q /\ Job(Other(q)) = Job(q)
        BY <2>1, OtherSlot, Kinds
      <3>2. CASE q = s
        <4>1. Other(q) = o /\ j \in Users
          BY <1>1, <2>1, <3>1, <3>2
        <4> QED
          BY <1>2, <1>5, <1>6, <1>7, <2>1, <3>2, <4>1 DEF Cleared
      <3>3. CASE q = o
        BY <1>1, <1>6, <1>7, <2>1, <3>3
      <3>4. CASE q \notin {s, o}
        <4>1. Other(q) \notin {s, o}
          BY <1>1, <3>1, <3>4
        <4> QED
          BY <1>7, <1>10, <2>1, <3>1, <3>4, <4>1 DEF IInv, NudgeInv, ScanInv
      <3> QED
        BY <3>2, <3>3, <3>4
    <2>2. ASSUME NEW u \in Users PROVE CooldownInv(u)'
      <3>1. ASSUME NEW q \in Slots, Job(q) = u, At(q, "setCooldown") PROVE At(q, "setCooldown")'
        <4>1. q # s
          BY <1>2, <3>1, NoRun DEF At
        <4> QED
          BY <1>1, <1>6, <1>7, <3>1, <4>1, NoRun DEF At
      <3> QED
        BY <1>10, <3>1 DEF IInv, NudgeInv, CooldownInv
    <2> QED
      BY <2>1, <2>2 DEF NudgeInv, ScanInv
  <1>12. SnapshotInv'
    <2>1. ASSUME NEW q \in Slots PROVE FreshInv(q)'
      <3>1. CASE q = s
        BY <1>1, <1>5, <1>7, <3>1, Kinds DEF FreshInv
      <3>2. CASE q = o
        BY <1>1, <1>6, <1>7, <1>10, <3>2, Kinds DEF FreshInv, IInv, SnapshotInv
      <3>3. CASE q \notin {s, o}
        BY <1>7, <1>10, <3>3 DEF FreshInv, IInv, SnapshotInv, At
      <3> QED
        BY <3>1, <3>2, <3>3
    <2>2. ASSUME NEW u \in Users PROVE SnapInv(u)'
      <3>1. task'[Flow] = task[Flow]
        BY <1>1, <1>7, Kinds
      <3> QED
        BY <1>10, <3>1 DEF IInv, SnapshotInv, SnapInv, Finalizing
    <2> QED
      BY <2>1, <2>2 DEF SnapshotInv
  <1>13. ReportInv'
    <2>1. CASE j # "reports"
      <3>1. \A q \in Slots : Job(q) = "reports" => task'[q] = task[q]
        BY <1>1, <1>7, <2>1
      <3>2. disturbed' = disturbed
        BY <1>3, <2>1 DEF IInv, RowsInv
      <3> QED
        BY <1>10, <3>1, <3>2, ReportsSame DEF IInv
    <2>2. CASE j = "reports" /\ disturbed'
      BY <2>2 DEF ReportInv
    <2>3. CASE j = "reports" /\ ~disturbed'
      <3>1. ~disturbed /\ lone
        BY <1>3, <2>3
      <3>2. task[s] = NoTask /\ task[o] = NoTask /\ task'[o] = NoTask
        BY <1>2, <1>6, <1>7, <3>1
      <3>3. \A q \in Slots : ~Reporting(q) /\ ~Reporting(q)' /\ ~Passed(q)'
        BY <1>1, <1>5, <1>7, <2>3, <3>2 DEF Reporting, Passed
      <3>4. \A u \in Users : reported[u] \in {0, 1} /\ (reported[u] = 1 => "today" \in reportDone)
        BY <3>1, <3>3 DEF IInv, ReportInv
      <3> QED
        BY <1>10, <3>3, <3>4 DEF ReportInv
    <2> QED
      BY <2>1, <2>2, <2>3
  <1> QED
    BY <1>8, <1>10, <1>11, <1>12, <1>13 DEF IInv

--------------------------------------------------------------------------------
(* Users and the clock                                                     *)

LEMMA TransferKeeps ==
    ASSUME IInv, NEW u \in Users, NEW amount \in {-1, 1}, Transfer(u, amount)
    PROVE  IInv'
  <1>1. /\ UNCHANGED <<pos, session, nudgeKeys, best, reportDone, rows, task, period, fired,
                       quiet, reportHistory, moveHistory>>
        /\ Act /\ idle' = [idle EXCEPT ![u] = idle[u] + amount]
        /\ idle[u] + amount \in 0..(MaxBalance - pos[u])
    BY DEF Transfer
  <1>2. acts' \in 0..MaxActs
    BY <1>1, ActBounded
  <1>3. WorldInv'
    <2>1. \A v \in Users : idle[v] \in Nat /\ pos[v] \in Nat /\ idle[v] + pos[v] <= MaxBalance
      BY DEF IInv, WorldInv
    <2>2. idle[u] + amount \in Nat /\ idle[u] + amount + pos[u] <= MaxBalance
      BY <1>1, <2>1, Bounds
    <2> QED
      BY <1>1, <2>1, <2>2 DEF IInv, WorldInv
  <1>4. TaskInv'
    BY <1>1 DEF IInv, TaskInv, Busy, At
  <1>5. RowsInv' /\ KeysInv'
    BY <1>1, <1>2 DEF IInv, RowsInv, KeysInv, rows, nudgeKeys, reportHistory, moveHistory
  <1>6. NudgeInv' /\ SnapshotInv'
    BY <1>1 DEF IInv, NudgeInv, SnapshotInv, ScanInv, CooldownInv, FreshInv, SnapInv,
                Finalizing, At, rows, nudgeKeys, moveHistory
  <1>7. ReportInv'
    BY <1>1, ReportsSame DEF IInv, reportHistory
  <1> QED
    BY <1>3, <1>4, <1>5, <1>6, <1>7 DEF IInv

LEMMA ChangeSessionKeeps ==
    ASSUME IInv, NEW u \in Users, NEW state \in {"live", "expired", "none"},
           ChangeSession(u, state)
    PROVE  IInv'
  <1>1. /\ UNCHANGED <<idle, pos, nudgeKeys, best, reportDone, rows, task, period, fired,
                       quiet, reportHistory, moveHistory>>
        /\ Act /\ session' = [session EXCEPT ![u] = state]
    BY DEF ChangeSession
  <1>2. acts' \in 0..MaxActs
    BY <1>1, ActBounded
  <1>3. WorldInv' /\ TaskInv'
    BY <1>1 DEF IInv, WorldInv, TaskInv, Busy, At
  <1>4. RowsInv' /\ KeysInv'
    BY <1>1, <1>2 DEF IInv, RowsInv, KeysInv, rows, nudgeKeys, reportHistory, moveHistory
  <1>5. NudgeInv' /\ SnapshotInv'
    BY <1>1 DEF IInv, NudgeInv, SnapshotInv, ScanInv, CooldownInv, FreshInv, SnapInv,
                Finalizing, At, rows, nudgeKeys, moveHistory
  <1>6. ReportInv'
    BY <1>1, ReportsSame DEF IInv, reportHistory
  <1> QED
    BY <1>3, <1>4, <1>5, <1>6 DEF IInv

LEMMA AgedIs ==
    ASSUME NEW x \in Nat
    PROVE  /\ Aged(x) \in Nat /\ Aged(x) <= x /\ (x = 0 => Aged(x) = 0)
           /\ \A y \in Nat : x <= y /\ x <= NudgeCooldown => Aged(x) <= Aged(y)
  BY Bounds DEF Aged, Forever

\* The keys at the end of a period.
LEMMA PeriodEnds ==
    ASSUME IInv, EndPeriod
    PROVE  /\ best' \in 0..BestTtl
           /\ cooldown' \in [Users -> Ttl] /\ nudgePending' \in [Users -> Ttl]
           /\ quiet' \in [Users -> 0..NudgeCooldown]
           /\ \A u \in Users : /\ quiet[u] = 0 => quiet'[u] = 0
                               /\ quiet[u] <= cooldown[u] => quiet'[u] <= cooldown'[u]
           /\ UNCHANGED <<world, acts>> /\ fired' = {}
  <1>1. /\ UNCHANGED <<world, acts>> /\ fired' = {} /\ best' = Aged(best)
        /\ cooldown' = [u \in Users |-> Aged(cooldown[u])]
        /\ nudgePending' = [u \in Users |-> Aged(nudgePending[u])]
        /\ quiet' = [u \in Users |-> Aged(quiet[u])]
    BY DEF EndPeriod
  <1>2. /\ best \in Nat /\ best <= BestTtl
        /\ \A u \in Users :
              /\ quiet[u] \in Nat /\ quiet[u] <= NudgeCooldown
              /\ cooldown[u] \in Nat /\ cooldown[u] <= BestTtl + NudgeCooldown
              /\ nudgePending[u] \in Nat /\ nudgePending[u] <= BestTtl + NudgeCooldown
    BY Bounds DEF IInv, KeysInv, Ttl
  <1>3. best' \in 0..BestTtl
    BY <1>1, <1>2, AgedIs, Bounds
  <1>4. ASSUME NEW u \in Users
        PROVE  /\ Aged(quiet[u]) \in 0..NudgeCooldown
               /\ Aged(cooldown[u]) \in Ttl /\ Aged(nudgePending[u]) \in Ttl
               /\ quiet[u] = 0 => Aged(quiet[u]) = 0
               /\ quiet[u] <= cooldown[u] => Aged(quiet[u]) <= Aged(cooldown[u])
    <2>1. /\ Aged(quiet[u]) \in Nat /\ Aged(quiet[u]) <= quiet[u]
          /\ quiet[u] = 0 => Aged(quiet[u]) = 0
          /\ quiet[u] <= cooldown[u] => Aged(quiet[u]) <= Aged(cooldown[u])
      BY <1>2, AgedIs
    <2>2. /\ Aged(cooldown[u]) \in Nat /\ Aged(cooldown[u]) <= cooldown[u]
          /\ Aged(nudgePending[u]) \in Nat /\ Aged(nudgePending[u]) <= nudgePending[u]
      BY <1>2, AgedIs
    <2> QED
      BY <1>2, <2>1, <2>2, Bounds DEF Ttl
  <1> QED
    BY <1>1, <1>3, <1>4

\* A run that sees a period end, or its day.
Marked(s, t, v) ==
    \/ v = [t EXCEPT !.late = TRUE]
    \/ Job(s) = "reports" /\ v = [t EXCEPT !.late = TRUE, !.today = FALSE]

LEMMA MarkedIs ==
    ASSUME NEW s \in Slots, NEW t, Fits(s, t), t # NoTask, ReportUser(s, t),
           NEW v, Marked(s, t, v)
    PROVE  /\ Fits(s, v) /\ ReportUser(s, v) /\ v # NoTask /\ v.pc = t.pc
           /\ Job(s) \in Users => v.alone = t.alone
           /\ Job(s) = "reports" => v.todo = t.todo
           /\ Job(s) \in {"reports", "view"} => /\ v.user = t.user /\ v.balance = t.balance
                                               /\ v.fresh = t.fresh
           /\ s = Flow => v.user = t.user /\ v.amount = t.amount
  <1>0. /\ t.pc # "idle" /\ Job(s) \in Jobs \cup {"flow", "view"}
        /\ (s = Flow <=> Job(s) = "flow") /\ (s = View <=> Job(s) = "view")
    BY RunKinds, SlotKinds, Kinds
  <1>1. CASE Job(s) = "pools"
    <2>1. t \in PoolScan /\ v = [t EXCEPT !.late = TRUE] /\ Job(s) \notin Users /\ s # Flow
      BY <1>1, RunKinds, Kinds DEF Marked
    <2>2. v \in PoolScan /\ v.pc = t.pc
      BY <2>1 DEF PoolScan
    <2> QED
      BY <1>0, <1>1, <2>1, <2>2, NoRun DEF Fits, ReportUser
  <1>2. CASE Job(s) \in Users
    <2>1. t \in IdleScan /\ v = [t EXCEPT !.late = TRUE] /\ Job(s) # "reports" /\ s # Flow
      BY <1>2, RunKinds, Kinds DEF Marked
    <2>2. v \in IdleScan /\ v.pc = t.pc /\ v.alone = t.alone
      BY <2>1 DEF IdleScan
    <2>3. v # NoTask /\ Job(s) \notin {"reports", "view"}
      BY <1>0, <1>2, <2>2, Kinds, NoRun
    <2> QED
      BY <1>2, <2>1, <2>2, <2>3 DEF Fits, ReportUser
  <1>3. CASE Job(s) = "reports"
    <2>1. t \in Report /\ Job(s) \notin Users /\ s # Flow
      BY <1>3, RunKinds, Kinds
    <2>2. /\ v \in Report /\ v.pc = t.pc /\ v.user = t.user /\ v.todo = t.todo
          /\ v.balance = t.balance /\ v.fresh = t.fresh
      BY <2>1 DEF Report, Marked
    <2> QED
      BY <1>0, <1>3, <2>1, <2>2, NoRun DEF Fits, ReportUser
  <1>4. CASE s = Flow
    <2>1. /\ t \in Capability /\ v = [t EXCEPT !.late = TRUE]
          /\ Job(s) # "reports" /\ Job(s) \notin Users
      BY <1>4, RunKinds, Kinds DEF Marked
    <2>2. v \in Capability /\ v.pc = t.pc /\ v.user = t.user /\ v.amount = t.amount
      BY <2>1 DEF Capability
    <2> QED
      BY <1>0, <1>4, <2>1, <2>2, NoRun DEF Fits, ReportUser
  <1>5. CASE s = View
    <2>1. /\ t \in Positions /\ v = [t EXCEPT !.late = TRUE]
          /\ Job(s) # "reports" /\ Job(s) \notin Users /\ s # Flow
      BY <1>5, RunKinds, Kinds DEF Marked
    <2>2. /\ v \in Positions /\ v.pc = t.pc /\ v.user = t.user
          /\ v.balance = t.balance /\ v.fresh = t.fresh
      BY <2>1 DEF Positions
    <2> QED
      BY <1>0, <1>5, <2>1, <2>2, NoRun DEF Fits, ReportUser
  <1> QED
    BY <1>0, <1>1, <1>2, <1>3, <1>4, <1>5 DEF Jobs

\* All runs see the period end.
AllMarked ==
    /\ task' = [s \in Slots |-> task'[s]]
    /\ \A s \in Slots : IF task[s] = NoTask THEN task'[s] = NoTask
                        ELSE Marked(s, task[s], task'[s])

LEMMA AllMarkedIs ==
    ASSUME TaskInv, AllMarked
    PROVE  /\ TaskInv' /\ \A s \in Slots : Same(s)
           /\ \A s \in Slots : (task'[s] = NoTask) <=> (task[s] = NoTask)
           /\ \A s \in Slots : task[s] # NoTask => Fits(s, task[s]) /\ ReportUser(s, task[s])
  <1>1. \A s \in Slots : Fits(s, task[s]) /\ ReportUser(s, task[s])
    BY DEF TaskInv, ReportUser
  <1>2. ASSUME NEW s \in Slots
        PROVE  Fits(s, task'[s]) /\ ReportUser(s, task'[s]) /\ Same(s)
    <2>1. CASE task[s] = NoTask
      BY <2>1 DEF AllMarked, Fits, ReportUser, Same
    <2>2. CASE task[s] # NoTask
      BY <1>1, <2>2, MarkedIs DEF AllMarked, Same
    <2> QED
      BY <2>1, <2>2
  <1>3. TaskInv'
    BY <1>2, TasksKeep DEF AllMarked
  <1> QED
    BY <1>1, <1>2, <1>3 DEF Same

\* The end of a period keeps the nudges.
LEMMA NudgesAge ==
    ASSUME IInv, EndPeriod, AllMarked
    PROVE  NudgeInv'
  <1>1. \A s \in Slots : Same(s)
    BY AllMarkedIs DEF IInv
  <1>2. \A u \in Users : /\ quiet[u] = 0 => quiet'[u] = 0
                         /\ quiet[u] <= cooldown[u] => quiet'[u] <= cooldown'[u]
    BY PeriodEnds
  <1>3. ASSUME NEW q \in Slots PROVE ScanInv(q)'
    <2>1. CASE Job(q) \in Users
      <3>1. Other(q) \in Slots
        BY <2>1, OtherSlot, Kinds
      <3> QED
        BY <1>1, <1>2, <2>1, <3>1 DEF IInv, NudgeInv, ScanInv, Same
    <2>2. CASE Job(q) \notin Users
      BY <2>2 DEF ScanInv
    <2> QED
      BY <2>1, <2>2
  <1>4. \A u \in Users : CooldownInv(u)'
    BY <1>1, <1>2 DEF IInv, NudgeInv, CooldownInv, At, Same
  <1> QED
    BY <1>3, <1>4 DEF NudgeInv

LEMMA NoonKeeps ==
    ASSUME IInv, Noon
    PROVE  IInv'
  <1>1. /\ EndPeriod /\ period' = "report"
        /\ task' = [s \in Slots |-> IF s \in Busy THEN [task[s] EXCEPT !.late = TRUE] ELSE NoTask]
        /\ UNCHANGED <<reportDone, snaps, known, reported, disturbed, moved, unseen>>
    BY DEF Noon, rows, reportHistory, moveHistory
  <1>2. AllMarked
    BY <1>1, BusyIs DEF AllMarked, Marked, IInv
  <1>3. /\ TaskInv' /\ \A s \in Slots : (task'[s] = NoTask) <=> (task[s] = NoTask)
        /\ \A s \in Slots : task[s] # NoTask => Fits(s, task[s]) /\ ReportUser(s, task[s])
    BY <1>2, AllMarkedIs DEF IInv
  <1>4. ASSUME NEW s \in Slots, task[s] # NoTask
        PROVE  /\ task'[s].pc = task[s].pc
               /\ Job(s) = "reports" => task'[s].todo = task[s].todo
               /\ Job(s) \in {"reports", "view"} =>
                     /\ task'[s].user = task[s].user
                     /\ task'[s].balance = task[s].balance /\ task'[s].fresh = task[s].fresh
               /\ s = Flow => task'[s].user = task[s].user /\ task'[s].amount = task[s].amount
    BY <1>2, <1>3, <1>4, MarkedIs DEF AllMarked
  <1>5. ASSUME NEW s \in Slots, task[s] # NoTask, Job(s) = "reports"
        PROVE  task'[s].today = task[s].today
    <2>1. task'[s] = [task[s] EXCEPT !.late = TRUE] /\ task[s] \in Report
      BY <1>1, <1>5, BusyIs, RunKinds DEF IInv, TaskInv
    <2> QED
      BY <2>1 DEF Report
  <1>6. WorldInv' /\ RowsInv' /\ KeysInv'
    BY <1>1, PeriodEnds DEF IInv, WorldInv, RowsInv, KeysInv, world
  <1>7. NudgeInv'
    BY <1>1, <1>2, NudgesAge
  <1>8. pos' = pos
    BY <1>1, PeriodEnds DEF world
  <1>9. SnapshotInv'
    <2>1. ASSUME NEW s \in Slots PROVE FreshInv(s)'
      BY <1>3, <1>4, <1>8, NoRun DEF FreshInv, IInv, SnapshotInv, At
    <2>2. \A u \in Users : Finalizing(u)' <=> Finalizing(u)
      <3>1. Flow \in Slots
        BY DEF Slots
      <3>2. CASE task[Flow] = NoTask
        <4>1. task'[Flow] = NoTask
          BY <1>3, <3>1, <3>2
        <4>2. task[Flow].pc = "idle" /\ task'[Flow].pc = "idle"
          BY <3>2, <4>1 DEF NoTask
        <4> QED
          BY <4>2 DEF Finalizing
      <3>3. CASE task[Flow] # NoTask
        <4>1. task'[Flow].pc = task[Flow].pc /\ task'[Flow].user = task[Flow].user
          BY <1>4, <3>1, <3>3
        <4> QED
          BY <4>1 DEF Finalizing
      <3> QED
        BY <3>2, <3>3
    <2>3. \A u \in Users : SnapInv(u)'
      BY <1>1, <1>8, <2>2 DEF SnapInv, IInv, SnapshotInv
    <2> QED
      BY <2>1, <2>3 DEF SnapshotInv
  <1>10. ReportInv'
    BY <1>1, <1>3, <1>4, <1>5, ReportsSame DEF IInv
  <1> QED
    BY <1>3, <1>6, <1>7, <1>9, <1>10 DEF IInv

LEMMA MidnightKeeps ==
    ASSUME IInv, Midnight
    PROVE  IInv'
  <1>1. /\ EndPeriod /\ period' = "rest"
        /\ task' = [s \in Slots |->
              IF s \notin Busy THEN NoTask
              ELSE IF Job(s) = "reports" THEN [task[s] EXCEPT !.late = TRUE, !.today = FALSE]
              ELSE [task[s] EXCEPT !.late = TRUE]]
        /\ snaps' = [u \in Users |-> [today |-> NoRecord, yesterday |-> snaps[u]["today"]]]
        /\ known' \subseteq known
        /\ reportDone' \subseteq Dates /\ disturbed' = FALSE /\ moved' = {}
        /\ reported' = [u \in Users |-> 0]
        /\ unseen' = [u \in Users |->
              IF "today" \in unseen[u] \/ Finalizing(u) THEN {"yesterday"} ELSE {}]
    BY DEF Midnight, Finalizing, Me, Dates
  <1>2. AllMarked
    BY <1>1, BusyIs DEF AllMarked, Marked, IInv
  <1>3. /\ TaskInv' /\ \A s \in Slots : (task'[s] = NoTask) <=> (task[s] = NoTask)
        /\ \A s \in Slots : task[s] # NoTask => Fits(s, task[s]) /\ ReportUser(s, task[s])
    BY <1>2, AllMarkedIs DEF IInv
  <1>4. ASSUME NEW s \in Slots, task[s] # NoTask
        PROVE  /\ task'[s].pc = task[s].pc
               /\ Job(s) \in {"reports", "view"} =>
                     /\ task'[s].user = task[s].user
                     /\ task'[s].balance = task[s].balance /\ task'[s].fresh = task[s].fresh
               /\ s = Flow => task'[s].user = task[s].user /\ task'[s].amount = task[s].amount
    BY <1>2, <1>3, <1>4, MarkedIs DEF AllMarked
  <1>5. ASSUME NEW s \in Slots, task[s] # NoTask, Job(s) = "reports"
        PROVE  task'[s].today = FALSE
    <2>1. task'[s] = [task[s] EXCEPT !.late = TRUE, !.today = FALSE] /\ task[s] \in Report
      BY <1>1, <1>5, BusyIs, RunKinds DEF IInv, TaskInv
    <2> QED
      BY <2>1 DEF Report
  <1>6. WorldInv' /\ KeysInv'
    BY <1>1, PeriodEnds DEF IInv, WorldInv, KeysInv, world
  <1>7. RowsInv'
    <2>1. \A u \in Users : snaps[u] \in [Dates -> Balance \cup {NoRecord}]
      BY DEF IInv, RowsInv
    <2>2. ASSUME NEW b \in Balance \cup {NoRecord}
          PROVE  [today |-> NoRecord, yesterday |-> b] \in [Dates -> Balance \cup {NoRecord}]
      BY DEF Dates
    <2>5. \A u \in Users : snaps[u]["today"] \in Balance \cup {NoRecord}
      BY <2>1 DEF Dates
    <2>6. snaps' \in [Users -> [Dates -> Balance \cup {NoRecord}]]
      BY <1>1, <2>2, <2>5
    <2>3. unseen' \in [Users -> SUBSET Dates]
      BY <1>1 DEF Dates
    <2>4. known' \subseteq Users /\ fired' = {} /\ acts' = acts
      BY <1>1, PeriodEnds DEF IInv, RowsInv
    <2> QED
      BY <1>1, <2>6, <2>3, <2>4 DEF IInv, RowsInv
  <1>8. NudgeInv'
    BY <1>1, <1>2, NudgesAge
  <1>9. pos' = pos
    BY <1>1, PeriodEnds DEF world
  <1>10. SnapshotInv'
    <2>1. ASSUME NEW s \in Slots PROVE FreshInv(s)'
      BY <1>3, <1>4, <1>9, NoRun DEF FreshInv, IInv, SnapshotInv, At
    <2>2. ASSUME NEW u \in Users PROVE SnapInv(u)'
      <3>1. snaps'[u]["today"] = NoRecord /\ snaps'[u]["yesterday"] = snaps[u]["today"]
        BY <1>1
      <3>2. "today" \in unseen[u] \/ Finalizing(u) => "yesterday" \in unseen'[u]
        BY <1>1
      <3>3. SnapInv(u)
        BY DEF IInv, SnapshotInv
      <3> QED
        BY <1>9, <3>1, <3>2, <3>3 DEF SnapInv
    <2> QED
      BY <2>1, <2>2 DEF SnapshotInv
  <1>11. ReportInv'
    <2>1. \A s \in Slots : ~Reporting(s)'
      BY <1>3, <1>5 DEF Reporting
    <2>2. reported' = [u \in Users |-> 0]
      BY <1>1
    <2>3. \A u \in Users : reported'[u] = 0
      BY <2>2
    <2> QED
      BY <2>1, <2>3 DEF ReportInv
  <1> QED
    BY <1>3, <1>6, <1>7, <1>8, <1>10, <1>11 DEF IInv

\* Another step leaves everything as it is.
LEMMA StutterKeeps ==
    ASSUME IInv, UNCHANGED vars
    PROVE  IInv'
  <1>1. /\ UNCHANGED <<idle, pos, session, cooldown, nudgePending, best, reportDone, snaps>>
        /\ UNCHANGED <<known, task, period, fired, acts, quiet, reported, disturbed, moved>>
        /\ UNCHANGED unseen
    BY DEF vars, world, nudgeKeys, rows, clock, reportHistory, moveHistory
  <1>2. WorldInv' /\ TaskInv' /\ RowsInv' /\ KeysInv'
    BY <1>1 DEF IInv, WorldInv, TaskInv, RowsInv, KeysInv, Busy, At
  <1>3. NudgeInv' /\ SnapshotInv'
    BY <1>1 DEF IInv, NudgeInv, SnapshotInv, ScanInv, CooldownInv, FreshInv, SnapInv,
                Finalizing, At
  <1>4. ReportInv'
    BY <1>1, ReportsSame DEF IInv
  <1> QED
    BY <1>2, <1>3, <1>4 DEF IInv

--------------------------------------------------------------------------------
(* The invariant holds, and what follows from it                           *)

LEMMA InitHolds ==
    ASSUME Init
    PROVE  IInv
  <1>1. \A s \in Slots : task[s] = NoTask
    BY DEF Init
  <1>2. TaskInv
    <2>1. Busy = {}
      BY <1>1, NoRun DEF Busy
    <2>2. IsFiniteSet(Busy) /\ Cardinality(Busy) = 0
      BY <2>1, FS_EmptySet
    <2> QED
      BY <1>1, <2>2, Bounds DEF Init, TaskInv, Fits
  <1>3. WorldInv /\ KeysInv
    <2>1. MaxBalance + 0 <= MaxBalance /\ MaxBalance \in Nat /\ 0 \in Nat
      BY Bounds
    <2>2. WorldInv
      BY <2>1 DEF Init, WorldInv
    <2>3. 0 \in 0..BestTtl /\ 0 \in Ttl /\ 0 \in 0..NudgeCooldown
      BY Bounds DEF Ttl
    <2>4. KeysInv
      BY <2>3 DEF Init, KeysInv
    <2> QED
      BY <2>2, <2>4
  <1>4. RowsInv
    <2>1. 0 \in 0..MaxActs
      BY Bounds
    <2>2. [d \in Dates |-> NoRecord] \in [Dates -> Balance \cup {NoRecord}]
      OBVIOUS
    <2> QED
      BY <2>1, <2>2 DEF Init, RowsInv
  <1>5. NudgeInv
    BY <1>1, Bounds DEF Init, NudgeInv, ScanInv, CooldownInv
  <1>6. SnapshotInv
    BY <1>1, NoRun, Kinds DEF Init, SnapshotInv, FreshInv, SnapInv, Dates, At
  <1>7. ReportInv
    BY <1>1 DEF Init, ReportInv, MayReport, Reporting, Passed
  <1> QED
    BY <1>2, <1>3, <1>4, <1>5, <1>6, <1>7 DEF IInv

LEMMA JobStepKeeps ==
    ASSUME IInv, NEW s \in Slots, JobStep(s)
    PROVE  IInv'
  <1>1. CASE RunPoolScan(s)
    BY <1>1, RunPoolScanKeeps
  <1>2. CASE CheckCooldown(s)
    BY <1>2, CheckCooldownKeeps
  <1>3. CASE CheckPending(s) \/ CheckBalance(s) \/ CheckBest(s)
    BY <1>3, CheckUserKeeps
  <1>4. CASE SendNudge(s)
    BY <1>4, SendNudgeKeeps
  <1>5. CASE SetCooldown(s)
    BY <1>5, SetCooldownKeeps
  <1>6. CASE SetPending(s)
    BY <1>6, SetPendingKeeps
  <1>7. CASE CheckDone(s) \/ ListUsers(s)
    BY <1>7, CheckDoneKeeps, ListUsersKeeps
  <1>8. CASE Discover(s)
    BY <1>8, DiscoverKeeps
  <1>9. CASE ReadSnapshots(s)
    BY <1>9, ReadSnapshotsKeeps
  <1>10. CASE UpsertReported(s)
    BY <1>10, UpsertReportedKeeps
  <1>11. CASE SendReport(s)
    BY <1>11, SendReportKeeps
  <1>12. CASE FinishReports(s)
    BY <1>12, FinishReportsKeeps
  <1> QED
    BY <1>1, <1>2, <1>3, <1>4, <1>5, <1>6, <1>7, <1>8, <1>9, <1>10, <1>11, <1>12 DEF JobStep

LEMMA FlowStepKeeps ==
    ASSUME IInv, FlowStep
    PROVE  IInv'
  <1>1. CASE PlanDeposit
    BY <1>1, PlanDepositKeeps
  <1>2. CASE GiveUp
    BY <1>2, GiveUpKeeps
  <1>3. CASE WithdrawAll
    BY <1>3, WithdrawAllKeeps
  <1>4. ASSUME NEW answered \in BOOLEAN, Deposit(answered) PROVE IInv'
    BY <1>4, DepositKeeps
  <1>5. CASE DiscoverDeposit
    BY <1>5, DiscoverDepositKeeps
  <1>6. CASE UpsertDeposited
    BY <1>6, UpsertDepositedKeeps
  <1> QED
    BY <1>1, <1>2, <1>3, <1>4, <1>5, <1>6 DEF FlowStep

LEMMA StepHolds ==
    ASSUME IInv, [Next]_vars
    PROVE  IInv'
  <1>1. ASSUME NEW j \in Jobs, NEW k \in {1, 2}, StartJob(j, k) PROVE IInv'
    BY <1>1, StartJobKeeps
  <1>2. ASSUME NEW s \in Busy, JobStep(s) \/ Fault(s) PROVE IInv'
    BY <1>2, JobStepKeeps, FaultKeeps DEF Busy
  <1>3. ASSUME NEW u \in Users, BuildDepositPlan(u) \/ BuildWithdrawAllPlan(u) PROVE IInv'
    BY <1>3, BuildDepositPlanKeeps, BuildWithdrawAllPlanKeeps
  <1>4. ASSUME NEW u \in Users, NEW amount \in {-1, 1}, Transfer(u, amount) PROVE IInv'
    BY <1>4, TransferKeeps
  <1>5. CASE FlowStep
    BY <1>5, FlowStepKeeps
  <1>6. ASSUME NEW u \in Users, NEW state \in {"live", "expired", "none"},
               ChangeSession(u, state)
        PROVE  IInv'
    BY <1>6, ChangeSessionKeeps
  <1>7. CASE Noon \/ Midnight
    BY <1>7, NoonKeeps, MidnightKeeps
  <1>8. ASSUME (\E u \in Users : DiscoverPositions(u)) \/ ShowPositions PROVE IInv'
    BY <1>8, DiscoverPositionsKeeps, ShowPositionsKeeps
  <1>9. CASE UNCHANGED vars
    BY <1>9, StutterKeeps
  <1> QED
    BY <1>1, <1>2, <1>3, <1>4, <1>5, <1>6, <1>7, <1>8, <1>9 DEF Next

\* The inductive invariant holds of every behaviour.
LEMMA Invariant == Spec => []IInv
  <1>1. Init => IInv
    BY InitHolds
  <1>2. IInv /\ [Next]_vars => IInv'
    BY StepHolds
  <1> QED
    BY <1>1, <1>2, PTL DEF Spec

\* A balance is within its bounds, and a run carries what its job needs at the step it
\* has reached, however runs overlap or break off.
THEOREM TypeCorrect == Spec => []TypeOK
  <1>1. ASSUME IInv PROVE TypeOK
    <2>1. \A u \in Users : idle[u] \in Balance /\ pos[u] \in Balance
      <3>1. \A u \in Users : /\ idle[u] \in Nat /\ pos[u] \in Nat
                             /\ idle[u] + pos[u] <= MaxBalance
        BY <1>1 DEF IInv, WorldInv
      <3>2. \A x, y \in Nat : x + y <= MaxBalance => x \in Balance /\ y \in Balance
        BY Bounds DEF Balance
      <3> QED
        BY <3>1, <3>2
    <2>2. /\ idle \in [Users -> Balance] /\ pos \in [Users -> Balance]
          /\ session \in [Users -> {"live", "expired", "none"}]
      BY <1>1, <2>1 DEF IInv, WorldInv
    <2>3. /\ \A s \in Slots : Fits(s, task[s])
          /\ Cardinality(Busy) <= MaxBusy
      BY <1>1 DEF IInv, TaskInv
    <2> QED
      BY <1>1, <2>2, <2>3 DEF TypeOK, Fits, IInv, KeysInv, RowsInv
  <1> QED
    BY <1>1, Invariant, PTL

\* A user gets one report per day unless runs of that day overlapped or one broke off.
THEOREM ReportsOnce == Spec => []ReportsOncePerDay
  <1>1. ASSUME IInv PROVE ReportsOncePerDay
    <2>1. \A u \in Users : disturbed \/ reported[u] \in {0, 1}
      BY <1>1 DEF IInv, ReportInv
    <2>2. \A x \in {0, 1} : x <= 1
      OBVIOUS
    <2> QED
      BY <2>1, <2>2 DEF ReportsOncePerDay
  <1> QED
    BY <1>1, Invariant, PTL

\* What the positions view is about to show as gained is 0, unless there was a transfer
\* today or since it read the position, or yesterday's snapshot missed one.
THEOREM GainsMeanTransfers == Spec => []GainsExplained
  <1>1. ASSUME IInv PROVE GainsExplained
    <2> DEFINE u == task[View].user
               b == task[View].balance
    <2> SUFFICES ASSUME At(View, "snapshots"), u \notin moved, "yesterday" \notin unseen[u],
                        task[View].fresh
                 PROVE  Gain24h(u, b) = 0
      BY DEF GainsExplained
    <2>1. View \in Slots /\ Job(View) = "view" /\ task[View] # NoTask
      BY NoRun DEF Slots, View, Job, At
    <2>2. u \in Users
      BY <1>1, <2>1, RunKinds DEF IInv, TaskInv, Positions
    <2>3. b = pos[u]
      BY <1>1, <2>1 DEF IInv, SnapshotInv, FreshInv, At
    <2> HIDE DEF u, b
    <2>4. snaps[u]["yesterday"] \in {NoRecord, pos[u]}
      BY <1>1, <2>2 DEF IInv, SnapshotInv, SnapInv
    <2>5. pos[u] \in Nat /\ pos[u] - pos[u] = 0
      BY <1>1, <2>2 DEF IInv, WorldInv
    <2> QED
      BY <2>3, <2>4, <2>5 DEF Gain24h, ListSnapshots
  <1> QED
    BY <1>1, Invariant, PTL

\* A scan that overlaps with no other never nudges a user within the cooldown of the last
\* nudge.
THEOREM NudgesKept == Spec => NudgesKeepCooldown
  <1>1. ASSUME IInv, NEW s \in Slots, SendNudge(s), quiet[Job(s)] # 0
        PROVE  ~task[s].alone
    <2>1. Job(s) \in Users /\ task[s].pc = "send"
      BY <1>1 DEF SendNudge, At
    <2>2. task[s] # NoTask
      BY <2>1, NoRun
    <2> QED
      BY <1>1, <2>1, <2>2 DEF IInv, NudgeInv, ScanInv, Cleared
  <1>2. IInv => [\A s \in Slots : (SendNudge(s) /\ quiet[Job(s)] # 0) => ~task[s].alone]_vars
    BY <1>1
  <1> QED
    BY <1>2, Invariant, PTL DEF NudgesKeepCooldown

\* A report of earnings other than 0 is due to a missing snapshot, to a transfer, or to a
\* snapshot or position that a transfer has overtaken.
THEOREM EarningsAccounted == Spec => EarningsExplained
  <1> DEFINE Explained(s) ==
        LET u == task[s].user
        IN \/ snaps[u]["yesterday"] = NoRecord
           \/ u \in moved \/ "yesterday" \in unseen[u]
           \/ ~task[s].fresh
  <1>1. ASSUME IInv, NEW s \in Slots, ReadSnapshots(s), task'[s].delta # 0
        PROVE  Explained(s)
    <2> DEFINE u == task[s].user
    <2>1. Job(s) = "reports" /\ task[s].pc = "snapshots"
      BY <1>1 DEF ReadSnapshots, At
    <2>2. task[s] \in Report /\ u \in Users
      BY <1>1, <2>1, RunKinds, NoRun DEF IInv, TaskInv, OfUser
    <2>3. task'[s].delta = Delta24h(u, task[s].balance)
      BY <1>1, <2>2 DEF ReadSnapshots, IInv, TaskInv, Report
    <2> SUFFICES ASSUME snaps[u]["yesterday"] # NoRecord, u \notin moved,
                        "yesterday" \notin unseen[u], task[s].fresh
                 PROVE  FALSE
      OBVIOUS
    <2>4. snaps[u]["yesterday"] = pos[u] /\ task[s].balance = pos[u] /\ pos[u] \in Nat
      BY <1>1, <2>1, <2>2 DEF IInv, WorldInv, SnapshotInv, SnapInv, FreshInv
    <2> HIDE DEF u
    <2>5. Delta24h(u, task[s].balance) = pos[u] - pos[u]
      BY <2>4 DEF Delta24h, ListSnapshots
    <2> QED
      BY <1>1, <2>3, <2>4, <2>5
  <1>2. IInv => [\A s \in Slots : (ReadSnapshots(s) /\ task'[s].delta # 0) =>
                    LET u == task[s].user
                    IN \/ snaps[u]["yesterday"] = NoRecord
                       \/ u \in moved \/ "yesterday" \in unseen[u]
                       \/ ~task[s].fresh]_vars
    BY <1>1
  <1> QED
    BY <1>2, Invariant, PTL DEF EarningsExplained

--------------------------------------------------------------------------------
(* The ranker *)

\* A set of naturals has a least one.
LEMMA Least ==
    ASSUME NEW T, T \subseteq Nat, T # {}
    PROVE  \E m \in T : \A k \in T : m <= k
  <1>1. PICK m \in T : \A k \in T : <<k, m>> \notin OpToRel(<, Nat)
    BY WFMin, NatLessThanWellFounded
  <1>2. \A k \in T : ~(k < m)
    BY <1>1 DEF OpToRel
  <1> QED
    BY <1>2

\* The sum that the ranker's reduce computes, as far as n.
Sums(h, f) ==
    f = [n \in 0..Len(h) |-> IF n = 0 THEN 0 ELSE f[n - 1] + h[n]]

LEMMA SumsAre ==
    ASSUME NEW h \in Seq(Nat)
    PROVE  \E f : Sums(h, f)
  <1> DEFINE Upto(n, f) ==
               f = [k \in 0..n |-> IF k = 0 THEN 0 ELSE f[k - 1] + h[k]]
             Without == {n \in Nat : ~ \E f : Upto(n, f)}
  <1>1. Without = {}
    <2> SUFFICES ASSUME Without # {} PROVE FALSE
      OBVIOUS
    <2>1. PICK m \in Without : \A k \in Without : m <= k
      BY Least
    <2>2. m \in Nat /\ ~ \E f : Upto(m, f)
      OBVIOUS
    <2>3. m # 0
      <3>1. Upto(0, [k \in 0..0 |-> 0])
        OBVIOUS
      <3> QED
        BY <2>2, <3>1
    <2>4. m - 1 \in Nat /\ m - 1 \notin Without
      <3>1. m - 1 \in Nat /\ ~(m <= m - 1)
        BY <2>2, <2>3
      <3> HIDE DEF Without
      <3> QED
        BY <2>1, <3>1
    <2>5. PICK f : Upto(m - 1, f)
      BY <2>4
    <2> DEFINE g == [k \in 0..m |-> IF k = m THEN f[m - 1] + h[m] ELSE f[k]]
    <2>6. Upto(m, g)
      <3>1. ASSUME NEW k \in 0..m
            PROVE  g[k] = IF k = 0 THEN 0 ELSE g[k - 1] + h[k]
        <4>1. CASE k = m
          BY <2>2, <2>3, <4>1
        <4>2. CASE k = 0
          BY <2>2, <2>3, <2>5, <4>2
        <4>3. CASE k # m /\ k # 0
          <5>1. k \in 0..(m - 1) /\ k - 1 \in 0..m /\ k - 1 # m /\ k \in 0..m
            BY <2>2, <4>3
          <5>2. f[k] = f[k - 1] + h[k]
            BY <2>5, <4>3, <5>1
          <5> QED
            BY <4>3, <5>1, <5>2
        <4> QED
          BY <4>1, <4>2, <4>3
      <3>2. g = [k \in 0..m |-> g[k]]
        OBVIOUS
      <3> HIDE DEF g
      <3> QED
        BY <3>1, <3>2
    <2> QED
      BY <2>2, <2>6
  <1>2. Len(h) \in Nat /\ Len(h) \notin Without
    BY <1>1
  <1> QED
    BY <1>2 DEF Sums

LEMMA SumType ==
    ASSUME NEW pool, pool.history \in Seq(Nat)
    PROVE  HistorySum(pool) \in Nat
  <1> DEFINE h == pool.history
             sum == CHOOSE f : Sums(h, f)
  <1>1. Sums(h, sum)
    BY SumsAre
  <1>2. HistorySum(pool) = sum[Len(h)]
    BY DEF HistorySum, Sums
  <1>3. h \in Seq(Nat)
    OBVIOUS
  <1> HIDE DEF h, sum
  <1>4. Len(h) \in Nat /\ \A k \in 1..Len(h) : h[k] \in Nat
    BY <1>3
  <1>5. \A k \in 0..Len(h) : sum[k] = IF k = 0 THEN 0 ELSE sum[k - 1] + h[k]
    BY <1>1, <1>4 DEF Sums
  <1> DEFINE Bad == {k \in 0..Len(h) : sum[k] \notin Nat}
  <1>6. Bad = {}
    <2> SUFFICES ASSUME Bad # {} PROVE FALSE
      OBVIOUS
    <2>1. Bad \subseteq Nat
      BY <1>4
    <2>2. PICK m \in Bad : \A k \in Bad : m <= k
      BY <2>1, Least
    <2>3. m \in 0..Len(h) /\ sum[m] \notin Nat
      OBVIOUS
    <2>4. m # 0
      BY <1>4, <1>5, <2>3
    <2>5. m - 1 \in 0..Len(h) /\ m - 1 \notin Bad
      BY <1>4, <2>2, <2>3, <2>4
    <2>6. sum[m - 1] \in Nat /\ h[m] \in Nat
      BY <1>4, <2>3, <2>4, <2>5
    <2> QED
      BY <1>5, <2>3, <2>4, <2>6
  <1> QED
    BY <1>2, <1>4, <1>6

\* A rational that the ranker compares.
Rational(s) == s = <<s[1], s[2]>> /\ s[1] \in Nat /\ s[2] \in Nat /\ s[2] > 0

LEMMA ProductOrder ==
    ASSUME NEW a \in Nat, NEW b \in Nat, NEW c \in Nat, c > 0
    PROVE  a * c > b * c <=> a > b
  OBVIOUS

\* More is the strict part of a total preorder.
LEMMA MoreOrder ==
    ASSUME NEW a, NEW b, NEW c, Rational(a), Rational(b), Rational(c),
           ~More(b, a), ~More(c, b)
    PROVE  ~More(c, a) /\ (More(a, b) \/ More(b, c) => More(a, c))
  <1> DEFINE p == a[1]
             q == a[2]
             r == b[1]
             s == b[2]
             t == c[1]
             u == c[2]
             pu == p * u
             tq == t * q
  <1>1. /\ p \in Nat /\ q \in Nat /\ q > 0 /\ r \in Nat /\ s \in Nat /\ s > 0
        /\ t \in Nat /\ u \in Nat /\ u > 0
    BY DEF Rational
  <1>2. /\ ~(r * q > p * s) /\ ~(t * s > r * u)
        /\ More(a, b) <=> p * s > r * q
        /\ More(b, c) <=> r * u > t * s
        /\ More(a, c) <=> pu > tq
        /\ More(c, a) <=> tq > pu
    BY DEF More
  <1> HIDE DEF p, q, r, s, t, u
  <1> DEFINE ps == p * s
             rq == r * q
             ru == r * u
             ts == t * s
  <1>3. /\ ps \in Nat /\ rq \in Nat /\ ru \in Nat /\ ts \in Nat /\ pu \in Nat /\ tq \in Nat
        /\ ps * u = pu * s /\ ru * q = rq * u /\ ts * q = tq * s
    BY <1>1
  <1>4. ps >= rq /\ ru >= ts
    BY <1>2, <1>3
  <1> HIDE DEF ps, rq, ru, ts, pu, tq
  <1>5. /\ ps * u >= rq * u /\ (ps > rq => ps * u > rq * u)
        /\ ru * q >= ts * q /\ (ru > ts => ru * q > ts * q)
    BY <1>1, <1>3, <1>4
  <1>6. pu * s >= tq * s /\ (ps > rq \/ ru > ts => pu * s > tq * s)
    <2>1. /\ ps * u \in Nat /\ rq * u \in Nat /\ ru * q \in Nat /\ ts * q \in Nat
          /\ pu * s \in Nat /\ tq * s \in Nat
      BY <1>1, <1>3
    <2> QED
      BY <1>3, <1>5, <2>1
  <1>7. pu >= tq /\ (ps > rq \/ ru > ts => pu > tq)
    BY <1>1, <1>3, <1>6, ProductOrder
  <1> QED
    BY <1>2, <1>3, <1>7 DEF ps, rq, ru, ts

\* The mean of the rates, as the ranker and its property see it.
Mean(pool) ==
    IF pool.history = <<>> THEN <<pool.apy, 1>> ELSE <<HistorySum(pool), Len(pool.history)>>

LEMMA MeanIs ==
    ASSUME NEW pool \in Pool
    PROVE  /\ Rational(Mean(pool))
           /\ ComputeScore(pool) =
                 <<7 * Mean(pool)[1] + 3 * pool.apy * Mean(pool)[2], 10 * Mean(pool)[2]>>
  <1>1. pool.history \in Seq(Nat) /\ pool.apy \in Nat /\ HistorySum(pool) \in Nat
    BY SumType DEF Pool
  <1>2. (Len(pool.history) = 0 <=> pool.history = <<>>) /\ Len(pool.history) \in Nat
    BY <1>1
  <1>3. Rational(Mean(pool))
    BY <1>1, <1>2 DEF Mean, Rational
  <1>4. ComputeScore(pool) =
           <<7 * Mean(pool)[1] + 3 * pool.apy * Mean(pool)[2], 10 * Mean(pool)[2]>>
    BY <1>2 DEF ComputeScore, Mean
  <1> QED
    BY <1>3, <1>4

\* A score is a rational, whether it is halved or not.
LEMMA ScoreIs ==
    ASSUME NEW pool \in Pool
    PROVE  /\ Rational(ComputeScore(pool)) /\ Rational(Score(pool))
           /\ Score(pool)[1] = ComputeScore(pool)[1]
           /\ Score(pool)[2] = IF pool.utilized THEN 2 * ComputeScore(pool)[2]
                               ELSE ComputeScore(pool)[2]
  <1> DEFINE m == Mean(pool)[1]
             n == Mean(pool)[2]
             apy == pool.apy
             x == 7 * m + 3 * apy * n
             y == 10 * n
  <1>1. m \in Nat /\ n \in Nat /\ n > 0 /\ apy \in Nat
    BY MeanIs DEF Rational, Pool
  <1>2. ComputeScore(pool) = <<x, y>>
    BY MeanIs
  <1> HIDE DEF m, n, apy
  <1>3. x \in Nat /\ y \in Nat /\ y > 0
    <2>1. apy * n \in Nat
      BY <1>1
    <2> QED
      BY <1>1, <2>1
  <1> HIDE DEF x, y
  <1> QED
    BY <1>2, <1>3 DEF Score, Rational

\* A pool that is no more utilized, and pays at least as much now and on average and more
\* in one of the two, has the greater score.
LEMMA DominanceScores ==
    ASSUME NEW p \in Pool, NEW q \in Pool, p.utilized => q.utilized,
           p.apy >= q.apy, ~More(Mean(q), Mean(p)),
           p.apy > q.apy \/ More(Mean(p), Mean(q))
    PROVE  More(Score(p), Score(q))
  <1> DEFINE a == Mean(p)[1]
             b == Mean(p)[2]
             c == Mean(q)[1]
             d == Mean(q)[2]
             g == p.apy
             h == q.apy
             x == 7 * a + 3 * g * b
             y == 7 * c + 3 * h * d
             bd == b * d
             ad == a * d
             cb == c * b
  <1>1. /\ a \in Nat /\ b \in Nat /\ b > 0 /\ c \in Nat /\ d \in Nat /\ d > 0
        /\ g \in Nat /\ h \in Nat /\ g >= h
    BY MeanIs DEF Rational, Pool
  <1>2. ~(cb > ad) /\ (g > h \/ ad > cb)
    BY DEF More
  <1>3. ComputeScore(p) = <<x, 10 * b>> /\ ComputeScore(q) = <<y, 10 * d>>
    BY MeanIs
  <1> HIDE DEF a, b, c, d, g, h
  <1>4. /\ bd \in Nat /\ bd > 0 /\ ad \in Nat /\ cb \in Nat /\ x \in Nat /\ y \in Nat
        /\ g * b \in Nat /\ h * d \in Nat
    BY <1>1
  <1>5. g * bd \in Nat /\ h * bd \in Nat /\ g * bd >= h * bd /\ (g > h => g * bd > h * bd)
    BY <1>1, <1>4
  <1>6. x * d = 7 * ad + 3 * (g * bd) /\ y * b = 7 * cb + 3 * (h * bd)
    BY <1>1
  <1>7. x * d > y * b /\ x * d \in Nat /\ y * b \in Nat
    <2> HIDE DEF x, y, ad, cb, bd
    <2> QED
      BY <1>2, <1>4, <1>5, <1>6, <1>1
  <1>8. /\ x * (10 * d) = 10 * (x * d) /\ y * (10 * b) = 10 * (y * b)
        /\ x * (2 * (10 * d)) = 20 * (x * d) /\ y * (2 * (10 * b)) = 20 * (y * b)
    <2> HIDE DEF x, y
    <2> QED
      BY <1>1, <1>4
  <1>9. /\ Score(p)[1] = x /\ Score(q)[1] = y
        /\ Score(p)[2] = IF p.utilized THEN 2 * (10 * b) ELSE 10 * b
        /\ Score(q)[2] = IF q.utilized THEN 2 * (10 * d) ELSE 10 * d
    BY <1>3, ScoreIs
  <1> HIDE DEF x, y
  <1> QED
    BY <1>7, <1>8, <1>9 DEF More

\* The pool at j comes before the one at i: by its score, then by its place.
Before(pools, j, i) ==
    \/ More(Score(pools[j]), Score(pools[i]))
    \/ ~More(Score(pools[i]), Score(pools[j])) /\ j < i

LEMMA BeforeOrder ==
    ASSUME NEW pools \in Seq(Pool), NEW i \in DOMAIN pools, NEW j \in DOMAIN pools,
           NEW k \in DOMAIN pools
    PROVE  /\ ~Before(pools, i, i)
           /\ Before(pools, k, j) /\ Before(pools, j, i) => Before(pools, k, i)
  <1>1. /\ \A n \in DOMAIN pools : Rational(Score(pools[n]))
        /\ i \in Nat /\ j \in Nat /\ k \in Nat
    BY ScoreIs
  <1>2. ASSUME NEW a, NEW b, Rational(a), Rational(b), More(a, b) PROVE ~More(b, a)
    <2> DEFINE x == a[1] * b[2]
               y == b[1] * a[2]
    <2>1. x \in Nat /\ y \in Nat
      BY <1>2 DEF Rational
    <2>2. x > y /\ (More(b, a) <=> y > x)
      BY <1>2 DEF More
    <2> HIDE DEF x, y
    <2> QED
      BY <2>1, <2>2
  <1>3. ~Before(pools, i, i)
    BY <1>1, <1>2 DEF Before
  <1>4. ASSUME Before(pools, k, j), Before(pools, j, i) PROVE Before(pools, k, i)
    <2> DEFINE a == Score(pools[k])
               b == Score(pools[j])
               c == Score(pools[i])
    <2>1. Rational(a) /\ Rational(b) /\ Rational(c)
      BY <1>1
    <2>2. More(a, b) \/ (~More(b, a) /\ k < j)
      BY <1>4 DEF Before
    <2>3. More(b, c) \/ (~More(c, b) /\ j < i)
      BY <1>4 DEF Before
    <2> HIDE DEF a, b, c
    <2>4. ~More(b, a) /\ ~More(c, b)
      BY <1>2, <2>1, <2>2, <2>3
    <2>5. ~More(c, a) /\ (More(a, b) \/ More(b, c) => More(a, c))
      BY <2>1, <2>4, MoreOrder
    <2>6. More(a, c) \/ (~More(c, a) /\ k < i)
      BY <1>1, <2>2, <2>3, <2>5
    <2> QED
      BY <2>6 DEF Before, a, b, c
  <1> QED
    BY <1>3, <1>4

\* Among pools with enough liquidity there is a first one.
LEMMA FirstExists ==
    ASSUME NEW pools \in Seq(Pool), Ranked(pools) # {}
    PROVE  \E i \in Ranked(pools) : \A j \in Ranked(pools) : ~Before(pools, j, i)
  <1> DEFINE R == Ranked(pools)
             Ahead(i) == {j \in R : Before(pools, j, i)}
             Counts == {Cardinality(Ahead(i)) : i \in R}
  <1>1. IsFiniteSet(R) /\ R \subseteq DOMAIN pools
    <2>1. DOMAIN pools = 1..Len(pools) /\ Len(pools) \in Int
      OBVIOUS
    <2>2. IsFiniteSet(DOMAIN pools)
      BY <2>1, FS_Interval
    <2>3. R \subseteq DOMAIN pools
      BY DEF Ranked
    <2> QED
      BY <2>2, <2>3, FS_Subset
  <1>2. R # {}
    OBVIOUS
  <1> HIDE DEF R
  <1>3. \A i \in R : IsFiniteSet(Ahead(i)) /\ Cardinality(Ahead(i)) \in Nat
    BY <1>1, FS_Subset, FS_CardinalityType
  <1>4. Counts \subseteq Nat /\ Counts # {}
    BY <1>2, <1>3
  <1>5. PICK m \in Counts : \A n \in Counts : m <= n
    BY <1>4, Least
  <1>6. PICK i \in R : m = Cardinality(Ahead(i))
    OBVIOUS
  <1>7. ASSUME NEW j \in R PROVE ~Before(pools, j, i)
    <2> SUFFICES ASSUME Before(pools, j, i) PROVE FALSE
      OBVIOUS
    <2>1. Ahead(j) \subseteq Ahead(i)
      BY <1>1, BeforeOrder
    <2>2. j \in Ahead(i) /\ j \notin Ahead(j)
      BY <1>1, BeforeOrder
    <2>3. m <= Cardinality(Ahead(j))
      BY <1>5
    <2> HIDE DEF Ahead
    <2> QED
      BY <1>3, <1>6, <2>1, <2>2, <2>3, FS_Subset
  <1> QED
    BY <1>7 DEF R

\* What rank(...)[0] is.
LEMMA WinnerIs ==
    ASSUME NEW pools \in Seq(Pool), Ranked(pools) # {}
    PROVE  /\ Winner(pools) \in Ranked(pools)
           /\ \A j \in Ranked(pools) : ~More(Score(pools[j]), Score(pools[Winner(pools)]))
  <1> DEFINE First(i) == \A j \in Ranked(pools) :
                            /\ ~More(Score(pools[j]), Score(pools[i]))
                            /\ More(Score(pools[i]), Score(pools[j])) \/ i <= j
  <1>1. \A i \in Ranked(pools) : i \in Nat
    BY DEF Ranked
  <1>2. \E i \in Ranked(pools) : First(i)
    BY <1>1, FirstExists DEF Before
  <1>3. Winner(pools) = CHOOSE i \in Ranked(pools) : First(i)
    BY DEF Winner
  <1> HIDE DEF First
  <1>4. Winner(pools) \in Ranked(pools) /\ First(Winner(pools))
    BY <1>2, <1>3
  <1> QED
    BY <1>4 DEF First

LEMMA WinnerSound ==
    ASSUME NEW pools \in Seq(Pool)
    PROVE  WinnerIsSound(pools)
  <1> DEFINE w == Winner(pools)
             dominates(i, j) ==
                /\ pools[i].utilized => pools[j].utilized
                /\ pools[i].apy >= pools[j].apy /\ ~More(Mean(pools[j]), Mean(pools[i]))
                /\ pools[i].apy > pools[j].apy \/ More(Mean(pools[i]), Mean(pools[j]))
  <1>1. CASE Ranked(pools) = {}
    <2>1. w = NoRecord
      BY <1>1 DEF Winner
    <2>2. ASSUME NEW i \in DOMAIN pools PROVE pools[i].liquidity < MinLiquidity
      <3>1. pools[i].liquidity \in Int /\ MinLiquidity \in Int
        <4>1. pools[i] \in Pool
          OBVIOUS
        <4> QED
          BY <4>1, PoolsAssumption DEF Pool
      <3>2. ~(pools[i].liquidity >= MinLiquidity)
        BY <1>1 DEF Ranked
      <3> QED
        BY <3>1, <3>2
    <2> QED
      BY <2>1, <2>2 DEF WinnerIsSound
  <1>2. CASE Ranked(pools) # {}
    <2>1. w \in Ranked(pools) /\ \A j \in Ranked(pools) : ~More(Score(pools[j]), Score(pools[w]))
      BY <1>2, WinnerIs
    <2> HIDE DEF w
    <2>2. w \in DOMAIN pools /\ pools[w].liquidity >= MinLiquidity /\ w # NoRecord
      BY <2>1, PoolsAssumption DEF Ranked
    <2>3. ASSUME NEW i \in DOMAIN pools, pools[i].liquidity >= MinLiquidity
          PROVE  ~dominates(i, w)
      <3>1. i \in Ranked(pools) /\ pools[i] \in Pool /\ pools[w] \in Pool
        BY <2>2, <2>3 DEF Ranked
      <3>2. ~More(Score(pools[i]), Score(pools[w]))
        BY <2>1, <3>1
      <3> QED
        BY <3>1, <3>2, DominanceScores
    <2> QED
      BY <2>2, <2>3 DEF WinnerIsSound, Mean, w
  <1> QED
    BY <1>1, <1>2

\* The ranker finds a pool whenever one has enough liquidity, and no such pool that is no
\* more utilized pays at least as much now and on average and more in one of the two:
\* for any number of pools and rates of any length.
THEOREM WinnersSound == Spec => []WinnerUndominated
  <1>1. WinnerUndominated
    BY PoolsAssumption, WinnerSound DEF WinnerUndominated, AllWinnersSound
  <1> QED
    BY <1>1, PTL
================================================================================
