-------------------------- MODULE LoyaltyLedgerProofs --------------------------
(***************************************************************************)
(* What holds of the loyalty ledger for every set of users, seasons and    *)
(* concurrent awards, every configuration of the seasons and every amount. *)
(***************************************************************************)
EXTENDS LoyaltyLedger, FunctionTheorems, FiniteSetTheorems, SequenceTheorems, TLAPS

--------------------------------------------------------------------------------
(* The formula and the records of the calls *)

LEMMA ProductNat ==
    ASSUME NEW x \in Nat, NEW y \in Nat
    PROVE  x * y \in Nat
  OBVIOUS

\* The formula returns a number of points, for a value or none.
LEMMA PointsNat ==
    ASSUME NEW s \in Seasons, NEW action \in Actions, NEW usd \in UsdValues \cup {NoRecord}
    PROVE  ComputePointsV1(action, usd, Config[s]) \in Nat
  <1> DEFINE config == Config[s]
             factor == IF usd = NoRecord \/ usd = 0 THEN 4 ELSE config.volume[usd]
  <1>1. config \in SeasonConfig
    BY ConfigAssumption
  <1>2. /\ config.base[action] \in Nat /\ config.multiplier[action] \in Nat
        /\ config.perActionCap \in Nat
    BY <1>1 DEF SeasonConfig
  <1>3. factor \in Nat
    BY <1>1 DEF SeasonConfig
  <1>4. Raw(action, usd, config) = config.base[action] * config.multiplier[action] * factor
    BY DEF Raw
  <1>5. Raw(action, usd, config) \in Nat
    <2> HIDE DEF config, factor
    <2> QED
      BY <1>2, <1>3, <1>4, ProductNat
  <1>6. AtMost(Raw(action, usd, config), 4 * config.perActionCap) \in Nat
    BY <1>2, <1>5 DEF AtMost
  <1> QED
    BY <1>6 DEF ComputePointsV1

RunningSteps == {"status", "existing", "cache", "season", "store", "compute", "insert",
                 "duplicate"}

\* A call that is at a step is one that runs.
LEMMA AtRunning ==
    ASSUME NEW x \in Running \cup Settled
    PROVE  /\ x.pc \in RunningSteps <=> x \in Running
           /\ x.pc \in RunningSteps <=> x \notin Settled
  BY DEF Running, Settled, RunningSteps

LEMMA Fields ==
    ASSUME NEW x \in Running
    PROVE  /\ x.input \in AwardPointsInput /\ x.input.user \in Users
           /\ x.input.action \in Actions
           /\ x.input.usd \in UsdValues \cup {NoRecord}
           /\ x.input.exec \in Executions \cup {NoRecord}
           /\ x.season \in Seasons \cup {NoRecord} /\ x.points \in Nat
           /\ x.alone \in BOOLEAN /\ x.retry \in BOOLEAN
  BY DEF Running, AwardPointsInput

\* A running call with another step, season, number of points or mark.
LEMMA RunsOn ==
    ASSUME NEW x \in Running, NEW pc \in RunningSteps,
           NEW s \in Seasons \cup {NoRecord}, NEW n \in Nat
    PROVE  /\ [x EXCEPT !.pc = pc] \in Running
           /\ [x EXCEPT !.pc = pc, !.season = s] \in Running
           /\ [x EXCEPT !.points = n] \in Running
           /\ [x EXCEPT !.alone = FALSE] \in Running
           /\ [x EXCEPT !.alone = TRUE, !.points = n] \in Running
  <1>1. x = [pc |-> x.pc, input |-> x.input, season |-> x.season, points |-> x.points,
             alone |-> x.alone, retry |-> x.retry]
    BY DEF Running
  <1> QED
    BY <1>1 DEF Running, RunningSteps

--------------------------------------------------------------------------------
(* The leaderboard *)

ListedInv == \A s \in Seasons : IsFiniteSet(listed[s])

\* A set of positions that holds all positions before each of its own is a prefix.
LEMMA InitialSegment ==
    ASSUME NEW n \in Nat, NEW S \in SUBSET (1..n), \A j \in S : 1..j \subseteq S
    PROVE  /\ IsFiniteSet(S) /\ Cardinality(S) \in 0..n
           /\ S = 1..Cardinality(S)
  <1> DEFINE k == Cardinality(S)
  <1>1. \A m \in Nat : IsFiniteSet(1..m) /\ Cardinality(1..m) = m
    BY FS_Interval
  <1>2. IsFiniteSet(S) /\ k \in Nat /\ k <= n
    <2>1. IsFiniteSet(S) /\ Cardinality(S) <= Cardinality(1..n)
      BY <1>1, FS_Subset
    <2>2. Cardinality(S) \in Nat
      BY <2>1, FS_CardinalityType
    <2> QED
      BY <1>1, <2>1, <2>2
  <1> HIDE DEF k
  <1>3. ASSUME NEW j \in S PROVE j <= k
    <2>1. j \in Nat /\ 1..j \in SUBSET S
      OBVIOUS
    <2>2. Cardinality(1..j) <= Cardinality(S)
      BY <1>2, <2>1, FS_Subset
    <2> QED
      BY <1>1, <2>1, <2>2 DEF k
  <1>4. S \in SUBSET (1..k)
    BY <1>2, <1>3
  <1>5. Cardinality(1..k) = Cardinality(S)
    BY <1>1, <1>2 DEF k
  <1>6. S = 1..k
    BY <1>1, <1>2, <1>4, <1>5, FS_Subset
  <1> QED
    BY <1>2, <1>6 DEF k

\* A board has a row for each listed user, and no user has two.
LEMMA RankingRows ==
    ASSUME TypeOK, ListedInv, NEW s \in Seasons, NEW r \in Rankings(s)
    PROVE  /\ r \in Seq(Row)
           /\ \A i \in 1..Len(r) :
                 r[i].user \in listed[s] /\ r[i].total = balance[r[i].user][s]
           /\ \A i, j \in 1..Len(r) : r[i].user = r[j].user => i = j
           /\ \A u \in listed[s] : \E i \in 1..Len(r) : r[i].user = u
           /\ \A i, j \in 1..Len(r) : i < j => r[i].total >= r[j].total
  <1> DEFINE row(u) == [user |-> u, total |-> GetUserBalance(u, s)]
             rows == {row(u) : u \in listed[s]}
             f == [u \in listed[s] |-> row(u)]
             n == Cardinality(rows)
  <1>1. f \in Surjection(listed[s], rows)
    BY Zenon, Fun_IsSurj
  <1>2. IsFiniteSet(rows)
    BY <1>1, FS_Surjection, Zenon DEF ListedInv
  <1>3. n \in Nat
    BY <1>2, FS_CardinalityType, Zenon
  <1>4. /\ r \in [1..n -> rows]
        /\ \A i, j \in 1..n : i # j => r[i] # r[j]
        /\ \A i, j \in DOMAIN r : i < j => r[i].total >= r[j].total
    BY DEF Rankings, SetToSeqs
  <1>5. r \in Injection(1..n, rows)
    BY <1>4, Fun_IsInj
  <1>6. IsFiniteSet(1..n) /\ Cardinality(1..n) = n
    BY <1>3, FS_Interval
  <1>7. r \in Surjection(1..n, rows)
    BY <1>2, <1>5, <1>6, FS_Injection
  <1>8. \A q \in rows : \E i \in 1..n : r[i] = q
    BY <1>7, Zenon DEF Surjection
  <1>9. \A q \in rows : /\ q \in Row /\ q.user \in listed[s]
                        /\ q.total = balance[q.user][s]
                        /\ q = row(q.user)
    BY DEF TypeOK, Row, GetUserBalance
  <1>10. \A u \in listed[s] : row(u) \in rows /\ row(u).user = u
    OBVIOUS
  <1> HIDE DEF row, rows, n
  <1>11. r \in Seq(Row) /\ Len(r) = n /\ DOMAIN r = 1..n
    BY <1>3, <1>4, <1>9
  <1>12. \A i \in 1..n : r[i] \in rows
    BY <1>4
  <1> QED
    BY <1>4, <1>8, <1>9, <1>10, <1>11, <1>12

LEMMA LeaderboardType ==
    ASSUME TypeOK, ListedInv, NEW s \in Seasons, NEW b \in Leaderboards(s)
    PROVE  b \in Seq(Row)
  <1>1. PICK r \in Rankings(s) : b = SubSeq(r, 1, AtMost(BoardLimit, Len(r)))
    BY DEF Leaderboards
  <1>2. r \in Seq(Row)
    BY RankingRows
  <1>3. /\ AtMost(BoardLimit, Len(r)) \in Int
        /\ \A i \in 1..AtMost(BoardLimit, Len(r)) : r[i] \in Row
    BY <1>2, BoundAssumption DEF AtMost
  <1> QED
    BY <1>1, <1>3, SubSeqProperties

(***************************************************************************)
(* The query of a user's rank counts the users with more points; on the    *)
(* board that is the position of the first row with his total              *)
(* (loyalty.repo.ts:116-154).                                              *)
(***************************************************************************)
THEOREM RankOnBoard ==
    ASSUME TypeOK, ListedInv
    PROVE  RankAgreesWithBoard
  <1> SUFFICES ASSUME NEW s \in Seasons, NEW r \in Rankings(s), NEW i \in DOMAIN r,
                      GetUserRank(r[i].user, s) # NoRecord
               PROVE  LET rank == GetUserRank(r[i].user, s)
                      IN  /\ rank \in 1..i
                          /\ r[rank].total = r[i].total
                          /\ rank > 1 => r[rank - 1].total > r[i].total
    BY DEF RankAgreesWithBoard
  <1> DEFINE u == r[i].user
             ahead == {v \in listed[s] : GetUserBalance(v, s) > GetUserBalance(u, s)}
             above == {j \in 1..Len(r) : r[j].total > r[i].total}
             k == Cardinality(above)
             f == [j \in above |-> r[j].user]
  <1>1. /\ r \in Seq(Row) /\ i \in 1..Len(r)
        /\ \A j \in 1..Len(r) :
              r[j].user \in listed[s] /\ r[j].total = balance[r[j].user][s]
        /\ \A j, l \in 1..Len(r) : r[j].user = r[l].user => j = l
        /\ \A v \in listed[s] : \E j \in 1..Len(r) : r[j].user = v
        /\ \A j, l \in 1..Len(r) : j < l => r[j].total >= r[l].total
    BY RankingRows
  <1>2. \A j \in 1..Len(r) : r[j].total \in Int
    <2>1. \A j \in 1..Len(r) : r[j] \in Row
      BY <1>1
    <2> QED
      BY <2>1 DEF Row
  <1>3. f \in Bijection(above, ahead)
    <2>1. f \in [above -> ahead]
      BY <1>1 DEF GetUserBalance
    <2>2. \A j, l \in above : f[j] = f[l] => j = l
      BY <1>1
    <2>3. ASSUME NEW v \in ahead PROVE \E j \in above : f[j] = v
      <3>1. PICK j \in 1..Len(r) : r[j].user = v
        BY <1>1
      <3>2. r[j].total > r[i].total
        BY <1>1, <3>1 DEF GetUserBalance
      <3> QED
        BY <3>1, <3>2
    <2> QED
      BY <2>1, <2>2, <2>3, Fun_IsBij
  <1>4. above \subseteq 1..(i - 1) /\ \A j \in above : 1..j \subseteq above
    <2>1. Len(r) \in Nat
      BY <1>1
    <2>2. ASSUME NEW j \in above PROVE j \in 1..(i - 1)
      BY <1>1, <1>2, <2>1
    <2>3. ASSUME NEW j \in above, NEW l \in 1..j PROVE l \in above
      <3>1. l \in 1..Len(r) /\ (l = j \/ l < j)
        BY <2>1
      <3>2. r[l].total >= r[j].total
        BY <1>1, <1>2, <3>1
      <3> QED
        BY <1>1, <1>2, <3>1, <3>2
    <2> QED
      BY <2>2, <2>3
  <1>5. IsFiniteSet(above) /\ k \in 0..(i - 1) /\ above = 1..k
    <2> i - 1 \in Nat
      BY <1>1
    <2> HIDE DEF above
    <2> QED
      BY <1>4, InitialSegment
  <1>6. GetUserRank(u, s) = 1 + k
    <2>1. Cardinality(ahead) = k
      BY <1>3, <1>5, FS_Bijection DEF ExistsBijection
    <2> QED
      BY <2>1 DEF GetUserRank
  <1>7. \A j \in 1..Len(r) : j \in above <=> r[j].total > r[i].total
    OBVIOUS
  <1>8. Len(r) \in Nat
    BY <1>1
  <1> HIDE DEF k, above, ahead
  <1>9. k + 1 \in 1..i /\ k + 1 \in 1..Len(r) /\ k + 1 \notin above
    BY <1>1, <1>5, <1>8
  <1>10. r[k + 1].total = r[i].total
    <2>1. ~(r[k + 1].total > r[i].total)
      BY <1>7, <1>9
    <2>2. r[k + 1].total >= r[i].total
      BY <1>1, <1>2, <1>9
    <2> QED
      BY <1>1, <1>2, <1>9, <2>1, <2>2
  <1>11. k > 0 => r[k].total > r[i].total
    BY <1>1, <1>5, <1>7, <1>8
  <1> QED
    BY <1>5, <1>6, <1>9, <1>10, <1>11

--------------------------------------------------------------------------------
(* Types *)

\* What an entry changes has the type it had.
LEMMA InsertType ==
    ASSUME TypeOK, NEW u \in Users, NEW s \in Seasons, NEW n \in Int,
           InsertLedgerEntry(u, s, n)
    PROVE  /\ sum' \in [Users -> [Seasons -> [Days -> Int]]]
           /\ balance' \in [Users -> [Seasons -> Int]]
           /\ listed' \in [Seasons -> SUBSET Users]
  BY DEF TypeOK, InsertLedgerEntry

LEMMA NobodyAloneType ==
    ASSUME TypeOK, NEW others, NEW u, NEW s
    PROVE  NobodyAlone(others, u, s) \in [Awards -> Running \cup Settled]
  <1> SUFFICES ASSUME NEW a \in Awards
               PROVE  (IF a \in others /\ IsRunning(a) /\ award[a].input.user = u
                             /\ award[a].season = s
                       THEN [award[a] EXCEPT !.alone = FALSE] ELSE award[a])
                        \in Running \cup Settled
    BY DEF NobodyAlone
  <1>1. award[a] \in Running \cup Settled
    BY DEF TypeOK
  <1>2. award[a] \in Running => [award[a] EXCEPT !.alone = FALSE] \in Running
    <2> SUFFICES ASSUME award[a] \in Running
                 PROVE  [award[a] EXCEPT !.alone = FALSE] \in Running
      OBVIOUS
    <2> DEFINE x == award[a]
    <2>1. x \in Running /\ "status" \in RunningSteps /\ 0 \in Nat
          /\ NoRecord \in Seasons \cup {NoRecord}
      BY DEF RunningSteps
    <2> HIDE DEF x
    <2>2. [x EXCEPT !.alone = FALSE] \in Running
      BY <2>1, RunsOn
    <2> QED
      BY <2>2 DEF x
  <1> QED
    BY <1>1, <1>2 DEF IsRunning

\* A call that ends or goes on leaves the calls typed.
LEMMA AwardType ==
    ASSUME award \in [Awards -> Running \cup Settled], NEW a \in Awards,
           NEW x \in Running \cup Settled, award' = [award EXCEPT ![a] = x]
    PROVE  award' \in [Awards -> Running \cup Settled]
  OBVIOUS

LEMMA FinishType ==
    ASSUME TypeOK, NEW a \in Awards, NEW result \in {"entry", "null", "error"},
           Finish(a, result)
    PROVE  award' \in [Awards -> Running \cup Settled]
  <1>1. [pc |-> result] \in Settled
    BY DEF Settled
  <1> QED
    BY <1>1, AwardType DEF TypeOK, Finish

LEMMA GoToType ==
    ASSUME TypeOK, NEW a \in Awards, award[a] \in Running, NEW pc \in RunningSteps,
           GoTo(a, pc)
    PROVE  award' \in [Awards -> Running \cup Settled]
  <1> DEFINE x == award[a]
  <1>1. award' = [award EXCEPT ![a] = [x EXCEPT !.pc = pc]]
    BY DEF GoTo, TypeOK
  <1>2. x \in Running /\ NoRecord \in Seasons \cup {NoRecord} /\ 0 \in Nat
    OBVIOUS
  <1> HIDE DEF x
  <1>3. [x EXCEPT !.pc = pc] \in Running
    BY <1>2, RunsOn
  <1> QED
    BY <1>1, <1>3, AwardType DEF TypeOK

--------------------------------------------------------------------------------
(* The invariant *)

\* What a call that runs has read: a season, once it is past that; an execution that has
\* no entry, if it looked for one, and has one, if the index said so; and, as long as
\* nothing happened to the sum, points that fit under the cap.
AwardInv(a) ==
    /\ award[a].pc \in {"store", "compute", "insert", "duplicate"} =>
          award[a].season \in Seasons
    /\ At(a, "existing") => award[a].input.exec # NoRecord
    /\ At(a, "duplicate") => Taken(a)
    /\ IsRunning(a) /\ award[a].retry => Taken(a) /\ award[a].pc \in {"status", "existing"}
    /\ IsRunning(a) /\ award[a].alone => award[a].pc \in {"insert", "duplicate"}
    /\ At(a, "insert") /\ award[a].alone =>
          LET config == Config[award[a].season]
          IN  /\ config.dailyUserCap # NoCap
              /\ sum[award[a].input.user][award[a].season][day] + award[a].points
                    <= config.dailyUserCap

IInv == TypeOK /\ ListedInv /\ (\A a \in Awards : AwardInv(a)) /\ CapHeldUnlessRaced

LEMMA CapNat ==
    ASSUME NEW s \in Seasons, Config[s].dailyUserCap # NoCap
    PROVE  Config[s].dailyUserCap \in Nat
  <1>1. Config[s] \in SeasonConfig
    BY ConfigAssumption
  <1> QED
    BY <1>1 DEF SeasonConfig

LEMMA InitInv == Init => IInv
  <1> SUFFICES ASSUME Init PROVE IInv
    OBVIOUS
  <1>1. /\ 0 \in Days /\ 0 \in 0..MaxActs
        /\ \A a \in Awards : award[a] \in Settled /\ award[a].pc = "idle"
    BY BoundAssumption DEF Init, Days, Settled
  <1>2. TypeOK
    BY <1>1 DEF Init, TypeOK, Days
  <1>3. ListedInv
    BY FS_EmptySet DEF Init, ListedInv
  <1>4. \A a \in Awards : AwardInv(a)
    BY <1>1 DEF AwardInv, At, IsRunning
  <1>5. CapHeldUnlessRaced
    <2> SUFFICES ASSUME NEW u \in Users, NEW s \in Seasons, NEW d \in Days,
                        Config[s].dailyUserCap # NoCap
                 PROVE  sum[u][s][d] <= Config[s].dailyUserCap + excess[u][s][d]
      BY DEF CapHeldUnlessRaced
    <2> QED
      BY CapNat DEF Init
  <1> QED
    BY <1>2, <1>3, <1>4, <1>5 DEF IInv

\* A call at a step, with what it carries.
LEMMA AtStep ==
    ASSUME TypeOK, NEW a \in Awards, AwardInv(a), NEW pc \in RunningSteps, At(a, pc)
    PROVE  /\ award[a] \in Running /\ IsRunning(a)
           /\ award[a].input.user \in Users /\ award[a].input.action \in Actions
           /\ award[a].input.usd \in UsdValues \cup {NoRecord}
           /\ award[a].points \in Nat
           /\ pc \in {"store", "compute", "insert", "duplicate"} => award[a].season \in Seasons
  BY AtRunning, Fields DEF TypeOK, At, AwardInv, IsRunning

\* A step of one call that leaves the ledger alone disturbs no other call.
LEMMA OtherAwards ==
    ASSUME TypeOK, NEW a \in Awards, NEW b \in Awards, AwardInv(b),
           award'[b] = award[b], UNCHANGED <<sum, booked, day>>
    PROVE  AwardInv(b)'
  BY DEF AwardInv, At, Taken, IsRunning

LEMMA CapUnchanged ==
    ASSUME CapHeldUnlessRaced, UNCHANGED <<sum, excess>>
    PROVE  CapHeldUnlessRaced'
  BY DEF CapHeldUnlessRaced

--------------------------------------------------------------------------------
(* The steps of a call *)

\* A step that moves one call and leaves the ledger alone.
LEMMA LocalStep ==
    ASSUME IInv, NEW a \in Awards, NEW x \in Running \cup Settled,
           award' = [award EXCEPT ![a] = x], AwardInv(a)',
           seasonCache' \in [season: Seasons, ttl: 0..SeasonTtl] \cup {NoRecord},
           UNCHANGED <<ledger, booked, season, forbidden, boardCache, reader, day, acts, excess>>
    PROVE  IInv'
  <1>1. TypeOK'
    BY DEF IInv, TypeOK, ledger
  <1>2. \A b \in Awards : AwardInv(b)'
    <2> SUFFICES ASSUME NEW b \in Awards \ {a} PROVE AwardInv(b)'
      OBVIOUS
    <2>1. award'[b] = award[b]
      BY DEF IInv, TypeOK
    <2> QED
      BY <2>1, OtherAwards DEF IInv, ledger
  <1>3. CapHeldUnlessRaced' /\ ListedInv'
    BY CapUnchanged DEF IInv, ListedInv, ledger
  <1> QED
    BY <1>1, <1>2, <1>3 DEF IInv

LEMMA FinishStep ==
    ASSUME IInv, NEW a \in Awards, NEW result \in {"entry", "null", "error"},
           Finish(a, result),
           UNCHANGED <<ledger, booked, season, forbidden, seasonCache, boardCache, reader,
                       day, acts, excess>>
    PROVE  IInv'
  <1> DEFINE x == [pc |-> result]
  <1>1. x \in Settled /\ award' = [award EXCEPT ![a] = x] /\ award'[a] = x
    BY DEF Settled, Finish, IInv, TypeOK
  <1>2. AwardInv(a)'
    BY <1>1 DEF AwardInv, At, IsRunning
  <1>3. seasonCache' \in [season: Seasons, ttl: 0..SeasonTtl] \cup {NoRecord}
    BY DEF IInv, TypeOK
  <1> HIDE DEF x
  <1> QED
    BY <1>1, <1>2, <1>3, LocalStep

\* A call goes on to a step whose conditions hold.
LEMMA GoToStep ==
    ASSUME IInv, NEW a \in Awards, IsRunning(a), NEW pc \in RunningSteps \ {"insert"},
           GoTo(a, pc),
           pc \in {"store", "compute", "duplicate"} => award[a].season \in Seasons,
           pc = "existing" => award[a].input.exec # NoRecord,
           pc = "duplicate" => Taken(a),
           award[a].retry => Taken(a) /\ pc \in {"status", "existing"},
           award[a].alone => pc = "duplicate",
           seasonCache' \in [season: Seasons, ttl: 0..SeasonTtl] \cup {NoRecord},
           UNCHANGED <<ledger, booked, season, forbidden, boardCache, reader, day, acts, excess>>
    PROVE  IInv'
  <1> DEFINE y == award[a]
             x == [y EXCEPT !.pc = pc]
  <1>1. y \in Running /\ NoRecord \in Seasons \cup {NoRecord} /\ 0 \in Nat
    BY DEF IInv, TypeOK, IsRunning
  <1>2. award' = [award EXCEPT ![a] = x] /\ award'[a] = x
    BY DEF GoTo, IInv, TypeOK
  <1>3. x \in Running
    <2> HIDE DEF y
    <2> QED
      BY <1>1, RunsOn
  <1>4. /\ x.pc = pc /\ x.input = y.input /\ x.season = y.season /\ x.retry = y.retry
        /\ x.alone = y.alone
    BY <1>1 DEF Running
  <1>5. /\ award'[a].pc = pc /\ award'[a].input = award[a].input
        /\ award'[a].season = award[a].season /\ award'[a].retry = award[a].retry
        /\ award'[a].alone = award[a].alone
    BY <1>2, <1>4
  <1>6. award[a].retry \in BOOLEAN /\ award[a].alone \in BOOLEAN
    BY <1>1, Fields
  <1> HIDE DEF x, y
  <1>7. AwardInv(a)'
    BY <1>5, <1>6 DEF AwardInv, At, Taken, RunningSteps
  <1> QED
    BY <1>2, <1>3, <1>7, LocalStep

LEMMA StartStep ==
    ASSUME IInv, NEW a \in Awards, AwardPoints(a)
    PROVE  IInv'
  <1>1. PICK input \in Calls :
           award' = [award EXCEPT ![a] =
              [pc |-> "status", input |-> input, season |-> NoRecord, points |-> 0,
               alone |-> FALSE, retry |-> input.exec \in booked]]
    BY DEF AwardPoints
  <1> DEFINE b == input.exec \in booked
             x == [pc |-> "status", input |-> input, season |-> NoRecord, points |-> 0,
                   alone |-> FALSE, retry |-> b]
  <1>2. b \in BOOLEAN
    OBVIOUS
  <1>3. award' = [award EXCEPT ![a] = x] /\ award'[a] = x
    BY <1>1 DEF IInv, TypeOK
  <1>4. x \in Running
    <2> HIDE DEF b
    <2> QED
      BY <1>2, CallsAssumption DEF Running
  <1>5. x.retry => x.input.exec \in booked
    <2> HIDE DEF b
    <2>1. x.retry = b /\ x.input = input
      OBVIOUS
    <2> QED
      BY <2>1 DEF b
  <1>6. x.pc = "status" /\ ~x.alone
    OBVIOUS
  <1> HIDE DEF x
  <1>7. AwardInv(a)'
    BY <1>3, <1>5, <1>6 DEF AwardInv, At, Taken, AwardPoints
  <1>8. seasonCache' \in [season: Seasons, ttl: 0..SeasonTtl] \cup {NoRecord}
    BY DEF IInv, TypeOK, AwardPoints
  <1> QED
    BY <1>3, <1>4, <1>7, <1>8, LocalStep DEF AwardPoints

LEMMA StatusStep ==
    ASSUME IInv, NEW a \in Awards, GetUserLoyaltyStatus(a)
    PROVE  IInv'
  <1>1. IsRunning(a) /\ (award[a].retry => Taken(a)) /\ ~award[a].alone
    BY AtStep DEF GetUserLoyaltyStatus, IInv, RunningSteps, AwardInv, At
  <1>2. award[a].retry => award[a].input.exec # NoRecord
    BY <1>1, ValueAssumption DEF IInv, TypeOK, Taken
  <1>3. seasonCache' \in [season: Seasons, ttl: 0..SeasonTtl] \cup {NoRecord}
    BY DEF IInv, TypeOK, GetUserLoyaltyStatus
  <1>4. CASE award[a].input.user \in forbidden
    BY <1>4, FinishStep DEF GetUserLoyaltyStatus
  <1>5. CASE award[a].input.user \notin forbidden /\ award[a].input.exec # NoRecord
    BY <1>1, <1>3, <1>5, GoToStep DEF GetUserLoyaltyStatus, RunningSteps
  <1>6. CASE award[a].input.user \notin forbidden /\ award[a].input.exec = NoRecord
    BY <1>1, <1>2, <1>3, <1>6, GoToStep DEF GetUserLoyaltyStatus, RunningSteps
  <1> QED
    BY <1>4, <1>5, <1>6

LEMMA ExistingStep ==
    ASSUME IInv, NEW a \in Awards, FindExisting(a)
    PROVE  IInv'
  <1>1. IsRunning(a) /\ (award[a].retry => Taken(a)) /\ ~award[a].alone
    BY AtStep DEF FindExisting, IInv, RunningSteps, AwardInv, At
  <1>2. seasonCache' \in [season: Seasons, ttl: 0..SeasonTtl] \cup {NoRecord}
    BY DEF IInv, TypeOK, FindExisting
  <1>3. CASE Taken(a)
    BY <1>3, FinishStep DEF FindExisting, Taken
  <1>4. CASE ~Taken(a)
    BY <1>1, <1>2, <1>4, GoToStep DEF FindExisting, RunningSteps, Taken
  <1> QED
    BY <1>3, <1>4

LEMMA SetSeasonStep ==
    ASSUME IInv, NEW a \in Awards, SetSeasonCache(a)
    PROVE  IInv'
  <1>1. IsRunning(a) /\ ~award[a].retry /\ ~award[a].alone /\ award[a].season \in Seasons
    BY AtStep DEF SetSeasonCache, IInv, RunningSteps, AwardInv, At
  <1>2. seasonCache' \in [season: Seasons, ttl: 0..SeasonTtl] \cup {NoRecord}
    BY <1>1, TtlAssumption DEF SetSeasonCache, StoreSeason
  <1> QED
    BY <1>1, <1>2, GoToStep DEF SetSeasonCache, RunningSteps

LEMMA DuplicateStep ==
    ASSUME IInv, NEW a \in Awards, FindDuplicate(a)
    PROVE  IInv'
  BY FinishStep DEF FindDuplicate

\* A call goes on with the season it has read, or with none.
LEMMA SeasonReadStep ==
    ASSUME IInv, NEW a \in Awards, IsRunning(a), ~award[a].retry, ~award[a].alone,
           NEW s \in Seasons \cup {NoRecord}, NEW pc \in {"season", "store", "compute"},
           pc # "season" => s \in Seasons,
           award' = [award EXCEPT ![a].pc = pc, ![a].season = s],
           UNCHANGED <<ledger, booked, season, forbidden, seasonCache, boardCache, reader,
                       day, acts, excess>>
    PROVE  IInv'
  <1> DEFINE y == award[a]
             x == [y EXCEPT !.pc = pc, !.season = s]
  <1>1. y \in Running /\ pc \in RunningSteps /\ 0 \in Nat
    BY DEF IInv, TypeOK, IsRunning, RunningSteps
  <1>2. award' = [award EXCEPT ![a] = x] /\ award'[a] = x
    BY <1>1 DEF IInv, TypeOK, Running
  <1>3. x \in Running
    <2> HIDE DEF y
    <2> QED
      BY <1>1, RunsOn
  <1>4. award'[a].pc = pc /\ award'[a].season = s /\ ~award'[a].retry /\ ~award'[a].alone
    BY <1>1, <1>2 DEF Running
  <1>5. AwardInv(a)'
    BY <1>4 DEF AwardInv, At
  <1>6. seasonCache' \in [season: Seasons, ttl: 0..SeasonTtl] \cup {NoRecord}
    BY DEF IInv, TypeOK
  <1> HIDE DEF x, y
  <1> QED
    BY <1>2, <1>3, <1>5, <1>6, LocalStep

LEMMA SeasonStep ==
    ASSUME IInv, NEW a \in Awards, ReadSeasonCache(a) \/ GetActiveSeason(a)
    PROVE  IInv'
  <1>1. IsRunning(a) /\ ~award[a].retry /\ ~award[a].alone
    BY AtStep DEF ReadSeasonCache, GetActiveSeason, IInv, RunningSteps, AwardInv, At
  <1>2. CASE ReadSeasonCache(a)
    <2>1. seasonCache # NoRecord => seasonCache.season \in Seasons
      BY DEF IInv, TypeOK
    <2> QED
      BY <1>1, <1>2, <2>1, SeasonReadStep DEF ReadSeasonCache
  <1>3. CASE GetActiveSeason(a)
    <2>1. ASSUME NEW s \in Seasons,
                 award' = [award EXCEPT ![a].pc = "store", ![a].season = s]
          PROVE  IInv'
      BY <1>1, <1>3, <2>1, SeasonReadStep DEF GetActiveSeason
    <2> QED
      BY <1>3, <2>1, FinishStep DEF GetActiveSeason
  <1> QED
    BY <1>2, <1>3

\* Whoever compared his points with the cap leaves no more than what was left of it.
LEMMA ComputeStep ==
    ASSUME IInv, NEW a \in Awards, ComputePoints(a)
    PROVE  IInv'
  <1> DEFINE y == award[a]
             u == y.input.user
             s == y.season
             config == Config[s]
             points == ComputePointsV1(y.input.action, y.input.usd, config)
             remaining == config.dailyUserCap - sum[u][s][day]
             toInsert == [y EXCEPT !.pc = "insert"]
  <1>1. /\ y \in Running /\ IsRunning(a) /\ ~y.retry /\ ~y.alone /\ s \in Seasons /\ u \in Users
        /\ points \in Nat
    BY AtStep, PointsNat DEF ComputePoints, IInv, RunningSteps, AwardInv, At
  <1>2. /\ toInsert \in Running /\ toInsert.pc = "insert"
        /\ ~toInsert.retry /\ ~toInsert.alone
        /\ toInsert.input = y.input /\ toInsert.season = s
    <2>1. "insert" \in RunningSteps /\ 0 \in Nat /\ NoRecord \in Seasons \cup {NoRecord}
      BY DEF RunningSteps
    <2>2. toInsert \in Running
      <3> HIDE DEF y
      <3> QED
        BY <1>1, <2>1, RunsOn
    <2> QED
      BY <1>1, <2>2 DEF Running
  <1>3. sum[u][s][day] \in Int
    BY <1>1 DEF IInv, TypeOK
  <1>4. seasonCache' \in [season: Seasons, ttl: 0..SeasonTtl] \cup {NoRecord}
    BY DEF IInv, TypeOK, ComputePoints
  <1>5. UNCHANGED <<ledger, sum, booked, season, forbidden, boardCache, reader, day, acts,
                    excess>>
    BY DEF ComputePoints, ledger
  <1>6. CASE Finish(a, "null")
    BY <1>6, FinishStep DEF ComputePoints
  <1>7. CASE award' = [award EXCEPT ![a] = [toInsert EXCEPT !.points = points]]
    <2> DEFINE x == [toInsert EXCEPT !.points = points]
    <2>1. x \in Running
      <3> "status" \in RunningSteps /\ NoRecord \in Seasons \cup {NoRecord}
        BY DEF RunningSteps
      <3> HIDE DEF toInsert, points
      <3> QED
        BY <1>1, <1>2, RunsOn
    <2>2. award'[a] = x
      BY <1>7 DEF IInv, TypeOK
    <2>3. x.pc = "insert" /\ ~x.retry /\ ~x.alone /\ x.season = s
      <3> HIDE DEF toInsert, points, s
      <3> QED
        BY <1>2 DEF Running
    <2> HIDE DEF x
    <2>4. AwardInv(a)'
      BY <1>1, <2>2, <2>3 DEF AwardInv, At
    <2> QED
      BY <1>4, <1>5, <1>7, <2>1, <2>4, LocalStep DEF x
  <1>8. CASE /\ config.dailyUserCap # NoCap /\ remaining > 0
             /\ award' = [award EXCEPT ![a] =
                   [toInsert EXCEPT !.alone = TRUE, !.points = Clamp(points, remaining)]]
    <2> DEFINE n == Clamp(points, remaining)
               x == [toInsert EXCEPT !.alone = TRUE, !.points = n]
    <2>1. config.dailyUserCap \in Nat
      BY <1>1, <1>8, CapNat
    <2>2. n \in Nat /\ sum[u][s][day] + n <= config.dailyUserCap
      <3> HIDE DEF points, config, u, s
      <3> QED
        BY <1>1, <1>3, <1>8, <2>1 DEF Clamp, AtMost
    <2>3. x \in Running
      <3> "status" \in RunningSteps /\ NoRecord \in Seasons \cup {NoRecord}
        BY DEF RunningSteps
      <3> HIDE DEF toInsert, n
      <3> QED
        BY <1>2, <2>2, RunsOn
    <2>4. award'[a] = x
      BY <1>8 DEF IInv, TypeOK
    <2>5. x.pc = "insert" /\ ~x.retry /\ x.season = s /\ x.input.user = u /\ x.points = n
      <3> HIDE DEF toInsert, n, s
      <3> QED
        BY <1>2 DEF Running
    <2> HIDE DEF x, n
    <2>6. AwardInv(a)'
      BY <1>1, <1>5, <1>8, <2>2, <2>4, <2>5 DEF AwardInv, At
    <2> QED
      BY <1>4, <1>5, <1>8, <2>3, <2>6, LocalStep DEF x, n
  <1> QED
    BY <1>6, <1>7, <1>8 DEF ComputePoints

--------------------------------------------------------------------------------
(* Entries *)

\* Whoever is about to insert for the same user and season is no longer alone, and
\* for the others the sum has not changed.
LEMMA AfterEntry ==
    ASSUME IInv, NEW u \in Users, NEW s \in Seasons, NEW n \in Int,
           InsertLedgerEntry(u, s, n), NEW others, NEW b \in others \cap Awards,
           award'[b] = NobodyAlone(others, u, s)[b], booked \subseteq booked', day' = day
    PROVE  AwardInv(b)'
  <1>1. CASE IsRunning(b) /\ award[b].input.user = u /\ award[b].season = s
    <2> DEFINE y == award[b]
               x == [y EXCEPT !.alone = FALSE]
    <2>1. y \in Running
      BY <1>1 DEF IInv, TypeOK, IsRunning
    <2>2. /\ x.pc = y.pc /\ x.input = y.input /\ x.season = y.season
          /\ x.retry = y.retry /\ ~x.alone
      <3> HIDE DEF y
      <3> QED
        BY <2>1 DEF Running
    <2>3. award'[b] = x
      BY <1>1 DEF NobodyAlone
    <2> HIDE DEF x
    <2>4. AwardInv(b)
      BY DEF IInv
    <2> QED
      BY <1>1, <2>2, <2>3, <2>4 DEF AwardInv, At, Taken, IsRunning
  <1>2. CASE ~(IsRunning(b) /\ award[b].input.user = u /\ award[b].season = s)
    <2>1. award'[b] = award[b] /\ AwardInv(b)
      BY <1>2 DEF NobodyAlone, IInv
    <2>2. ASSUME At(b, "insert")
          PROVE  /\ award[b].input.user \in Users /\ award[b].season \in Seasons
                 /\ IsRunning(b)
      BY <2>1, <2>2, AtStep DEF IInv, RunningSteps
    <2>3. ASSUME At(b, "insert")
          PROVE  sum'[award[b].input.user][award[b].season][day]
                    = sum[award[b].input.user][award[b].season][day]
      BY <1>2, <2>2, <2>3 DEF InsertLedgerEntry, IInv, TypeOK
    <2> QED
      BY <2>1, <2>3 DEF AwardInv, At, Taken, IsRunning
  <1> QED
    BY <1>1, <1>2

\* An entry keeps the cap if it fits or if the history counts it.
LEMMA CapAfterEntry ==
    ASSUME IInv, NEW u \in Users, NEW s \in Seasons, NEW n \in Int,
           InsertLedgerEntry(u, s, n),
           \/ \E m \in Nat : n <= m /\ excess' = [excess EXCEPT ![u][s][day] = @ + m]
           \/ n <= 0 /\ excess' = excess
           \/ /\ excess' = excess
              /\ Config[s].dailyUserCap # NoCap =>
                    sum[u][s][day] + n <= Config[s].dailyUserCap
    PROVE  /\ excess' \in [Users -> [Seasons -> [Days -> Nat]]]
           /\ CapHeldUnlessRaced'
  <1> DEFINE counted(m) == excess' = [excess EXCEPT ![u][s][day] = @ + m]
  <1>0. /\ sum \in [Users -> [Seasons -> [Days -> Int]]] /\ day \in Days
        /\ excess \in [Users -> [Seasons -> [Days -> Nat]]]
        /\ sum' = [sum EXCEPT ![u][s][day] = @ + n]
    BY DEF IInv, TypeOK, InsertLedgerEntry
  <1>1. excess' \in [Users -> [Seasons -> [Days -> Nat]]]
    <2>1. ASSUME NEW m \in Nat, counted(m)
          PROVE  excess' \in [Users -> [Seasons -> [Days -> Nat]]]
      BY <1>0, <2>1
    <2> QED
      BY <1>0, <2>1
  <1>2. CapHeldUnlessRaced'
    <2> SUFFICES ASSUME NEW v \in Users, NEW t \in Seasons, NEW d \in Days,
                        Config[t].dailyUserCap # NoCap
                 PROVE  sum'[v][t][d] <= Config[t].dailyUserCap + excess'[v][t][d]
      BY DEF CapHeldUnlessRaced
    <2>1. /\ Config[t].dailyUserCap \in Nat
          /\ sum[v][t][d] \in Int /\ excess[v][t][d] \in Nat
          /\ sum[v][t][d] <= Config[t].dailyUserCap + excess[v][t][d]
      BY <1>0, CapNat DEF CapHeldUnlessRaced, IInv
    <2>2. CASE v = u /\ t = s /\ d = day
      <3>1. sum'[v][t][d] = sum[v][t][d] + n
        BY <1>0, <2>2
      <3>2. ASSUME NEW m \in Nat, counted(m)
            PROVE  excess'[v][t][d] = excess[v][t][d] + m
        BY <1>0, <2>2, <3>2
      <3>3. \/ \E m \in Nat : n <= m /\ excess'[v][t][d] = excess[v][t][d] + m
            \/ /\ excess'[v][t][d] = excess[v][t][d]
               /\ n <= 0 \/ sum[v][t][d] + n <= Config[t].dailyUserCap
        BY <2>2, <3>2
      <3> HIDE DEF counted
      <3> QED
        BY <2>1, <3>1, <3>3
    <2>3. CASE ~(v = u /\ t = s /\ d = day)
      <3>1. sum'[v][t][d] = sum[v][t][d]
        BY <1>0, <2>3
      <3>2. ASSUME NEW m \in Nat, counted(m)
            PROVE  excess'[v][t][d] = excess[v][t][d]
        BY <1>0, <2>3, <3>2
      <3>3. excess'[v][t][d] = excess[v][t][d]
        BY <3>2
      <3> QED
        BY <2>1, <3>1, <3>3
    <2> QED
      BY <2>2, <2>3
  <1> QED
    BY <1>1, <1>2

LEMMA ListedAfterEntry ==
    ASSUME IInv, NEW u \in Users, NEW s \in Seasons, NEW n, InsertLedgerEntry(u, s, n)
    PROVE  ListedInv'
  <1> SUFFICES ASSUME NEW t \in Seasons PROVE IsFiniteSet(listed'[t])
    BY DEF ListedInv
  <1>1. IsFiniteSet(listed[t]) /\ (listed'[t] = listed[t] \/ listed'[t] = listed[t] \cup {u})
    BY DEF ListedInv, IInv, TypeOK, InsertLedgerEntry
  <1> QED
    BY <1>1, FS_AddElement

LEMMA BookedStep ==
    ASSUME IInv, NEW a \in Awards, NEW result \in {"entry", "error"},
           At(a, "insert"), ~Taken(a), Booked(a, result),
           UNCHANGED <<season, forbidden, seasonCache, boardCache, reader, day, acts>>
    PROVE  IInv'
  <1> DEFINE u == award[a].input.user
             s == award[a].season
             n == award[a].points
             others == Awards \ {a}
             x == [pc |-> result]
  <1>1. /\ u \in Users /\ s \in Seasons /\ n \in Nat /\ award[a] \in Running
        /\ award[a].input.exec \in Executions \cup {NoRecord}
    BY AtStep, Fields DEF IInv, RunningSteps
  <1>2. InsertLedgerEntry(u, s, n)
    BY DEF Booked
  <1>3. x \in Settled
    BY DEF Settled
  <1>4. NobodyAlone(others, u, s) \in [Awards -> Running \cup Settled]
    BY NobodyAloneType DEF IInv
  <1>5. award' = [NobodyAlone(others, u, s) EXCEPT ![a] = x]
    BY DEF Booked
  <1>6. award' \in [Awards -> Running \cup Settled] /\ award'[a] = x
        /\ \A b \in others : award'[b] = NobodyAlone(others, u, s)[b]
    BY <1>3, <1>4, <1>5
  <1>7. booked \subseteq booked' /\ booked' \subseteq Executions
    BY <1>1 DEF Booked, IInv, TypeOK
  <1>8. excess' \in [Users -> [Seasons -> [Days -> Nat]]] /\ CapHeldUnlessRaced'
    <2>1. CASE award[a].alone
      <3>1. Config[s].dailyUserCap # NoCap => sum[u][s][day] + n <= Config[s].dailyUserCap
        BY <2>1 DEF IInv, AwardInv
      <3> HIDE DEF u, s, n
      <3> QED
        BY <1>1, <1>2, <2>1, <3>1, CapAfterEntry DEF Booked
    <2>2. CASE ~award[a].alone
      <3>1. excess' = [excess EXCEPT ![u][s][day] = @ + n]
        BY <2>2 DEF Booked
      <3> HIDE DEF u, s, n
      <3>2. \E m \in Nat : n <= m /\ excess' = [excess EXCEPT ![u][s][day] = @ + m]
        <4> n \in Nat
          BY <1>1
        <4> WITNESS n \in Nat
        <4> QED
          BY <3>1
      <3>3. n \in Int
        BY <1>1
      <3> QED
        BY <1>1, <1>2, <3>2, <3>3, CapAfterEntry, Zenon
    <2> QED
      BY <2>1, <2>2
  <1>9. ListedInv'
    <2> HIDE DEF u, s, n
    <2> QED
      BY <1>1, <1>2, ListedAfterEntry
  <1>10. TypeOK'
    <2>1. /\ sum' \in [Users -> [Seasons -> [Days -> Int]]]
          /\ balance' \in [Users -> [Seasons -> Int]]
          /\ listed' \in [Seasons -> SUBSET Users]
      <3> HIDE DEF u, s, n
      <3> QED
        BY <1>1, <1>2, InsertType DEF IInv
    <2> QED
      BY <1>6, <1>7, <1>8, <2>1 DEF IInv, TypeOK
  <1>11. ASSUME NEW b \in Awards PROVE AwardInv(b)'
    <2>1. CASE b = a
      BY <1>6, <2>1 DEF AwardInv, At, IsRunning, Settled
    <2>2. CASE b # a
      <3> HIDE DEF u, s, n
      <3> QED
        BY <1>1, <1>2, <1>6, <1>7, <2>2, AfterEntry
    <2> QED
      BY <2>1, <2>2
  <1> QED
    BY <1>8, <1>9, <1>10, <1>11 DEF IInv

LEMMA InsertStep ==
    ASSUME IInv, NEW a \in Awards, InsertEntry(a)
    PROVE  IInv'
  <1>1. CASE ~Taken(a) /\ Booked(a, "entry")
    BY <1>1, BookedStep DEF InsertEntry
  <1>2. CASE Taken(a) /\ GoTo(a, "duplicate") /\ UNCHANGED <<ledger, booked, excess>>
    <2>1. IsRunning(a) /\ ~award[a].retry /\ award[a].season \in Seasons
      BY AtStep DEF InsertEntry, IInv, RunningSteps, AwardInv, At
    <2>2. seasonCache' \in [season: Seasons, ttl: 0..SeasonTtl] \cup {NoRecord}
      BY DEF InsertEntry, IInv, TypeOK
    <2> QED
      BY <1>2, <2>1, <2>2, GoToStep DEF InsertEntry, RunningSteps
  <1> QED
    BY <1>1, <1>2 DEF InsertEntry

LEMMA FailsStep ==
    ASSUME IInv, NEW a \in Awards, AwardFails(a)
    PROVE  IInv'
  BY BookedStep, FinishStep DEF AwardFails

LEMMA AdjustStep ==
    ASSUME IInv, NEW u \in Users, NEW s \in Seasons, NEW n \in Deltas, AdjustPoints(u, s, n)
    PROVE  IInv'
  <1>1. n \in Int /\ InsertLedgerEntry(u, s, n)
    BY DeltasAssumption DEF AdjustPoints
  <1>2. excess' \in [Users -> [Seasons -> [Days -> Nat]]] /\ CapHeldUnlessRaced'
    <2>1. CASE n <= 0
      BY <1>1, <2>1, CapAfterEntry DEF AdjustPoints
    <2>2. CASE ~(n <= 0)
      <3>1. n \in Nat /\ excess' = [excess EXCEPT ![u][s][day] = @ + n]
        BY <1>1, <2>2 DEF AdjustPoints
      <3>2. \E m \in Nat : n <= m /\ excess' = [excess EXCEPT ![u][s][day] = @ + m]
        <4> n \in Nat
          BY <3>1
        <4> WITNESS n \in Nat
        <4> QED
          BY <3>1
      <3> QED
        BY <1>1, <3>2, CapAfterEntry
    <2> QED
      BY <2>1, <2>2
  <1>3. award' = NobodyAlone(Awards, u, s) /\ award' \in [Awards -> Running \cup Settled]
    BY NobodyAloneType DEF AdjustPoints, IInv
  <1>4. TypeOK'
    <2>1. acts' \in 0..MaxActs
      BY BoundAssumption DEF AdjustPoints, Act, IInv, TypeOK
    <2> QED
      BY <1>1, <1>2, <1>3, <2>1, InsertType DEF AdjustPoints, IInv, TypeOK
  <1>5. \A b \in Awards : AwardInv(b)'
    BY <1>1, <1>3, AfterEntry DEF AdjustPoints
  <1>6. ListedInv'
    BY <1>1, ListedAfterEntry
  <1> QED
    BY <1>2, <1>4, <1>5, <1>6 DEF IInv

--------------------------------------------------------------------------------
(* The caches, the operators of the service and the clock *)

LEMMA CacheStep ==
    ASSUME IInv,
           \/ QuerySeason \/ SetReadersCache \/ Tick
           \/ \E s \in BoardSeasons : QueryLeaderboard(s)
    PROVE  IInv'
  <1>1. TypeOK'
    <2>1. CASE QuerySeason
      BY <2>1 DEF QuerySeason, IInv, TypeOK, ledger
    <2>2. CASE SetReadersCache
      <3>1. CASE reader.rows = NoRecord
        BY <2>2, <3>1, TtlAssumption DEF SetReadersCache, StoreSeason, IInv, TypeOK, ledger
      <3>2. CASE reader.rows # NoRecord
        <4>1. reader.rows \in Seq(Row) /\ BoardTtl \in 0..BoardTtl
          BY <2>2, <3>2, TtlAssumption DEF SetReadersCache, IInv, TypeOK
        <4>2. boardCache' \in
                 [BoardSeasons -> [rows: Seq(Row), ttl: 0..BoardTtl] \cup {NoRecord}]
          <5> DEFINE board == [rows |-> reader.rows, ttl |-> BoardTtl]
          <5>1. board \in [rows: Seq(Row), ttl: 0..BoardTtl]
            BY <4>1
          <5>2. boardCache' = [boardCache EXCEPT ![reader.season] = board]
            BY <2>2, <3>2 DEF SetReadersCache
          <5> HIDE DEF board
          <5> QED
            BY <5>1, <5>2 DEF IInv, TypeOK
        <4> QED
          BY <2>2, <3>2, <4>2 DEF SetReadersCache, IInv, TypeOK, ledger
      <3> QED
        BY <3>1, <3>2
    <2>3. CASE Tick
      <3>1. \A ttl \in Nat : \A x \in [season: Seasons, ttl: 0..ttl] \cup {NoRecord} :
               Aged(x) \in [season: Seasons, ttl: 0..ttl] \cup {NoRecord}
        BY DEF Aged, Forever
      <3>2. \A ttl \in Nat : \A x \in [rows: Seq(Row), ttl: 0..ttl] \cup {NoRecord} :
               Aged(x) \in [rows: Seq(Row), ttl: 0..ttl] \cup {NoRecord}
        BY DEF Aged, Forever
      <3> QED
        BY <2>3, <3>1, <3>2, TtlAssumption DEF Tick, IInv, TypeOK, ledger
    <2>4. ASSUME NEW s \in BoardSeasons, QueryLeaderboard(s) PROVE TypeOK'
      <3>1. \A rows \in Leaderboards(s) : rows \in Seq(Row)
        BY LeaderboardType, FirstSeasonAssumption DEF IInv
      <3> QED
        BY <2>4, <3>1, FirstSeasonAssumption DEF QueryLeaderboard, IInv, TypeOK, ledger
    <2> QED
      BY <2>1, <2>2, <2>3, <2>4
  <1>2. UNCHANGED <<sum, listed, booked, award, day, excess>>
    BY DEF QuerySeason, SetReadersCache, Tick, QueryLeaderboard, ledger
  <1> QED
    BY <1>1, <1>2, OtherAwards, CapUnchanged DEF IInv, ListedInv

LEMMA OperatorStep ==
    ASSUME IInv, (\E s \in Seasons : ChangeSeason(s)) \/ (\E u \in Users : Forbid(u))
    PROVE  IInv'
  <1>1. TypeOK'
    <2>1. acts' \in 0..MaxActs
      BY BoundAssumption DEF ChangeSeason, Forbid, Act, IInv, TypeOK
    <2>2. ASSUME NEW s \in Seasons, ChangeSeason(s) PROVE TypeOK'
      BY <2>1, <2>2 DEF ChangeSeason, IInv, TypeOK, ledger
    <2>3. ASSUME NEW u \in Users, Forbid(u) PROVE TypeOK'
      BY <2>1, <2>3 DEF Forbid, IInv, TypeOK, ledger
    <2> QED
      BY <2>2, <2>3
  <1>2. UNCHANGED <<sum, listed, booked, award, day, excess>>
    BY DEF ChangeSeason, Forbid, ledger
  <1> QED
    BY <1>1, <1>2, OtherAwards, CapUnchanged DEF IInv, ListedInv

\* After midnight nobody has seen the sum of the day.
LEMMA MidnightStep ==
    ASSUME IInv, Midnight
    PROVE  IInv'
  <1>1. ASSUME NEW a \in Awards
        PROVE  award'[a] \in Running \cup Settled /\ AwardInv(a)'
    <2> DEFINE y == award[a]
               x == [y EXCEPT !.alone = FALSE]
    <2>1. y \in Running \cup Settled /\ AwardInv(a)
      BY DEF IInv, TypeOK
    <2>2. CASE At(a, "insert")
      <3>1. y \in Running
        BY <2>1, <2>2, AtRunning DEF At, RunningSteps
      <3>2. /\ x \in Running /\ x.pc = y.pc /\ x.input = y.input /\ x.season = y.season
            /\ x.retry = y.retry /\ ~x.alone
        <4> "status" \in RunningSteps /\ 0 \in Nat /\ NoRecord \in Seasons \cup {NoRecord}
          BY DEF RunningSteps
        <4> HIDE DEF y
        <4> QED
          BY <3>1, RunsOn DEF Running
      <3>3. award'[a] = x
        BY <2>2 DEF Midnight
      <3>4. IsRunning(a)
        BY <2>1, <2>2, AtRunning DEF At, IsRunning, RunningSteps
      <3> HIDE DEF x
      <3> QED
        BY <2>1, <2>2, <3>2, <3>3, <3>4 DEF AwardInv, At, Taken, Midnight
    <2>3. CASE ~At(a, "insert")
      <3>1. award'[a] = award[a] /\ UNCHANGED <<sum, booked>>
        BY <2>3 DEF Midnight, ledger
      <3> QED
        BY <2>1, <2>3, <3>1 DEF AwardInv, At, Taken, IsRunning
    <2> QED
      BY <2>2, <2>3
  <1>2. TypeOK'
    <2>1. acts' \in 0..MaxActs /\ day' \in Days
      BY BoundAssumption DEF Midnight, Act, Days, IInv, TypeOK
    <2>2. award' \in [Awards -> Running \cup Settled]
      <3>1. award' = [a \in Awards |-> award'[a]]
        BY DEF Midnight
      <3> QED
        BY <1>1, <3>1
    <2> QED
      BY <2>1, <2>2 DEF Midnight, IInv, TypeOK, ledger
  <1>3. CapHeldUnlessRaced' /\ ListedInv'
    BY CapUnchanged DEF Midnight, IInv, ListedInv, ledger
  <1> QED
    BY <1>1, <1>2, <1>3 DEF IInv

--------------------------------------------------------------------------------
(* The theorems *)

LEMMA NextInv == IInv /\ [Next]_vars => IInv'
  <1> SUFFICES ASSUME IInv, [Next]_vars PROVE IInv'
    OBVIOUS
  <1>1. ASSUME NEW a \in Awards,
               \/ AwardPoints(a) \/ GetUserLoyaltyStatus(a) \/ FindExisting(a)
               \/ ReadSeasonCache(a) \/ GetActiveSeason(a) \/ SetSeasonCache(a)
               \/ ComputePoints(a) \/ InsertEntry(a) \/ FindDuplicate(a)
               \/ AwardFails(a)
        PROVE  IInv'
    BY <1>1, StartStep, StatusStep, ExistingStep, SeasonStep, SetSeasonStep, ComputeStep,
       InsertStep, DuplicateStep, FailsStep
  <1>2. ASSUME NEW u \in Users, NEW s \in Seasons, NEW d \in Deltas, AdjustPoints(u, s, d)
        PROVE  IInv'
    BY <1>2, AdjustStep
  <1>3. ASSUME \/ QuerySeason \/ SetReadersCache \/ Tick
               \/ \E s \in BoardSeasons : QueryLeaderboard(s)
        PROVE  IInv'
    BY <1>3, CacheStep
  <1>4. ASSUME (\E s \in Seasons : ChangeSeason(s)) \/ (\E u \in Users : Forbid(u))
        PROVE  IInv'
    BY <1>4, OperatorStep
  <1>5. CASE Midnight
    BY <1>5, MidnightStep
  <1>6. CASE UNCHANGED vars
    <2>1. TypeOK'
      BY <1>6 DEF vars, ledger, IInv, TypeOK
    <2>2. UNCHANGED <<sum, listed, booked, award, day, excess>>
      BY <1>6 DEF vars, ledger
    <2> QED
      BY <2>1, <2>2, OtherAwards, CapUnchanged DEF IInv, ListedInv
  <1> QED
    BY <1>1, <1>2, <1>3, <1>4, <1>5, <1>6 DEF Next

LEMMA Invariant == Spec => []IInv
  BY InitInv, NextInv, PTL DEF Spec

(***************************************************************************)
(* Every variable of the ledger keeps its type.                            *)
(***************************************************************************)
THEOREM TypeCorrect == Spec => []TypeOK
  <1>1. IInv => TypeOK
    BY DEF IInv
  <1> QED
    BY <1>1, Invariant, PTL

(***************************************************************************)
(* A day's points exceed the cap only by entries that nobody compared with *)
(* it (loyaltyUseCase.ts:92-109).                                          *)
(***************************************************************************)
THEOREM CapHeld == Spec => []CapHeldUnlessRaced
  <1>1. IInv => CapHeldUnlessRaced
    BY DEF IInv
  <1> QED
    BY <1>1, Invariant, PTL

(***************************************************************************)
(* The two queries for ranks agree in every reachable state                *)
(* (loyalty.repo.ts:116-154).                                              *)
(***************************************************************************)
THEOREM RankAgrees == Spec => []RankAgreesWithBoard
  <1>1. IInv => RankAgreesWithBoard
    BY RankOnBoard DEF IInv
  <1> QED
    BY <1>1, Invariant, PTL

(***************************************************************************)
(* A repeated award is answered with the entry that exists, unless the     *)
(* user is forbidden or something fails (loyaltyUseCase.ts:55-61, 126-135).*)
(***************************************************************************)
THEOREM RetriesFind == Spec => RetriesFindTheEntry
  <1> DEFINE Found == \A a \in Awards :
                 /\ (IsRunning(a) /\ award[a].retry /\ award'[a].pc = "null")
                       => award[a].input.user \in forbidden
                 /\ At(a, "duplicate") => Taken(a)
  <1>1. IInv /\ [Next]_vars => [Found]_vars
    <2> SUFFICES ASSUME IInv, Next, NEW a \in Awards, IsRunning(a), award[a].retry,
                        award'[a].pc = "null"
                 PROVE  award[a].input.user \in forbidden
      BY DEF IInv, AwardInv
    <2>1. /\ award[a].pc \in {"status", "existing"} /\ Taken(a) /\ award[a] \in Running
      BY DEF IInv, TypeOK, AwardInv, IsRunning
    <2>2. award'[a].pc # award[a].pc
      BY <2>1
    <2>3. ASSUME NEW others, NEW u, NEW s PROVE NobodyAlone(others, u, s)[a].pc = award[a].pc
      BY <2>1 DEF NobodyAlone, Running
    <2>4. PICK b \in Awards :
             \/ AwardPoints(b) \/ GetUserLoyaltyStatus(b) \/ FindExisting(b)
             \/ ReadSeasonCache(b) \/ GetActiveSeason(b) \/ SetSeasonCache(b)
             \/ ComputePoints(b) \/ InsertEntry(b) \/ FindDuplicate(b)
             \/ AwardFails(b)
      <3>1. ASSUME NEW u \in Users, NEW s \in Seasons, NEW d \in Deltas,
                   AdjustPoints(u, s, d)
            PROVE  FALSE
        BY <2>2, <2>3, <3>1 DEF AdjustPoints
      <3>2. ASSUME Midnight PROVE FALSE
        BY <2>1, <2>2, <3>2 DEF Midnight, At
      <3>3. award' # award
        BY <2>2
      <3> QED
        BY <3>1, <3>2, <3>3
           DEF Next, Forbid, QueryLeaderboard, ChangeSeason, QuerySeason, SetReadersCache,
               Tick
    <2>5. ASSUME NEW result, Booked(b, result) PROVE b = a
      BY <2>2, <2>3, <2>5, NobodyAloneType DEF Booked, IInv
    <2>6. a = b
      BY <2>2, <2>4, <2>5
         DEF AwardPoints, GetUserLoyaltyStatus, FindExisting, ReadSeasonCache,
             GetActiveSeason, SetSeasonCache, ComputePoints, InsertEntry, FindDuplicate,
             AwardFails, Finish, GoTo, IInv, TypeOK
    <2>7. GetUserLoyaltyStatus(a) \/ FindExisting(a) \/ AwardFails(a)
      BY <2>1, <2>4, <2>6
         DEF AwardPoints, ReadSeasonCache, GetActiveSeason, SetSeasonCache, ComputePoints,
             InsertEntry, FindDuplicate, At
    <2>8. ~AwardFails(a) /\ ~FindExisting(a)
      BY <2>1 DEF AwardFails, FindExisting, Finish, At, Taken, IInv, TypeOK
    <2>9. GetUserLoyaltyStatus(a)
      BY <2>7, <2>8
    <2> QED
      BY <2>1, <2>9 DEF GetUserLoyaltyStatus, GoTo, IInv, TypeOK, Running
  <1> QED
    BY <1>1, Invariant, PTL DEF Spec, RetriesFindTheEntry

================================================================================
