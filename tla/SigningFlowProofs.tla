--------------------------- MODULE SigningFlowProofs ---------------------------
(***************************************************************************)
(* Proofs about SigningFlow for any set of users, requests, plans, limits  *)
(* and handlers, and any life time of a request.                           *)
(***************************************************************************)
EXTENDS SigningFlowInv, TLAPS

--------------------------------------------------------------------------------
(* Lemmas about records: the updates that the steps make stay in the type. *)

\* What is left of a record, absent or not, is a number of ticks.
LEMMA LeftType == ASSUME NEW rec \in SignRecord \cup {NoRecord}
                  PROVE  (IF rec = NoRecord THEN 0 ELSE rec.left) \in Nat
BY DEF SignRecord

\* What a reader gets is a signing record.
LEMMA BodyType == ASSUME NEW rec \in SignRecord
                  PROVE  Body(rec) \in SignRecord
BY DEF Body, SignRecord

\* A resolution leaves a signing record a signing record.
LEMMA ResolvedType ==
    ASSUME NEW rec \in SignRecord, NEW answer \in Answer, NEW ttl \in Nat \cup {NoTtl}
    PROVE  [rec EXCEPT !.status = Resolution(answer), !.hashed = (answer = "hash"),
                       !.ttl = ttl] \in SignRecord
BY DEF SignRecord, Resolution, Status

\* Time leaves a signing record that it does not drop a signing record.
LEMMA OlderType ==
    ASSUME NEW rec \in SignRecord
    PROVE  [rec EXCEPT !.left = Less(@), !.ttl = IF @ = NoTtl THEN @ ELSE Less(@)]
               \in SignRecord
<1>1. Less(rec.left) \in Nat
  BY DEF Less, SignRecord
<1>2. (IF rec.ttl = NoTtl THEN rec.ttl ELSE Less(rec.ttl)) \in Nat \cup {NoTtl}
  BY DEF Less, SignRecord
<1> QED
  BY <1>1, <1>2 DEF SignRecord

\* What a tick leaves of a key, if anything, is a signing record.
LEMMA AgedType == ASSUME NEW rec \in SignRecord \cup {NoRecord}
                  PROVE  /\ AgedSign(rec) \in SignRecord \cup {NoRecord}
                         /\ AgedCopy(rec) \in SignRecord \cup {NoRecord}
<1>1. AgedCopy(rec) \in SignRecord \cup {NoRecord}
  BY DEF AgedCopy, Less, SignRecord
<1> QED
  BY <1>1, OlderType DEF AgedSign

\* What a copy keeps when it ages.
LEMMA AgedCopyParts ==
    ASSUME NEW rec \in SignRecord, rec # NoRecord
    PROVE  /\ AgedCopy(rec) # NoRecord /\ AgedCopy(rec).amount = rec.amount
           /\ AgedCopy(rec).user = rec.user
           /\ AgedCopy(rec).left = Less(rec.left)
<1>1. AgedCopy(rec) = [rec EXCEPT !.left = Less(@)]
  BY DEF AgedCopy
<1>2. Less(rec.left) \in Nat
  BY DEF SignRecord, Less
<1>3. [rec EXCEPT !.left = Less(@)] \in SignRecord
  BY <1>2 DEF SignRecord
<1> QED
  BY <1>1, <1>3, NoRecordAssumption DEF SignRecord

\* The bot's state when it goes on with the next step.
LEMMA NextStepType == ASSUME bot \in BotState
                      PROVE  NextStep \in BotState \cup {NoRecord}
<1>1. bot.step + 1 \in Nat \ {0}
  BY DEF BotState
<1>2. 0 \in 0..SignTtl
  BY SignTtlAssumption
<1> QED
  BY <1>1, <1>2 DEF NextStep, BotState

\* The two moves of a handler that take a copy of the record.
LEMMA CopyType == ASSUME NEW h \in PostState, NEW rec \in SignRecord
                  PROVE  /\ [h EXCEPT !.pc = "resolve", !.rec = rec] \in PostState
                         /\ [h EXCEPT !.pc = "write", !.rec = rec] \in PostState
BY DEF PostState

--------------------------------------------------------------------------------
(* Type correctness.                                                       *)

\* Every step keeps the variables in their types.  It takes the other parts of the
\* invariant: what a handler writes back is the copy of a record it did read.
THEOREM NextType == TypeOK /\ BotInv /\ PostInv /\ LedgerInv /\ [Next]_vars => TypeOK'
<1> SUFFICES ASSUME TypeOK, BotInv, PostInv, LedgerInv, [Next]_vars
             PROVE  TypeOK'
  OBVIOUS
<1> USE RequestsAssumption, SignTtlAssumption, LimitsAssumption, GrantTicksAssumption,
        PlansAssumption, MaxAnswersAssumption
<1> USE DEF TypeOK, CachesTypeOK, DelegationsTypeOK
<1>1. ASSUME NEW u \in Users, NEW plan \in Plans, StartCommand(u, plan)
      PROVE  TypeOK'
  BY <1>1 DEF StartCommand, BotState, cacheVars
<1>2. ASSUME NEW r \in Requests, CreateRecord(r)
      PROVE  TypeOK'
  <2>1. bot \in BotState
    BY <1>2 DEF CreateRecord
  <2>2. bot' \in BotState
    BY <1>2, <2>1 DEF CreateRecord, BotState
  <2>3. signReq' \in [Requests -> SignRecord \cup {NoRecord}]
    <3>1. Attributed(bot.plan, bot.step) \in Nat
      BY <2>1 DEF Attributed, BotState, Plan
    <3> QED
      BY <1>2, <2>1, <3>1 DEF CreateRecord, SaveSigning, SignRecord, Status, BotState
  <2>4. issued' \in [Requests -> Issue \cup {NoRecord}]
    BY <1>2, <2>1 DEF CreateRecord, BotState, Issue
  <2> QED
    BY <1>2, <2>2, <2>3, <2>4 DEF CreateRecord
<1>3. CASE Publish
  <2>1. bot \in BotState /\ bot.req \in Requests
    BY <1>3 DEF Publish, BotInv, BotState
  <2>2. bot' \in BotState \cup {NoRecord}
    <3>1. SignTtl \in 0..SignTtl
      OBVIOUS
    <3>2. [bot EXCEPT !.pc = "wait", !.deadline = SignTtl] \in BotState
      BY <2>1, <3>1 DEF BotState
    <3> QED
      BY <1>3, <3>2 DEF Publish
  <2> DEFINE left == IF signReq[bot.req] = NoRecord THEN 0 ELSE signReq[bot.req].left
  <2>3. left \in Nat
    BY <2>1, LeftType
  <2>4. miniReq' \in [Requests -> MiniRecord \cup {NoRecord}]
    <3>1. [user |-> bot.user, left |-> left, ttl |-> SignTtl + 1] \in MiniRecord
      BY <2>1, <2>3 DEF MiniRecord, BotState
    <3> QED
      BY <1>3, <3>1 DEF Publish, StoreMini
  <2>5. signQueue' \in [Users -> SUBSET Requests]
    BY <1>3, <2>1 DEF Publish, StoreMini
  <2> QED
    BY <1>3, <2>2, <2>4, <2>5 DEF Publish
<1>4. CASE Poll
  <2>1. bot \in BotState /\ bot.req \in Requests
    BY <1>4 DEF Poll, BotInv, BotState
  <2>2. NextStep \in BotState \cup {NoRecord}
    BY <2>1, NextStepType
  <2>3. PollResult \in {"pending", "approved", "rejected", "expired"}
    BY <2>1 DEF PollResult, SignRecord, Status
  <2> QED
    BY <1>4, <2>1, <2>2, <2>3 DEF Poll, cacheVars
<1>5. CASE BotFails
  BY <1>5 DEF BotFails, cacheVars
<1>6. ASSUME NEW p \in Posts, NEW r \in Requests, NEW answer \in Answer, Receive(p, r, answer)
      PROVE  TypeOK'
  <2>1. miniReq[r].user \in Users
    BY <1>6 DEF Receive, MiniRecord
  <2>2. post' \in [Posts -> PostState \cup {NoRecord}]
    BY <1>6, <2>1 DEF Receive, PostState
  <2> QED
    BY <1>6, <2>2 DEF Receive, cacheVars
<1>7. ASSUME NEW p \in Posts, Lookup(p)
      PROVE  TypeOK'
  <2>1. post[p] \in PostState
    BY <1>7 DEF Lookup, At
  <2>2. Done(post[p], TRUE) \in PostState /\ Done(post[p], FALSE) \in PostState
    BY <2>1 DEF Done, PostState, Answer
  <2> DEFINE rec == signReq[post[p].req]
  <2>3. rec # NoRecord => [post[p] EXCEPT !.pc = "resolve", !.rec = Body(rec)] \in PostState
    <3>1. rec # NoRecord => Body(rec) \in SignRecord
      BY <2>1, BodyType DEF PostState
    <3> QED
      BY <2>1, <3>1, CopyType
  <2>4. post' \in [Posts -> PostState \cup {NoRecord}]
    BY <1>7, <2>2, <2>3 DEF Lookup
  <2>5. accepted' \in [Requests -> SUBSET {"approved", "rejected"}]
    <3>1. \/ accepted' = accepted
          \/ accepted' = [accepted EXCEPT ![post[p].req] =
                             @ \cup {Resolution(post[p].answer)}]
      BY <1>7 DEF Lookup
    <3>2. Resolution(post[p].answer) \in {"approved", "rejected"}
      BY DEF Resolution
    <3> QED
      BY <3>1, <3>2
  <2> QED
    BY <1>7, <2>4, <2>5 DEF Lookup, cacheVars
<1>8. ASSUME NEW p \in Posts, ResolveRead(p)
      PROVE  TypeOK'
  <2>1. post[p] \in PostState
    BY <1>8 DEF ResolveRead, At
  <2> DEFINE rec == signReq[post[p].req]
  <2>2. rec # NoRecord => [post[p] EXCEPT !.pc = "write", !.rec = Body(rec)] \in PostState
    <3>1. rec # NoRecord => Body(rec) \in SignRecord
      BY <2>1, BodyType DEF PostState
    <3> QED
      BY <2>1, <3>1, CopyType
  <2>3. [post[p] EXCEPT !.pc = "charge"] \in PostState
    BY <2>1 DEF PostState
  <2> QED
    BY <1>8, <2>2, <2>3 DEF ResolveRead, cacheVars
<1>9. ASSUME NEW p \in Posts, ResolveWrite(p)
      PROVE  TypeOK'
  <2>1. post[p] \in PostState /\ post[p].rec \in SignRecord
    BY <1>9 DEF ResolveWrite, At, PostInv, PostState
  <2>2. [post[p] EXCEPT !.pc = "charge"] \in PostState
    BY <2>1 DEF PostState
  <2> DEFINE rec == [post[p].rec EXCEPT
                        !.status = Resolution(post[p].answer),
                        !.hashed = (post[p].answer = "hash"),
                        !.ttl = IF signReq[post[p].req] = NoRecord THEN NoTtl
                                ELSE signReq[post[p].req].ttl]
  <2>3. rec \in SignRecord
    <3>1. (IF signReq[post[p].req] = NoRecord THEN NoTtl
           ELSE signReq[post[p].req].ttl) \in Nat \cup {NoTtl}
      BY <2>1 DEF SignRecord, PostState
    <3>2. Resolution(post[p].answer) \in Status /\ (post[p].answer = "hash") \in BOOLEAN
      BY DEF Resolution, Status
    <3>3. post[p].rec \in SignRecord
      BY <2>1
    <3> QED
      BY <3>1, <3>2, <3>3 DEF SignRecord
  <2>4. signReq' \in [Requests -> SignRecord \cup {NoRecord}]
    BY <1>9, <2>3 DEF ResolveWrite, WriteResolution
  <2> QED
    BY <1>9, <2>2, <2>4 DEF ResolveWrite
<1>10. ASSUME NEW p \in Posts, ChargeRead(p)
      PROVE  TypeOK'
  <2>1. post[p] \in PostState
    BY <1>10 DEF ChargeRead, At
  <2>2. Done(post[p], TRUE) \in PostState /\ Done(post[p], FALSE) \in PostState
    BY <2>1 DEF Done, PostState, Answer
  <2> DEFINE row == delegation[post[p].user]
  <2>3. row # NoRecord => [post[p] EXCEPT !.pc = "update", !.read = row.spent] \in PostState
    BY <2>1 DEF PostState, Delegation
  <2>4. post' \in [Posts -> PostState \cup {NoRecord}]
    BY <1>10, <2>2, <2>3 DEF ChargeRead
  <2> QED
    BY <1>10, <2>4 DEF ChargeRead, cacheVars
<1>11. ASSUME NEW p \in Posts, ChargeWrite(p)
      PROVE  TypeOK'
  <2>1. /\ post[p] \in PostState /\ post[p].rec \in SignRecord
        /\ delegation[post[p].user] \in Delegation
    BY <1>11 DEF ChargeWrite, At, PostInv, LedgerInv, PostState
  <2>2. Done(post[p], TRUE) \in PostState /\ Done(post[p], FALSE) \in PostState
    BY <2>1 DEF Done, PostState, Answer
  <2>3. [delegation[post[p].user] EXCEPT !.spent = post[p].read + post[p].rec.amount]
            \in Delegation
    BY <2>1 DEF PostState, SignRecord, Delegation
  <2>4. delegation' \in [Users -> Delegation \cup {NoRecord}]
    BY <1>11, <2>3 DEF ChargeWrite, WriteSpent
  <2>5. credited' \in [Users -> Nat]
    BY <1>11, <2>1 DEF ChargeWrite, PostState, SignRecord
  <2> QED
    BY <1>11, <2>2, <2>4, <2>5 DEF ChargeWrite, cacheVars
<1>12. ASSUME NEW p \in Posts, FindEntry(p) \/ DeleteEntry(p) \/ DequeueEntry(p)
                                 \/ DeletionFails(p)
      PROVE  TypeOK'
  <2>1. post[p] \in PostState
    BY <1>12 DEF FindEntry, DeleteEntry, DequeueEntry, DeletionFails, At
  <2>2. /\ [post[p] EXCEPT !.pc = "delete"] \in PostState
        /\ [post[p] EXCEPT !.pc = "dequeue"] \in PostState
    BY <2>1 DEF PostState
  <2>3. post' \in [Posts -> PostState \cup {NoRecord}]
    BY <1>12, <2>2 DEF FindEntry, DeleteEntry, DequeueEntry, DeletionFails, FinalReply
  <2>4. replied' \in [Requests -> SUBSET {"deleted", "kept"}]
    BY <1>12, <2>1
       DEF FindEntry, DeleteEntry, DequeueEntry, DeletionFails, FinalReply, PostState
  <2>5. /\ miniReq' \in [Requests -> MiniRecord \cup {NoRecord}]
        /\ signQueue' \in [Users -> SUBSET Requests]
    BY <1>12, <2>1
       DEF FindEntry, DeleteEntry, DequeueEntry, DeletionFails, DropMini, Dequeue, PostState,
           cacheVars
  <2> QED
    BY <1>12, <2>3, <2>4, <2>5
       DEF FindEntry, DeleteEntry, DequeueEntry, DeletionFails, cacheVars
<1>13. ASSUME NEW p \in Posts, PostFails(p)
      PROVE  TypeOK'
  BY <1>13 DEF PostFails, cacheVars
<1>14. ASSUME NEW u \in Users, NEW limit \in Limits, Grant(u, limit)
      PROVE  TypeOK'
  <2> DEFINE spent == IF delegation[u] # NoRecord /\ delegation[u].limit = limit
                      THEN delegation[u].spent ELSE 0
  <2>1. spent \in Nat
    BY DEF Delegation
  <2>2. [limit |-> limit, spent |-> spent, left |-> GrantTicks] \in Delegation
    BY <2>1 DEF Delegation
  <2> QED
    BY <1>14, <2>2 DEF Grant, Upsert, cacheVars, flowVars
<1>15. ASSUME NEW u \in Users, FetchNext(u)
      PROVE  TypeOK'
  BY <1>15 DEF FetchNext, EvictStale, flowVars
<1>16. CASE Tick
  <2>1. signReq' \in [Requests -> SignRecord \cup {NoRecord}]
    <3>1. ASSUME NEW r \in Requests
          PROVE  AgedSign(signReq[r]) \in SignRecord \cup {NoRecord}
      BY AgedType
    <3> QED
      BY <1>16, <3>1 DEF Tick, CachesTick
  <2>2. miniReq' \in [Requests -> MiniRecord \cup {NoRecord}]
    <3>1. ASSUME NEW r \in Requests
          PROVE  AgedMini(miniReq[r]) \in MiniRecord \cup {NoRecord}
      <4>1. ASSUME miniReq[r] # NoRecord
            PROVE  [miniReq[r] EXCEPT !.left = Less(@), !.ttl = Less(@)] \in MiniRecord
        <5>1. miniReq[r] \in MiniRecord
          BY <4>1
        <5>2. Less(miniReq[r].left) \in Nat /\ Less(miniReq[r].ttl) \in Nat
          BY <5>1 DEF Less, MiniRecord
        <5> QED
          BY <5>1, <5>2 DEF MiniRecord
      <4> QED
        BY <4>1 DEF AgedMini
    <3> QED
      BY <1>16, <3>1 DEF Tick, CachesTick
  <2>3. delegation' \in [Users -> Delegation \cup {NoRecord}]
    <3>1. ASSUME NEW u \in Users, delegation[u] # NoRecord, delegation[u].left # 0
          PROVE  [delegation[u] EXCEPT !.left = @ - 1] \in Delegation
      <4>1. delegation[u] \in Delegation
        BY <3>1
      <4>2. delegation[u].left - 1 \in 0..GrantTicks
        BY <3>1, <4>1 DEF Delegation
      <4> QED
        BY <4>1, <4>2 DEF Delegation
    <3> QED
      BY <1>16, <3>1 DEF Tick, DelegationsTick
  <2>4. bot' \in BotState \cup {NoRecord}
    BY <1>16 DEF Tick, BotState, Less
  <2>5. post' \in [Posts -> PostState \cup {NoRecord}]
    <3>1. ASSUME NEW p \in Posts, post[p] # NoRecord
          PROVE  [post[p] EXCEPT !.rec = AgedCopy(@)] \in PostState
      <4>1. AgedCopy(post[p].rec) \in SignRecord \cup {NoRecord}
        BY <3>1, AgedType DEF PostState
      <4> QED
        BY <3>1, <4>1 DEF PostState
    <3> QED
      BY <1>16, <3>1 DEF Tick
  <2> QED
    BY <1>16, <2>1, <2>2, <2>3, <2>4, <2>5 DEF Tick, CachesTick
<1>17. CASE UNCHANGED vars
  BY <1>17 DEF vars, cacheVars, flowVars
<1> QED
  BY <1>1, <1>2, <1>3, <1>4, <1>5, <1>6, <1>7, <1>8, <1>9, <1>10, <1>11, <1>12, <1>13,
     <1>14, <1>15, <1>16, <1>17
     DEF Next, Bot, Post

--------------------------------------------------------------------------------
(* The parts of the inductive invariant, one lemma each.                   *)

\* A step of a handler neither moves it to another request or user nor touches the
\* other handlers.
LEMMA HandlerMoves ==
    ASSUME TypeOK, NEW p \in Posts, Post(p) \/ PostFails(p)
    PROVE  /\ \A q \in Posts : post'[q] # NoRecord =>
                /\ post[q] # NoRecord
                /\ post'[q].req = post[q].req /\ post'[q].user = post[q].user
           /\ \A q \in Posts \ {p} : post'[q] = post[q]
<1>1. post \in [Posts -> PostState \cup {NoRecord}]
  BY DEF TypeOK
<1>2. post[p] # NoRecord /\ post[p] \in PostState
  BY <1>1 DEF Post, Lookup, ResolveRead, ResolveWrite, ChargeRead, ChargeWrite, FindEntry,
              DeleteEntry, DequeueEntry, DeletionFails, PostFails, At
<1>3. \A q \in Posts \ {p} : post'[q] = post[q]
  BY <1>1 DEF Post, Lookup, ResolveRead, ResolveWrite, ChargeRead, ChargeWrite, FindEntry,
              DeleteEntry, DequeueEntry, DeletionFails, PostFails, FinalReply
<1>4. post'[p] = NoRecord \/ (post'[p].req = post[p].req /\ post'[p].user = post[p].user)
  <2>1. CASE Lookup(p) \/ ResolveRead(p) \/ ResolveWrite(p)
    <3>1. \/ \E r : post'[p] = [post[p] EXCEPT !.pc = "resolve", !.rec = r]
          \/ post'[p] = Done(post[p], TRUE)
          \/ post'[p] = [post[p] EXCEPT !.pc = "charge"]
          \/ \E r : post'[p] = [post[p] EXCEPT !.pc = "write", !.rec = r]
      <4>1. CASE Lookup(p)
        BY <1>1, <4>1 DEF Lookup
      <4>2. CASE ResolveRead(p)
        BY <1>1, <4>2 DEF ResolveRead
      <4>3. CASE ResolveWrite(p)
        BY <1>1, <4>3 DEF ResolveWrite
      <4> QED
        BY <2>1, <4>1, <4>2, <4>3
    <3> QED
      BY <1>2, <3>1 DEF Done, PostState
  <2>2. CASE ChargeRead(p) \/ ChargeWrite(p)
    <3>1. /\ Done(post[p], FALSE).req = post[p].req
          /\ Done(post[p], FALSE).user = post[p].user
      BY <1>2 DEF Done, PostState
    <3>2. CASE post'[p] = Done(post[p], FALSE)
      BY <3>1, <3>2
    <3>3. CASE post'[p] = [post[p] EXCEPT !.pc = "update",
                                          !.read = delegation[post[p].user].spent]
      BY <1>2, <3>3 DEF PostState
    <3> QED
      BY <1>1, <2>2, <3>2, <3>3 DEF ChargeRead, ChargeWrite
  <2>3. CASE FindEntry(p) \/ DeleteEntry(p)
    <3>1. \/ post'[p] = NoRecord
          \/ post'[p] = [post[p] EXCEPT !.pc = "delete"]
          \/ post'[p] = [post[p] EXCEPT !.pc = "dequeue"]
      BY <1>1, <2>3 DEF FindEntry, DeleteEntry, FinalReply
    <3> QED
      BY <1>2, <3>1 DEF PostState
  <2>4. CASE DequeueEntry(p) \/ DeletionFails(p) \/ PostFails(p)
    BY <1>1, <2>4 DEF DequeueEntry, DeletionFails, PostFails, FinalReply
  <2> QED
    BY <2>1, <2>2, <2>3, <2>4 DEF Post
<1> QED
  BY <1>2, <1>3, <1>4

\* The deletion of an entry: whichever of its steps it is, it leaves everything alone
\* but the handler, its entry, which can only go, the queue, and what is noted of it.
LEMMA DeletionMoves ==
    ASSUME TypeOK, NEW p \in Posts,
           FindEntry(p) \/ DeleteEntry(p) \/ DequeueEntry(p) \/ DeletionFails(p)
    PROVE  /\ post[p] # NoRecord /\ post[p] \in PostState /\ post[p].req \in Requests
           /\ UNCHANGED <<signReq, delegation, bot, issued, accepted, verdict, credited>>
           /\ \A r \in Requests : miniReq'[r] = miniReq[r] \/ miniReq'[r] = NoRecord
           /\ \A r \in Requests \ {post[p].req} : replied'[r] = replied[r]
           /\ post'[p] # NoRecord =>
                 /\ post'[p].pc \in {"delete", "dequeue"}
                 /\ post'[p].req = post[p].req /\ post'[p].user = post[p].user
                 /\ post'[p].refused = post[p].refused
<1>1. post[p] # NoRecord /\ post[p] \in PostState /\ post[p].req \in Requests
  BY DEF FindEntry, DeleteEntry, DequeueEntry, DeletionFails, At, TypeOK, PostState
<1>2. UNCHANGED <<signReq, delegation, bot, issued, accepted, verdict, credited>>
  BY DEF FindEntry, DeleteEntry, DequeueEntry, DeletionFails, cacheVars
<1>3. \A r \in Requests : miniReq'[r] = miniReq[r] \/ miniReq'[r] = NoRecord
  BY DEF FindEntry, DeleteEntry, DequeueEntry, DeletionFails, DropMini, cacheVars, TypeOK,
         CachesTypeOK
<1>4. \A r \in Requests \ {post[p].req} : replied'[r] = replied[r]
  BY DEF FindEntry, DeleteEntry, DequeueEntry, DeletionFails, FinalReply, TypeOK
<1>5. \/ post'[p] = NoRecord
      \/ post'[p] = [post[p] EXCEPT !.pc = "delete"]
      \/ post'[p] = [post[p] EXCEPT !.pc = "dequeue"]
  BY DEF FindEntry, DeleteEntry, DequeueEntry, DeletionFails, FinalReply, TypeOK
<1>6. post'[p] # NoRecord =>
          /\ post'[p].pc \in {"delete", "dequeue"}
          /\ post'[p].req = post[p].req /\ post'[p].user = post[p].user
          /\ post'[p].refused = post[p].refused
  BY <1>1, <1>5 DEF PostState
<1> QED
  BY <1>1, <1>2, <1>3, <1>4, <1>6

\* The answers that were accepted stay.
LEMMA LookupAccepts ==
    ASSUME TypeOK, NEW p \in Posts, Lookup(p)
    PROVE  \A r \in Requests : accepted[r] \subseteq accepted'[r]
<1>1. \/ accepted' = accepted
      \/ accepted' = [accepted EXCEPT ![post[p].req] = @ \cup {Resolution(post[p].answer)}]
  BY DEF Lookup
<1>2. accepted \in [Requests -> SUBSET {"approved", "rejected"}]
  BY DEF TypeOK
<1> QED
  BY <1>1, <1>2

\* The loop's own steps and the answers to its request keep BotInv.
LEMMA NextBotInv ==
    ASSUME IInv, [Next]_vars
    PROVE  BotInv'
<1>1. ASSUME NEW u \in Users, NEW plan \in Plans, StartCommand(u, plan)
      PROVE  BotInv'
  <2>1. plan.steps \in Nat \ {0}
    BY PlansAssumption DEF Plan
  <2> QED
    BY <1>1, <2>1 DEF StartCommand, BotInv
<1>2. ASSUME NEW r \in Requests, CreateRecord(r)
      PROVE  BotInv'
  <2>1. bot \in BotState /\ ~IsIssued(r) /\ r # NoRecord
    BY <1>2, NoRequestAssumption DEF CreateRecord, IInv, TypeOK, IsFresh, Unissued, IsIssued
  <2>2. /\ replied[r] = {} /\ miniReq[r] = NoRecord /\ verdict[r] = "none"
        /\ \A p \in Posts : post[p] # NoRecord => post[p].req # r
    BY <2>1 DEF IInv, IssueInv, PostInv
  <2>3. issued'[r] # NoRecord /\ issued'[r].user = bot.user
    <3>1. [user |-> bot.user, plan |-> bot.plan, step |-> bot.step, prev |-> bot.prev]
              \in Issue
      BY <2>1 DEF BotState, Issue
    <3> QED
      BY <1>2, <3>1, NoRequestAssumption DEF CreateRecord, IInv, TypeOK
  <2>4. bot' = [bot EXCEPT !.pc = "publish", !.req = r]
    BY <1>2 DEF CreateRecord
  <2>5. /\ bot'.step = bot.step /\ bot'.plan = bot.plan /\ bot'.prev = bot.prev
        /\ bot'.pc = "publish" /\ bot'.req = r /\ bot'.user = bot.user
    BY <2>1, <2>4 DEF BotState
  <2> QED
    BY <1>2, <2>1, <2>2, <2>3, <2>5 DEF CreateRecord, IInv, BotInv, IsIssued
<1>3. CASE Publish
  <2>1. bot \in BotState
    BY <1>3 DEF Publish, IInv, TypeOK
  <2>2. bot' # NoRecord =>
            /\ bot'.step = bot.step /\ bot'.plan = bot.plan /\ bot'.prev = bot.prev
            /\ bot'.pc = "wait" /\ bot'.req = bot.req /\ bot'.user = bot.user
    BY <1>3, <2>1 DEF Publish, BotState
  <2> QED
    BY <1>3, <2>2 DEF Publish, IInv, BotInv, IsIssued
<1>4. CASE Poll
  <2>1. bot \in BotState /\ bot.req \in Requests
    BY <1>4 DEF Poll, IInv, TypeOK, BotInv, BotState
  <2>2. CASE bot' = NoRecord
    BY <2>2 DEF BotInv
  <2>3. CASE bot' # NoRecord
    <3>1. PollResult = "approved" /\ bot' = NextStep /\ bot.step # bot.plan.steps
      BY <1>4, <2>3 DEF Poll, NextStep
    <3>2. /\ bot'.pc = "create" /\ bot'.step = bot.step + 1 /\ bot'.plan = bot.plan
          /\ bot'.prev = bot.req /\ bot'.req = NoRecord
      BY <2>1, <2>3, <3>1 DEF NextStep, BotState
    <3>3. verdict'[bot.req] = "approved"
      BY <1>4, <2>1, <3>1 DEF Poll, IInv, TypeOK
    <3>4. bot.step + 1 <= bot.plan.steps
      <4>1. bot.plan.steps \in Nat /\ bot.step \in Nat
        BY <2>1, PlansAssumption DEF BotState, Plan
      <4> QED
        BY <1>4, <3>1, <4>1 DEF Poll, IInv, BotInv
    <3> QED
      BY <3>2, <3>3, <3>4 DEF BotInv
  <2> QED
    BY <2>2, <2>3
<1>5. CASE BotFails
  BY <1>5 DEF BotFails, BotInv
<1>6. ASSUME NEW p \in Posts, NEW r \in Requests, NEW answer \in Answer, Receive(p, r, answer)
      PROVE  BotInv'
  <2>1. \A q \in Posts : post'[q] = post[q] \/ (q = p /\ post'[q].req = r)
    BY <1>6 DEF Receive, IInv, TypeOK
  <2>2. miniReq[r] # NoRecord
    BY <1>6 DEF Receive
  <2> QED
    BY <1>6, <2>1, <2>2 DEF Receive, IInv, BotInv, IsIssued, cacheVars
<1>7. ASSUME NEW p \in Posts, Post(p) \/ PostFails(p)
      PROVE  BotInv'
  <2> DEFINE Deletes == FindEntry(p) \/ DeleteEntry(p) \/ DequeueEntry(p)
                            \/ DeletionFails(p)
  <2>1. \A q \in Posts : post'[q] # NoRecord =>
            post[q] # NoRecord /\ post'[q].req = post[q].req
    BY <1>7, HandlerMoves DEF IInv
  <2>2. CASE Deletes
    <3>1. /\ post[p] # NoRecord /\ UNCHANGED <<bot, issued, verdict>>
          /\ \A r \in Requests : miniReq'[r] = miniReq[r] \/ miniReq'[r] = NoRecord
          /\ \A r \in Requests \ {post[p].req} : replied'[r] = replied[r]
      BY <2>2, DeletionMoves DEF IInv
    <3>2. bot # NoRecord /\ bot.pc = "publish" => bot.req \in Requests
      BY DEF IInv, TypeOK, BotInv, BotState
    <3> QED
      BY <2>1, <3>1, <3>2 DEF IInv, BotInv, IsIssued
  <2>3. CASE ~Deletes
    <3>1. UNCHANGED <<bot, issued, verdict, replied, miniReq>>
      BY <1>7, <2>3 DEF Post, Lookup, ResolveRead, ResolveWrite, ChargeRead, ChargeWrite,
                        PostFails, cacheVars
    <3> QED
      BY <2>1, <3>1 DEF IInv, BotInv, IsIssued
  <2> QED
    BY <2>2, <2>3
<1>8. ASSUME NEW u \in Users, NEW limit \in Limits, Grant(u, limit)
      PROVE  BotInv'
  BY <1>8 DEF Grant, cacheVars, flowVars, IInv, BotInv, IsIssued
<1>9. ASSUME NEW u \in Users, FetchNext(u)
      PROVE  BotInv'
  BY <1>9 DEF FetchNext, flowVars, IInv, BotInv, IsIssued
<1>10. CASE Tick
  <2>1. bot # NoRecord =>
            /\ bot'.step = bot.step /\ bot'.plan = bot.plan /\ bot'.prev = bot.prev
            /\ bot'.pc = bot.pc /\ bot'.req = bot.req /\ bot'.user = bot.user
    BY <1>10 DEF Tick, IInv, TypeOK, BotState
  <2>2. \A q \in Posts : post'[q] # NoRecord =>
            post[q] # NoRecord /\ post'[q].req = post[q].req
    BY <1>10 DEF Tick, IInv, TypeOK, PostState
  <2>3. \A r \in Requests : miniReq[r] = NoRecord => miniReq'[r] = NoRecord
    BY <1>10 DEF Tick, CachesTick, AgedMini
  <2>4. bot # NoRecord /\ bot.pc = "publish" => bot.req \in Requests
    BY DEF IInv, TypeOK, BotInv, BotState
  <2>5. bot' # NoRecord => bot # NoRecord
    BY <1>10 DEF Tick
  <2>6. UNCHANGED <<issued, verdict, replied>>
    BY <1>10 DEF Tick
  <2> QED
    BY <2>1, <2>2, <2>3, <2>4, <2>5, <2>6 DEF IInv, BotInv, IsIssued
<1>11. CASE UNCHANGED vars
  BY <1>11 DEF vars, cacheVars, flowVars, IInv, BotInv, IsIssued
<1> QED
  BY <1>1, <1>2, <1>3, <1>4, <1>5, <1>6, <1>7, <1>8, <1>9, <1>10, <1>11 DEF Next, Bot

\* Ids that are not issued yet stay untouched, and verdicts of earlier steps stay.
LEMMA NextIssueInv ==
    ASSUME IInv, [Next]_vars
    PROVE  IssueInv'
<1> DEFINE Unborn(r) == /\ miniReq[r] = NoRecord /\ signReq[r] = NoRecord
                        /\ replied[r] = {} /\ verdict[r] = "none"
<1>1. ASSUME NEW r \in Requests, CreateRecord(r)
      PROVE  IssueInv'
  <2>1. bot \in BotState /\ ~IsIssued(r)
    BY <1>1 DEF CreateRecord, IInv, TypeOK, IsFresh, Unissued, IsIssued
  <2>2. issued'[r] \in Issue /\ issued'[r].prev = bot.prev
    BY <1>1, <2>1 DEF CreateRecord, IInv, TypeOK, BotState, Issue
  <2>3. \A q \in Requests \ {r} : issued'[q] = issued[q] /\ signReq'[q] = signReq[q]
    BY <1>1 DEF CreateRecord, SaveSigning, IInv, TypeOK, CachesTypeOK
  <2>4. UNCHANGED <<miniReq, replied, verdict>>
    BY <1>1 DEF CreateRecord
  <2>5. bot.prev # NoRecord => verdict[bot.prev] = "approved"
    BY <1>1 DEF CreateRecord, IInv, BotInv
  <2> QED
    BY <2>2, <2>3, <2>4, <2>5, NoRequestAssumption DEF IInv, IssueInv, IsIssued
<1>2. CASE Publish
  <2>1. bot.req \in Requests /\ IsIssued(bot.req)
    BY <1>2 DEF Publish, IInv, TypeOK, BotInv, BotState
  <2>2. \A q \in Requests \ {bot.req} : miniReq'[q] = miniReq[q]
    BY <1>2 DEF Publish, StoreMini, IInv, TypeOK, CachesTypeOK
  <2> QED
    BY <1>2, <2>1, <2>2 DEF Publish, IInv, IssueInv, IsIssued
<1>3. CASE Poll
  <2>1. bot.req \in Requests /\ IsIssued(bot.req) /\ verdict[bot.req] = "none"
    BY <1>3 DEF Poll, IInv, TypeOK, BotInv, BotState
  <2>2. \A q \in Requests : verdict'[q] = verdict[q] \/ q = bot.req
    BY <1>3 DEF Poll, IInv, TypeOK
  <2>3. UNCHANGED <<issued, signReq, miniReq, replied>>
    BY <1>3 DEF Poll, cacheVars
  <2>4. \A q \in Requests : IsIssued(q) => issued[q].prev \in Requests \cup {NoRecord}
    BY DEF IInv, TypeOK, Issue, IsIssued
  <2> QED
    BY <2>1, <2>2, <2>3, <2>4 DEF IInv, IssueInv, IsIssued
<1>4. ASSUME NEW p \in Posts, ResolveWrite(p)
      PROVE  IssueInv'
  <2>1. IsIssued(post[p].req)
    BY <1>4 DEF ResolveWrite, At, IInv, PostInv
  <2>2. \A q \in Requests \ {post[p].req} : signReq'[q] = signReq[q]
    BY <1>4 DEF ResolveWrite, WriteResolution, IInv, TypeOK, CachesTypeOK
  <2> QED
    BY <1>4, <2>1, <2>2 DEF ResolveWrite, IInv, IssueInv, IsIssued
<1>5. ASSUME NEW p \in Posts, FindEntry(p) \/ DeleteEntry(p) \/ DequeueEntry(p)
                                \/ DeletionFails(p)
      PROVE  IssueInv'
  <2>1. /\ IsIssued(post[p].req) /\ UNCHANGED <<signReq, issued, verdict>>
        /\ \A q \in Requests : miniReq'[q] = miniReq[q] \/ miniReq'[q] = NoRecord
        /\ \A q \in Requests \ {post[p].req} : replied'[q] = replied[q]
    BY <1>5, DeletionMoves DEF IInv, PostInv
  <2> QED
    BY <2>1 DEF IInv, IssueInv, IsIssued
<1>6. CASE Tick
  <2>1. \A q \in Requests : /\ miniReq[q] = NoRecord => miniReq'[q] = NoRecord
                            /\ signReq[q] = NoRecord => signReq'[q] = NoRecord
    BY <1>6 DEF Tick, CachesTick, AgedMini, AgedSign
  <2> QED
    BY <1>6, <2>1 DEF Tick, IInv, IssueInv, IsIssued
<1>7. ASSUME UNCHANGED <<issued, signReq, miniReq, replied, verdict>>
      PROVE  IssueInv'
  BY <1>7 DEF IInv, IssueInv, IsIssued
<1> QED
  BY <1>1, <1>2, <1>3, <1>4, <1>5, <1>6, <1>7
     DEF Next, Bot, StartCommand, BotFails, Receive, Post, Lookup, ResolveRead, ChargeRead,
         ChargeWrite, PostFails, Grant, FetchNext, vars, cacheVars, flowVars

\* Time takes from what is left of a request whatever becomes of its keys.
LEMMA AgedLeft ==
    ASSUME IInv, Tick, NEW r \in Requests
    PROVE  /\ LeftOf(r) \in Nat /\ LeftOf(r)' = Less(LeftOf(r))
           /\ signReq'[r] # NoRecord =>
                 /\ signReq[r] # NoRecord
                 /\ signReq'[r].ttl = NoTtl \/ signReq'[r].ttl > signReq'[r].left
                 /\ signReq'[r].amount = signReq[r].amount
                 /\ signReq'[r].status = signReq[r].status
                 /\ signReq'[r].user = signReq[r].user
<1>1. signReq[r] \in SignRecord \cup {NoRecord} /\ signReq'[r] = AgedSign(signReq[r])
  BY DEF IInv, TypeOK, CachesTypeOK, Tick, CachesTick
<1>2. CASE signReq[r] = NoRecord
  BY <1>1, <1>2 DEF AgedSign, LeftOf, Less
<1>3. CASE signReq[r] # NoRecord
  <2> DEFINE rec == signReq[r]
  <2>1. /\ rec \in SignRecord /\ rec.left \in Nat /\ rec.ttl \in Nat \cup {NoTtl}
        /\ rec.ttl = NoTtl \/ rec.ttl > rec.left
    BY <1>1, <1>3 DEF IInv, CacheInv, SignRecord
  <2>2. CASE rec.ttl = 1
    BY <1>1, <1>3, <2>1, <2>2 DEF AgedSign, LeftOf, Less, NoTtl
  <2>3. CASE rec.ttl # 1
    <3>1. signReq'[r] = [rec EXCEPT !.left = Less(@),
                                    !.ttl = IF @ = NoTtl THEN @ ELSE Less(@)]
      BY <1>1, <1>3, <2>3 DEF AgedSign
    <3>2. /\ signReq'[r].left = Less(rec.left)
          /\ signReq'[r].ttl = (IF rec.ttl = NoTtl THEN rec.ttl ELSE Less(rec.ttl))
          /\ signReq'[r].amount = rec.amount /\ signReq'[r].status = rec.status
          /\ signReq'[r].user = rec.user
      BY <2>1, <3>1 DEF SignRecord
    <3>3. signReq'[r] # NoRecord
      BY <2>1, <3>1, OlderType, NoRecordAssumption
    <3>4. signReq'[r].ttl = NoTtl \/ signReq'[r].ttl > signReq'[r].left
      BY <2>1, <2>3, <3>2 DEF Less, NoTtl
    <3> QED
      BY <1>3, <2>1, <3>2, <3>3, <3>4 DEF LeftOf
  <2> QED
    BY <2>2, <2>3
<1> QED
  BY <1>2, <1>3

\* A handler's write does not change how long its request is valid, even if it
\* brings a key back.
LEMMA ResolvedLeft ==
    ASSUME IInv, NEW p \in Posts, ResolveWrite(p), NEW r \in Requests, r = post[p].req
    PROVE  /\ post[p].rec \in SignRecord /\ post[p].answer \in Answer
           /\ signReq'[r] # NoRecord
           /\ signReq'[r].left = post[p].rec.left /\ signReq'[r].amount = post[p].rec.amount
           /\ signReq'[r].status = Resolution(post[p].answer)
           /\ signReq'[r].user = post[p].rec.user
           /\ signReq'[r].ttl = IF signReq[r] = NoRecord THEN NoTtl ELSE signReq[r].ttl
           /\ post[p].rec.left = LeftOf(r) /\ LeftOf(r)' = LeftOf(r)
<1> DEFINE rec == post[p].rec
           ttl == IF signReq[r] = NoRecord THEN NoTtl ELSE signReq[r].ttl
<1>1. rec \in SignRecord /\ post[p].answer \in Answer /\ rec.left = LeftOf(r)
  BY DEF ResolveWrite, At, IInv, TypeOK, PostState, PostInv
<1>2. signReq'[r] = [rec EXCEPT !.status = Resolution(post[p].answer),
                                !.hashed = (post[p].answer = "hash"), !.ttl = ttl]
  BY DEF ResolveWrite, WriteResolution, IInv, TypeOK, CachesTypeOK
<1>3. /\ signReq'[r].left = rec.left /\ signReq'[r].amount = rec.amount
      /\ signReq'[r].status = Resolution(post[p].answer) /\ signReq'[r].ttl = ttl
      /\ signReq'[r].user = rec.user
  BY <1>1, <1>2 DEF SignRecord
<1>4. signReq'[r] # NoRecord
  <2>1. signReq[r] \in SignRecord \cup {NoRecord}
    BY DEF IInv, TypeOK, CachesTypeOK
  <2>2. ttl \in Nat \cup {NoTtl}
    BY <2>1 DEF SignRecord
  <2>3. [rec EXCEPT !.status = Resolution(post[p].answer),
                    !.hashed = (post[p].answer = "hash"), !.ttl = ttl] \in SignRecord
    BY <1>1, <2>2, ResolvedType
  <2> QED
    BY <1>2, <2>3, NoRecordAssumption
<1> QED
  BY <1>1, <1>3, <1>4 DEF LeftOf

\* Writes, late writes and time keep the two keys in agreement.
LEMMA NextCacheInv ==
    ASSUME IInv, [Next]_vars
    PROVE  CacheInv'
<1> DEFINE RecordOk(r) ==
        signReq[r] # NoRecord =>
            /\ signReq[r].ttl = NoTtl \/ signReq[r].ttl > signReq[r].left
            /\ signReq[r].user = issued[r].user
            /\ signReq[r].amount = Attributed(issued[r].plan, issued[r].step)
            /\ signReq[r].status # "pending" => signReq[r].status \in accepted[r]
           EntryOk(r) == miniReq[r] # NoRecord =>
                             /\ miniReq[r].left <= LeftOf(r)
                             /\ miniReq[r].user = issued[r].user
<1>0. /\ CacheInv <=> \A r \in Requests : RecordOk(r) /\ EntryOk(r)
      /\ CacheInv' <=> \A r \in Requests : RecordOk(r)' /\ EntryOk(r)'
      /\ CacheInv
  BY DEF CacheInv, IInv
<1>1. ASSUME NEW r \in Requests, CreateRecord(r)
      PROVE  CacheInv'
  <2>1. bot \in BotState /\ ~IsIssued(r) /\ miniReq[r] = NoRecord
    BY <1>1 DEF CreateRecord, IInv, TypeOK, IsFresh, Unissued, IsIssued, IssueInv
  <2>2. \A q \in Requests \ {r} : issued'[q] = issued[q] /\ signReq'[q] = signReq[q]
    BY <1>1 DEF CreateRecord, SaveSigning, IInv, TypeOK, CachesTypeOK
  <2>3. UNCHANGED <<miniReq, accepted>>
    BY <1>1 DEF CreateRecord
  <2>4. RecordOk(r)' /\ EntryOk(r)'
    <3>1. /\ signReq'[r].ttl = SignTtl + 1 /\ signReq'[r].left = SignTtl
          /\ signReq'[r].status = "pending" /\ signReq'[r].user = bot.user
          /\ signReq'[r].amount = Attributed(bot.plan, bot.step)
      BY <1>1 DEF CreateRecord, SaveSigning, IInv, TypeOK, CachesTypeOK
    <3>2. /\ issued'[r].plan = bot.plan /\ issued'[r].step = bot.step
          /\ issued'[r].user = bot.user
      BY <1>1 DEF CreateRecord, IInv, TypeOK
    <3>3. SignTtl + 1 > SignTtl
      BY SignTtlAssumption
    <3> QED
      BY <2>1, <2>3, <3>1, <3>2, <3>3
  <2>5. \A q \in Requests \ {r} : RecordOk(q)' /\ EntryOk(q)'
    BY <1>0, <2>2, <2>3 DEF LeftOf
  <2> QED
    BY <1>0, <2>4, <2>5
<1>2. CASE Publish
  <2>1. PICK r \in Requests : r = bot.req
    BY <1>2 DEF Publish, IInv, TypeOK, BotInv, BotState
  <2>2. UNCHANGED <<signReq, issued, accepted>>
    BY <1>2 DEF Publish
  <2>3. \A q \in Requests \ {r} : miniReq'[q] = miniReq[q]
    BY <1>2, <2>1 DEF Publish, StoreMini, IInv, TypeOK, CachesTypeOK
  <2>4. miniReq'[r].left = LeftOf(r) /\ miniReq'[r].user = bot.user
    BY <1>2, <2>1 DEF Publish, StoreMini, IInv, TypeOK, CachesTypeOK, LeftOf
  <2>5. LeftOf(r) \in Nat
    <3>1. signReq[r] \in SignRecord \cup {NoRecord}
      BY DEF IInv, TypeOK, CachesTypeOK
    <3> QED
      BY <3>1, LeftType DEF LeftOf
  <2>6. issued[r].user = bot.user
    BY <1>2, <2>1 DEF Publish, IInv, BotInv
  <2> QED
    BY <1>0, <2>2, <2>3, <2>4, <2>5, <2>6 DEF LeftOf
<1>3. ASSUME NEW p \in Posts, Lookup(p)
      PROVE  CacheInv'
  <2>1. UNCHANGED <<signReq, miniReq, issued>>
    BY <1>3 DEF Lookup, cacheVars
  <2>2. \A r \in Requests : accepted[r] \subseteq accepted'[r]
    BY <1>3, LookupAccepts DEF IInv
  <2> QED
    BY <1>0, <2>1, <2>2 DEF LeftOf
<1>4. ASSUME NEW p \in Posts, ResolveWrite(p)
      PROVE  CacheInv'
  <2>1. PICK r \in Requests : r = post[p].req
    BY <1>4 DEF ResolveWrite, At, IInv, TypeOK, PostState
  <2>2. /\ post[p].rec.amount = Attributed(issued[r].plan, issued[r].step)
        /\ post[p].rec.user = issued[r].user
        /\ Resolution(post[p].answer) \in accepted[r]
    BY <1>4, <2>1 DEF ResolveWrite, At, IInv, PostInv
  <2>3. UNCHANGED <<miniReq, issued, accepted>>
    BY <1>4 DEF ResolveWrite
  <2>4. \A q \in Requests \ {r} : signReq'[q] = signReq[q]
    BY <1>4, <2>1 DEF ResolveWrite, WriteResolution, IInv, TypeOK, CachesTypeOK
  <2>5. signReq'[r].ttl = NoTtl \/ signReq'[r].ttl > signReq'[r].left
    BY <1>0, <1>4, <2>1, ResolvedLeft DEF LeftOf
  <2>6. RecordOk(r)' /\ EntryOk(r)'
    BY <1>0, <1>4, <2>1, <2>2, <2>3, <2>5, ResolvedLeft
  <2>7. \A q \in Requests \ {r} : RecordOk(q)' /\ EntryOk(q)'
    BY <1>0, <2>3, <2>4 DEF LeftOf
  <2> QED
    BY <1>0, <2>6, <2>7
<1>5. ASSUME NEW p \in Posts, FindEntry(p) \/ DeleteEntry(p) \/ DequeueEntry(p)
                                \/ DeletionFails(p)
      PROVE  CacheInv'
  <2>1. /\ \A q \in Requests : miniReq'[q] = miniReq[q] \/ miniReq'[q] = NoRecord
        /\ UNCHANGED <<signReq, issued, accepted>>
    BY <1>5, DeletionMoves DEF IInv
  <2> QED
    BY <1>0, <2>1 DEF LeftOf
<1>6. CASE Tick
  <2>1. ASSUME NEW r \in Requests
        PROVE  RecordOk(r)' /\ EntryOk(r)'
    <3>1. RecordOk(r)'
      BY <1>0, <1>6, AgedLeft DEF Tick
    <3>2. EntryOk(r)'
      <4>1. miniReq'[r] # NoRecord =>
                /\ miniReq[r] \in MiniRecord
                /\ miniReq'[r] = [miniReq[r] EXCEPT !.left = Less(@), !.ttl = Less(@)]
        BY <1>6 DEF Tick, CachesTick, AgedMini, IInv, TypeOK, CachesTypeOK
      <4>2. miniReq'[r] # NoRecord =>
                /\ miniReq[r] # NoRecord /\ miniReq[r].left \in Nat
                /\ miniReq'[r].left = Less(miniReq[r].left)
                /\ miniReq'[r].user = miniReq[r].user
        BY <4>1, NoRecordAssumption DEF MiniRecord
      <4>3. LeftOf(r) \in Nat /\ LeftOf(r)' = Less(LeftOf(r))
        BY <1>6, AgedLeft
      <4> QED
        BY <1>0, <1>6, <4>2, <4>3 DEF Less, Tick
    <3> QED
      BY <3>1, <3>2
  <2> QED
    BY <1>0, <2>1
<1>7. ASSUME UNCHANGED <<signReq, miniReq, issued, accepted>>
      PROVE  CacheInv'
  BY <1>0, <1>7 DEF LeftOf
<1> QED
  BY <1>1, <1>2, <1>3, <1>4, <1>5, <1>6, <1>7
     DEF Next, Bot, StartCommand, Poll, BotFails, Receive, Post, ResolveRead, ChargeRead,
         ChargeWrite, PostFails, Grant, FetchNext, vars, cacheVars, flowVars

\* A handler's copy stays true of its request while others move.
LEMMA NextPostInv ==
    ASSUME IInv, [Next]_vars
    PROVE  PostInv'
<1> DEFINE HandlerOk(q) ==
        post[q] # NoRecord =>
            /\ IsIssued(post[q].req) /\ post[q].user = issued[post[q].req].user
            /\ post[q].pc \in {"resolve", "write", "charge", "update"} =>
                  /\ post[q].rec # NoRecord
                  /\ post[q].rec.user = issued[post[q].req].user
                  /\ post[q].rec.amount =
                        Attributed(issued[post[q].req].plan, issued[post[q].req].step)
                  /\ Resolution(post[q].answer) \in accepted[post[q].req]
            /\ post[q].pc = "write" => post[q].rec.left = LeftOf(post[q].req)
            /\ post[q].refused => LeftOf(post[q].req) = 0
            /\ post[q].pc = "dequeue" => miniReq[post[q].req] = NoRecord
            /\ post[q].pc = "update" => post[q].answer # "rejected" /\ post[q].rec.amount > 0
<1>0. /\ \A q \in Posts : HandlerOk(q)
      /\ (\A q \in Posts : HandlerOk(q)') => PostInv'
      /\ \A q \in Posts : post[q] # NoRecord => post[q] \in PostState /\ post[q].req \in Requests
      /\ post \in [Posts -> PostState \cup {NoRecord}]
  BY DEF PostInv, IInv, TypeOK, PostState
\* a handler that does not move, on a request that nothing much happens to
<1> DEFINE Alike(r) == /\ issued'[r] = issued[r] /\ accepted[r] \subseteq accepted'[r]
                       /\ LeftOf(r)' = LeftOf(r)
                       /\ miniReq[r] = NoRecord => miniReq'[r] = NoRecord
<1>a. ASSUME NEW q \in Posts, post'[q] = post[q],
             post[q] # NoRecord => Alike(post[q].req)
      PROVE  HandlerOk(q)'
  BY <1>0, <1>a DEF IsIssued
<1>1. ASSUME NEW r \in Requests, CreateRecord(r)
      PROVE  PostInv'
  <2>1. ~IsIssued(r)
    BY <1>1 DEF CreateRecord, IsFresh, Unissued, IsIssued
  <2>2. \A q \in Requests \ {r} : issued'[q] = issued[q] /\ signReq'[q] = signReq[q]
    BY <1>1 DEF CreateRecord, SaveSigning, IInv, TypeOK, CachesTypeOK
  <2>3. UNCHANGED <<post, accepted, miniReq>>
    BY <1>1 DEF CreateRecord
  <2>4. \A q \in Posts : post[q] # NoRecord => post[q].req \in Requests \ {r}
    BY <1>0, <2>1
  <2>5. \A q \in Requests \ {r} : Alike(q)
    BY <2>2, <2>3 DEF LeftOf
  <2> QED
    BY <1>0, <1>a, <2>3, <2>4, <2>5
<1>2. ASSUME NEW p \in Posts, NEW r \in Requests, NEW answer \in Answer, Receive(p, r, answer)
      PROVE  PostInv'
  <2>1. /\ UNCHANGED <<issued, accepted, signReq, miniReq>>
        /\ IsIssued(r) /\ miniReq[r].user = issued[r].user
    BY <1>2 DEF Receive, cacheVars, IInv, IssueInv, CacheInv
  <2>2. /\ post'[p].req = r /\ post'[p].pc = "lookup" /\ post'[p].user = miniReq[r].user
        /\ ~post'[p].refused
        /\ \A q \in Posts \ {p} : post'[q] = post[q]
    BY <1>0, <1>2 DEF Receive
  <2>3. HandlerOk(p)'
    BY <2>1, <2>2 DEF IsIssued
  <2>4. \A q \in Requests : Alike(q)
    BY <2>1 DEF LeftOf
  <2> QED
    BY <1>0, <1>a, <2>2, <2>3, <2>4
<1>p. CASE Publish
  <2>1. UNCHANGED <<post, issued, accepted, signReq>>
    BY <1>p DEF Publish
  <2>2. /\ \A q \in Posts : post[q] # NoRecord => post[q].req # bot.req
        /\ \A q \in Requests : q # bot.req => miniReq'[q] = miniReq[q]
    BY <1>p DEF Publish, StoreMini, IInv, BotInv, TypeOK, CachesTypeOK
  <2>3. \A q \in Requests : q # bot.req => Alike(q)
    BY <2>1, <2>2 DEF LeftOf
  <2> QED
    BY <1>0, <1>a, <2>1, <2>2, <2>3
<1>3. ASSUME NEW p \in Posts, Lookup(p)
      PROVE  PostInv'
  <2>1. PICK r \in Requests : r = post[p].req /\ IsIssued(r)
    BY <1>0, <1>3 DEF Lookup, At
  <2>2. /\ UNCHANGED <<issued, signReq, miniReq>>
        /\ \A q \in Requests : accepted[q] \subseteq accepted'[q]
    BY <1>3, LookupAccepts DEF Lookup, cacheVars, IInv
  <2>3. \A q \in Posts \ {p} : post'[q] = post[q]
    BY <1>0, <1>3 DEF Lookup
  <2>4. \A q \in Requests : Alike(q)
    BY <2>2 DEF LeftOf
  <2>5. \A q \in Posts \ {p} : HandlerOk(q)'
    BY <1>0, <1>a, <2>3, <2>4
  <2>6. /\ post[p] \in PostState /\ post[p].pc = "lookup"
        /\ post[p].user = issued[r].user
        /\ signReq[r] # NoRecord => signReq[r].user = issued[r].user
    BY <1>0, <1>3, <2>1 DEF Lookup, At, IInv, CacheInv
  <2>7. CASE ~(signReq[r] # NoRecord /\ signReq[r].user = post[p].user /\ signReq[r].left > 0)
    <3>1. post'[p] = Done(post[p], TRUE)
      BY <1>0, <1>3, <2>1, <2>7 DEF Lookup
    <3>2. post'[p].req = r /\ post'[p].pc = "find" /\ post'[p].user = post[p].user
      BY <2>1, <2>6, <3>1 DEF Done, PostState
    <3>3. LeftOf(r) = 0
      <4>1. signReq[r] # NoRecord => signReq[r] \in SignRecord /\ signReq[r].left \in Nat
        BY DEF IInv, TypeOK, CachesTypeOK, SignRecord
      <4> QED
        BY <2>6, <2>7, <4>1 DEF LeftOf
    <3>4. HandlerOk(p)'
      BY <2>1, <2>2, <2>4, <2>6, <3>2, <3>3 DEF IsIssued
    <3> QED
      BY <1>0, <2>5, <3>4
  <2>8. CASE signReq[r] # NoRecord /\ signReq[r].user = post[p].user /\ signReq[r].left > 0
    <3>1. /\ post'[p] = [post[p] EXCEPT !.pc = "resolve", !.rec = Body(signReq[r])]
          /\ accepted' = [accepted EXCEPT ![r] = @ \cup {Resolution(post[p].answer)}]
      BY <1>0, <1>3, <2>1, <2>8 DEF Lookup
    <3>2. /\ signReq[r] \in SignRecord
          /\ Body(signReq[r]) # NoRecord /\ Body(signReq[r]).amount = signReq[r].amount
          /\ Body(signReq[r]).user = signReq[r].user
      BY <2>8, BodyType, NoRecordAssumption DEF IInv, TypeOK, CachesTypeOK, Body, SignRecord
    <3>3. /\ post'[p].req = r /\ post'[p].pc = "resolve"
          /\ post'[p].rec = Body(signReq[r]) /\ post'[p].answer = post[p].answer
          /\ post'[p].user = post[p].user /\ post'[p].refused = post[p].refused
      BY <2>1, <2>6, <3>1 DEF PostState
    <3>4. Resolution(post[p].answer) \in accepted'[r]
      BY <3>1 DEF IInv, TypeOK
    <3>5. signReq[r].amount = Attributed(issued[r].plan, issued[r].step)
      BY <2>8 DEF IInv, CacheInv
    <3>6. post[p].refused => LeftOf(r) = 0
      BY <1>0, <1>3, <2>1 DEF Lookup, At
    <3>7. Alike(r)
      BY <2>4
    <3>8. /\ post'[p].rec # NoRecord /\ post'[p].rec.user = issued'[r].user
          /\ post'[p].rec.amount = Attributed(issued[r].plan, issued[r].step)
      BY <2>2, <2>6, <2>8, <3>2, <3>3, <3>5
    <3>9. HandlerOk(p)'
      BY <2>1, <2>2, <2>6, <3>3, <3>4, <3>6, <3>7, <3>8 DEF IsIssued
    <3> QED
      BY <1>0, <2>5, <3>9
  <2> QED
    BY <2>7, <2>8
<1>4. ASSUME NEW p \in Posts, ResolveRead(p)
      PROVE  PostInv'
  <2>1. PICK r \in Requests : r = post[p].req /\ IsIssued(r)
    BY <1>0, <1>4 DEF ResolveRead, At
  <2>2. UNCHANGED <<issued, signReq, accepted, miniReq>>
    BY <1>4 DEF ResolveRead, cacheVars
  <2>3. \A q \in Posts \ {p} : post'[q] = post[q]
    BY <1>0, <1>4 DEF ResolveRead
  <2>4. post[p] \in PostState /\ post[p].pc = "resolve"
    BY <1>0, <1>4 DEF ResolveRead, At
  <2>5. \A q \in Posts \ {p} : HandlerOk(q)'
    <3>1. \A q \in Requests : Alike(q)
      BY <2>2 DEF LeftOf
    <3> QED
      BY <1>0, <1>a, <2>3, <3>1
  <2>6. /\ post[p].rec # NoRecord /\ post[p].rec.user = issued[r].user
        /\ post[p].rec.amount = Attributed(issued[r].plan, issued[r].step)
        /\ Resolution(post[p].answer) \in accepted[r]
        /\ post[p].user = issued[r].user
        /\ post[p].refused => LeftOf(r) = 0
    BY <1>0, <1>4, <2>1, <2>4 DEF ResolveRead, At
  <2>7. LeftOf(r)' = LeftOf(r)
    BY <2>2 DEF LeftOf
  <2>8. CASE signReq[r] = NoRecord
    <3>1. post'[p] = [post[p] EXCEPT !.pc = "charge"]
      BY <1>0, <1>4, <2>1, <2>8 DEF ResolveRead
    <3>2. /\ post'[p].req = r /\ post'[p].pc = "charge" /\ post'[p].rec = post[p].rec
          /\ post'[p].answer = post[p].answer /\ post'[p].user = post[p].user
          /\ post'[p].refused = post[p].refused
      BY <2>1, <2>4, <3>1 DEF PostState
    <3>3. HandlerOk(p)'
      BY <2>1, <2>2, <2>6, <2>7, <3>2 DEF IsIssued
    <3> QED
      BY <1>0, <2>5, <3>3
  <2>9. CASE signReq[r] # NoRecord
    <3>1. post'[p] = [post[p] EXCEPT !.pc = "write", !.rec = Body(signReq[r])]
      BY <1>0, <1>4, <2>1, <2>9 DEF ResolveRead
    <3>2. /\ post'[p].req = r /\ post'[p].pc = "write" /\ post'[p].rec = Body(signReq[r])
          /\ post'[p].answer = post[p].answer /\ post'[p].user = post[p].user
          /\ post'[p].refused = post[p].refused
      BY <2>1, <2>4, <3>1 DEF PostState
    <3>3. /\ Body(signReq[r]) # NoRecord /\ Body(signReq[r]).amount = signReq[r].amount
          /\ Body(signReq[r]).left = signReq[r].left
          /\ Body(signReq[r]).user = signReq[r].user
      BY <2>9, BodyType, NoRecordAssumption DEF IInv, TypeOK, CachesTypeOK, Body, SignRecord
    <3>4. /\ signReq[r].amount = Attributed(issued[r].plan, issued[r].step)
          /\ signReq[r].user = issued[r].user
      BY <2>9 DEF IInv, CacheInv
    <3>5. LeftOf(r) = signReq[r].left
      BY <2>9 DEF LeftOf
    <3>6. HandlerOk(p)'
      BY <2>1, <2>2, <2>6, <2>7, <3>2, <3>3, <3>4, <3>5 DEF IsIssued
    <3> QED
      BY <1>0, <2>5, <3>6
  <2> QED
    BY <2>8, <2>9
<1>5. ASSUME NEW p \in Posts, ResolveWrite(p)
      PROVE  PostInv'
  <2>1. PICK r \in Requests : r = post[p].req /\ IsIssued(r)
    BY <1>0, <1>5 DEF ResolveWrite, At
  <2>2. UNCHANGED <<issued, accepted, miniReq>>
    BY <1>5 DEF ResolveWrite
  <2>3. \A q \in Posts \ {p} : post'[q] = post[q]
    BY <1>0, <1>5 DEF ResolveWrite
  <2>4. post[p] \in PostState /\ post[p].pc = "write" /\ post[p].rec \in SignRecord
    BY <1>0, <1>5 DEF ResolveWrite, At, PostState
  <2>5. /\ post'[p].req = r /\ post'[p].pc = "charge" /\ post'[p].rec = post[p].rec
        /\ post'[p].answer = post[p].answer /\ post'[p].user = post[p].user
        /\ post'[p].refused = post[p].refused
    BY <1>0, <1>5, <2>1, <2>4 DEF ResolveWrite, PostState
  <2>6. \A q \in Requests : LeftOf(q)' = LeftOf(q)
    <3>1. \A q \in Requests \ {r} : signReq'[q] = signReq[q]
      BY <1>5, <2>1 DEF ResolveWrite, WriteResolution, IInv, TypeOK, CachesTypeOK
    <3>2. LeftOf(r)' = LeftOf(r)
      BY <1>5, <2>1, ResolvedLeft
    <3> QED
      BY <3>1, <3>2 DEF LeftOf
  <2>7. \A q \in Posts \ {p} : HandlerOk(q)'
    <3>1. \A q \in Requests : Alike(q)
      BY <2>2, <2>6
    <3> QED
      BY <1>0, <1>a, <2>3, <3>1
  <2>8. HandlerOk(p)'
    <3>1. /\ post[p].rec # NoRecord /\ post[p].rec.user = issued[r].user
          /\ post[p].rec.amount = Attributed(issued[r].plan, issued[r].step)
          /\ Resolution(post[p].answer) \in accepted[r]
          /\ post[p].user = issued[r].user
          /\ post[p].refused => LeftOf(r) = 0
      BY <1>0, <1>5, <2>1, <2>4 DEF ResolveWrite, At
    <3> QED
      BY <2>1, <2>2, <2>5, <2>6, <3>1 DEF IsIssued
  <2> QED
    BY <1>0, <2>7, <2>8
<1>6. ASSUME NEW p \in Posts, ChargeRead(p)
      PROVE  PostInv'
  <2>1. UNCHANGED <<issued, signReq, accepted, miniReq>>
    BY <1>6 DEF ChargeRead, cacheVars
  <2>2. \A q \in Posts \ {p} : post'[q] = post[q]
    BY <1>0, <1>6 DEF ChargeRead
  <2>3. post[p] \in PostState /\ post[p].pc = "charge"
    BY <1>0, <1>6 DEF ChargeRead, At
  <2>4. /\ \A q \in Posts \ {p} : HandlerOk(q)'
        /\ HandlerOk(p) /\ post[p] # NoRecord
    <3>1. \A q \in Requests : Alike(q)
      BY <2>1 DEF LeftOf
    <3> QED
      BY <1>0, <1>6, <1>a, <2>2, <3>1 DEF ChargeRead, At
  <2>5. LeftOf(post[p].req)' = LeftOf(post'[p].req)
    BY <2>1 DEF LeftOf
  <2>6. CASE post'[p] = Done(post[p], FALSE)
    <3>1. /\ post'[p].req = post[p].req /\ post'[p].pc = "find" /\ ~post'[p].refused
          /\ post'[p].user = post[p].user
      BY <2>3, <2>6 DEF Done, PostState
    <3>2. HandlerOk(p)'
      BY <2>1, <2>4, <3>1 DEF IsIssued
    <3> QED
      BY <1>0, <2>4, <3>2
  <2>7. CASE post'[p] # Done(post[p], FALSE)
    <3>1. /\ Charges(p)
          /\ post'[p] = [post[p] EXCEPT !.pc = "update",
                                        !.read = delegation[post[p].user].spent]
      BY <1>0, <1>6, <2>7 DEF ChargeRead
    <3>2. /\ post'[p].req = post[p].req /\ post'[p].pc = "update"
          /\ post'[p].rec = post[p].rec /\ post'[p].answer = post[p].answer
          /\ post'[p].user = post[p].user /\ post'[p].refused = post[p].refused
      BY <2>3, <3>1 DEF PostState
    <3>3. \A q : LeftOf(q)' = LeftOf(q)
      BY <2>1 DEF LeftOf
    <3>4. HandlerOk(p)'
      BY <2>1, <2>3, <2>4, <3>1, <3>2, <3>3 DEF IsIssued, Charges
    <3> QED
      BY <1>0, <2>4, <3>4
  <2> QED
    BY <2>6, <2>7
<1>7. ASSUME NEW p \in Posts, ChargeWrite(p)
      PROVE  PostInv'
  <2>1. UNCHANGED <<issued, signReq, accepted, miniReq>>
    BY <1>7 DEF ChargeWrite, cacheVars
  <2>2. \A q \in Posts \ {p} : post'[q] = post[q]
    BY <1>0, <1>7 DEF ChargeWrite
  <2>3. post[p] \in PostState /\ post'[p] = Done(post[p], FALSE)
    BY <1>0, <1>7 DEF ChargeWrite, At
  <2>4. /\ post'[p].req = post[p].req /\ post'[p].pc = "find" /\ ~post'[p].refused
        /\ post'[p].user = post[p].user
    BY <2>3 DEF Done, PostState
  <2>5. HandlerOk(p)'
    BY <1>0, <1>7, <2>1, <2>4 DEF IsIssued, ChargeWrite, At
  <2>6. \A q \in Requests : Alike(q)
    BY <2>1 DEF LeftOf
  <2> QED
    BY <1>0, <1>a, <2>2, <2>5, <2>6
<1>8. ASSUME NEW p \in Posts, FindEntry(p) \/ DeleteEntry(p) \/ DequeueEntry(p)
                                \/ DeletionFails(p) \/ PostFails(p)
      PROVE  PostInv'
  <2>1. /\ \A q \in Requests : Alike(q)
        /\ UNCHANGED <<issued, signReq>>
    <3>1. CASE PostFails(p)
      BY <3>1 DEF PostFails, cacheVars, LeftOf
    <3>2. CASE ~PostFails(p)
      BY <1>8, <3>2, DeletionMoves DEF LeftOf, IInv
    <3> QED
      BY <3>1, <3>2
  <2>2. \A q \in Posts \ {p} : post'[q] = post[q]
    BY <1>0, <1>8 DEF FindEntry, DeleteEntry, DequeueEntry, DeletionFails, PostFails,
                      FinalReply
  <2>3. CASE post'[p] = NoRecord
    BY <1>0, <1>a, <2>1, <2>2, <2>3
  <2>4. CASE post'[p] # NoRecord
    <3>1. FindEntry(p) \/ DeleteEntry(p)
      BY <1>0, <1>8, <2>4 DEF DequeueEntry, DeletionFails, PostFails, FinalReply
    <3>2. /\ post[p] # NoRecord /\ post[p].req \in Requests
          /\ post'[p].pc \in {"delete", "dequeue"}
          /\ post'[p].req = post[p].req /\ post'[p].user = post[p].user
          /\ post'[p].refused = post[p].refused
      BY <2>4, <3>1, DeletionMoves DEF IInv
    <3>3. post'[p].pc = "dequeue" => miniReq'[post[p].req] = NoRecord
      <4>1. CASE FindEntry(p)
        <5>1. post'[p] = [post[p] EXCEPT !.pc = "delete"]
          BY <1>0, <2>4, <4>1 DEF FindEntry, FinalReply
        <5>2. post[p] \in PostState
          BY <1>0, <3>2
        <5>3. post'[p].pc = "delete"
          BY <5>1, <5>2 DEF PostState
        <5> QED
          BY <5>3
      <4>2. CASE DeleteEntry(p)
        BY <3>2, <4>2 DEF DeleteEntry, DropMini, IInv, TypeOK, CachesTypeOK
      <4> QED
        BY <3>1, <4>1, <4>2
    <3>4. HandlerOk(p)'
      BY <1>0, <2>1, <3>2, <3>3 DEF IsIssued
    <3> QED
      BY <1>0, <1>a, <2>1, <2>2, <3>4
  <2> QED
    BY <2>3, <2>4
<1>9. CASE Tick
  <2>1. UNCHANGED <<issued, accepted>>
    BY <1>9 DEF Tick
  <2>2. ASSUME NEW q \in Posts, post'[q] # NoRecord
        PROVE  HandlerOk(q)'
    <3>1. /\ post[q] # NoRecord /\ post[q] \in PostState
          /\ post'[q] = [post[q] EXCEPT !.rec = AgedCopy(@)]
      BY <1>0, <1>9, <2>2 DEF Tick
    <3>2. PICK r \in Requests : r = post[q].req
      BY <1>0, <3>1
    <3>3. /\ post'[q].req = r /\ post'[q].pc = post[q].pc
          /\ post'[q].answer = post[q].answer /\ post'[q].rec = AgedCopy(post[q].rec)
          /\ post'[q].user = post[q].user /\ post'[q].refused = post[q].refused
      BY <3>1, <3>2 DEF PostState
    <3>4. post[q].rec # NoRecord =>
              /\ post'[q].rec # NoRecord /\ post'[q].rec.amount = post[q].rec.amount
              /\ post'[q].rec.user = post[q].rec.user
              /\ post'[q].rec.left = Less(post[q].rec.left)
      <4>1. post[q].rec \in SignRecord \cup {NoRecord}
        BY <3>1 DEF PostState
      <4> QED
        BY <3>3, <4>1, AgedCopyParts
    <3>5. LeftOf(r)' = Less(LeftOf(r))
      BY <1>9, AgedLeft
    <3>6. LeftOf(r) = 0 => LeftOf(r)' = 0
      BY <3>5 DEF Less
    <3>7. miniReq[r] = NoRecord => miniReq'[r] = NoRecord
      BY <1>9 DEF Tick, CachesTick, AgedMini
    <3> QED
      BY <1>0, <2>1, <3>1, <3>2, <3>3, <3>4, <3>5, <3>6, <3>7 DEF IsIssued
  <2> QED
    BY <1>0, <2>2
<1>10. ASSUME UNCHANGED <<post, issued, accepted, signReq, miniReq>>
       PROVE  PostInv'
  <2>1. \A q \in Requests : Alike(q)
    BY <1>10 DEF LeftOf
  <2> QED
    BY <1>0, <1>10, <1>a, <2>1
<1> QED
  BY <1>1, <1>2, <1>3, <1>4, <1>5, <1>6, <1>7, <1>8, <1>9, <1>10, <1>p
     DEF Next, Bot, StartCommand, Poll, BotFails, Post, Grant, FetchNext, vars,
         cacheVars, flowVars

\* No charge or grant makes the ledger exceed what was credited.
LEMMA NextLedgerInv ==
    ASSUME IInv, [Next]_vars
    PROVE  LedgerInv'
<1> DEFINE RowOk(u) == delegation[u] # NoRecord => delegation[u].spent <= credited[u]
           ReadOk(q) == At(q, "update") => /\ delegation[post[q].user] # NoRecord
                                           /\ post[q].read <= credited[post[q].user]
<1>0. /\ \A u \in Users : RowOk(u)
      /\ \A q \in Posts : ReadOk(q)
      /\ (\A u \in Users : RowOk(u)') /\ (\A q \in Posts : ReadOk(q)') => LedgerInv'
      /\ delegation \in [Users -> Delegation \cup {NoRecord}]
      /\ credited \in [Users -> Nat]
      /\ post \in [Posts -> PostState \cup {NoRecord}]
      /\ \A q \in Posts : post[q] # NoRecord => post[q] \in PostState /\ post[q].user \in Users
  BY DEF IInv, LedgerInv, SpentIsBacked, TypeOK, DelegationsTypeOK, PostState
<1>1. ASSUME NEW p \in Posts, NEW r \in Requests, NEW answer \in Answer, Receive(p, r, answer)
      PROVE  LedgerInv'
  <2>1. /\ UNCHANGED <<delegation, credited>> /\ post'[p].pc = "lookup"
        /\ \A q \in Posts \ {p} : post'[q] = post[q]
    BY <1>0, <1>1 DEF Receive
  <2> QED
    BY <1>0, <2>1 DEF At
<1>2. ASSUME NEW p \in Posts,
             Lookup(p) \/ ResolveRead(p) \/ ResolveWrite(p) \/ PostFails(p)
      PROVE  LedgerInv'
  <2>1. UNCHANGED <<delegation, credited>>
    BY <1>2 DEF Lookup, ResolveRead, ResolveWrite, PostFails
  <2>2. \A q \in Posts \ {p} : post'[q] = post[q]
    BY <1>0, <1>2 DEF Lookup, ResolveRead, ResolveWrite, PostFails
  <2>3. ~At(p, "update")'
    <3>1. CASE Lookup(p)
      <4>1. post[p] \in PostState
        BY <1>0, <3>1 DEF Lookup, At
      <4>2. Done(post[p], TRUE).pc = "find"
        BY <4>1 DEF Done, PostState
      <4>3. [post[p] EXCEPT !.pc = "resolve", !.rec = Body(signReq[post[p].req])].pc = "resolve"
        BY <4>1 DEF PostState
      <4> QED
        BY <1>0, <3>1, <4>2, <4>3 DEF Lookup, At
    <3>2. CASE ResolveRead(p)
      BY <1>0, <3>2 DEF ResolveRead, At, PostState
    <3>3. CASE ResolveWrite(p)
      BY <1>0, <3>3 DEF ResolveWrite, At, PostState
    <3>4. CASE PostFails(p)
      BY <1>0, <3>4 DEF PostFails, At
    <3> QED
      BY <1>2, <3>1, <3>2, <3>3, <3>4
  <2> QED
    BY <1>0, <2>1, <2>2, <2>3 DEF At
<1>d. ASSUME NEW p \in Posts, FindEntry(p) \/ DeleteEntry(p) \/ DequeueEntry(p)
                                \/ DeletionFails(p)
      PROVE  LedgerInv'
  <2>1. UNCHANGED <<delegation, credited>> /\ ~At(p, "update")'
    BY <1>d, DeletionMoves DEF At, IInv
  <2>2. \A q \in Posts \ {p} : post'[q] = post[q]
    BY <1>0, <1>d DEF FindEntry, DeleteEntry, DequeueEntry, DeletionFails, FinalReply
  <2> QED
    BY <1>0, <2>1, <2>2 DEF At
<1>3. ASSUME NEW p \in Posts, ChargeRead(p)
      PROVE  LedgerInv'
  <2>1. /\ UNCHANGED <<delegation, credited>>
        /\ \A q \in Posts \ {p} : post'[q] = post[q]
        /\ post[p] \in PostState
    BY <1>0, <1>3 DEF ChargeRead, At
  <2>2. CASE post'[p] = Done(post[p], FALSE)
    <3>1. post'[p].pc = "find"
      BY <2>1, <2>2 DEF Done, PostState
    <3> QED
      BY <1>0, <2>1, <3>1 DEF At
  <2>3. CASE post'[p] # Done(post[p], FALSE)
    <3>1. /\ delegation[post[p].user] # NoRecord
          /\ post'[p] = [post[p] EXCEPT !.pc = "update",
                                        !.read = delegation[post[p].user].spent]
      BY <1>0, <1>3, <2>3 DEF ChargeRead
    <3>2. /\ post'[p].user = post[p].user /\ post'[p].read = delegation[post[p].user].spent
      BY <2>1, <3>1 DEF PostState
    <3>3. ReadOk(p)'
      BY <1>0, <2>1, <3>1, <3>2 DEF PostState
    <3> QED
      BY <1>0, <2>1, <3>3 DEF At
  <2> QED
    BY <2>2, <2>3
<1>4. ASSUME NEW p \in Posts, ChargeWrite(p)
      PROVE  LedgerInv'
  <2>1. PICK u \in Users : u = post[p].user
    BY <1>0, <1>4 DEF ChargeWrite, At
  <2>2. /\ delegation[u] \in Delegation /\ post[p].read <= credited[u]
        /\ post[p].read \in Nat /\ post[p].rec \in SignRecord /\ post[p] \in PostState
    BY <1>0, <1>4, <2>1 DEF ChargeWrite, At, IInv, PostInv, PostState
  <2> DEFINE amount == post[p].rec.amount
  <2>3. amount \in Nat
    BY <2>2 DEF SignRecord
  <2>4. /\ delegation' = [delegation EXCEPT ![u] = [@ EXCEPT !.spent = post[p].read + amount]]
        /\ credited' = [credited EXCEPT ![u] = @ + amount]
        /\ post' = [post EXCEPT ![p] = Done(@, FALSE)]
    BY <1>4, <2>1 DEF ChargeWrite, WriteSpent
  <2>5. /\ delegation'[u].spent = post[p].read + amount
        /\ credited'[u] = credited[u] + amount
        /\ \A v \in Users \ {u} : delegation'[v] = delegation[v] /\ credited'[v] = credited[v]
    BY <1>0, <2>2, <2>4 DEF Delegation
  <2>6. delegation'[u] # NoRecord
    <3>1. delegation'[u] \in Delegation
      BY <1>0, <2>2, <2>3, <2>4 DEF Delegation
    <3> QED
      BY <3>1, NoDelegationAssumption
  <2>7. \A v \in Users : RowOk(v)'
    BY <1>0, <2>2, <2>3, <2>5
  <2>8. ~At(p, "update")' /\ \A q \in Posts \ {p} : post'[q] = post[q]
    BY <1>0, <2>2, <2>4 DEF At, Done, PostState
  <2>9. \A q \in Posts \ {p} : At(q, "update") => post[q].read \in Nat
    BY <1>0 DEF At, PostState
  <2>10. \A v \in Users : credited[v] \in Nat /\ credited[v] <= credited'[v]
    BY <1>0, <2>3, <2>5
  <2>11. ASSUME NEW q \in Posts \ {p}
         PROVE  ReadOk(q)'
    <3>1. SUFFICES ASSUME At(q, "update")
                   PROVE  /\ delegation'[post[q].user] # NoRecord
                          /\ post[q].read <= credited'[post[q].user]
      BY <2>8 DEF At
    <3>2. /\ post[q].user \in Users /\ post[q].read \in Nat
          /\ delegation[post[q].user] # NoRecord
          /\ post[q].read <= credited[post[q].user]
      BY <1>0, <2>9, <3>1 DEF At
    <3>3. credited'[post[q].user] \in Nat
      BY <1>0, <2>3, <2>4, <3>2
    <3> QED
      BY <2>5, <2>6, <2>10, <3>2, <3>3
  <2> QED
    BY <1>0, <2>7, <2>8, <2>11
<1>5. ASSUME NEW u \in Users, NEW limit \in Limits, Grant(u, limit)
      PROVE  LedgerInv'
  <2>1. UNCHANGED <<post, credited>>
    BY <1>5 DEF Grant, flowVars
  <2>2. \A v \in Users \ {u} : delegation'[v] = delegation[v]
    BY <1>0, <1>5 DEF Grant, Upsert
  <2> DEFINE spent == IF delegation[u] # NoRecord /\ delegation[u].limit = limit
                      THEN delegation[u].spent ELSE 0
  <2>3. delegation'[u] = [limit |-> limit, spent |-> spent, left |-> GrantTicks]
    BY <1>0, <1>5 DEF Grant, Upsert
  <2>4. spent \in Nat /\ spent <= credited[u]
    BY <1>0 DEF Delegation
  <2>5. delegation'[u] \in Delegation
    BY <2>3, <2>4, GrantTicksAssumption DEF Delegation
  <2>6. RowOk(u)' /\ delegation'[u] # NoRecord
    BY <2>1, <2>3, <2>4, <2>5, NoDelegationAssumption
  <2> QED
    BY <1>0, <2>1, <2>2, <2>6 DEF At
<1>6. CASE Tick
  <2>1. credited' = credited
    BY <1>6 DEF Tick
  <2>2. \A u \in Users :
            /\ delegation[u] # NoRecord =>
                  delegation'[u] # NoRecord /\ delegation'[u].spent = delegation[u].spent
            /\ delegation[u] = NoRecord => delegation'[u] = NoRecord
    <3>1. ASSUME NEW u \in Users, delegation[u] # NoRecord, delegation[u].left # 0
          PROVE  /\ [delegation[u] EXCEPT !.left = @ - 1] # NoRecord
                 /\ [delegation[u] EXCEPT !.left = @ - 1].spent = delegation[u].spent
      <4>1. delegation[u] \in Delegation
        BY <1>0, <3>1
      <4>2. [delegation[u] EXCEPT !.left = @ - 1] \in Delegation
        BY <3>1, <4>1, GrantTicksAssumption DEF Delegation
      <4> QED
        BY <4>1, <4>2, NoDelegationAssumption DEF Delegation
    <3> QED
      BY <1>6, <3>1 DEF Tick, DelegationsTick
  <2>3. \A q \in Posts : At(q, "update")' =>
            /\ At(q, "update")
            /\ post'[q].user = post[q].user /\ post'[q].read = post[q].read
    BY <1>0, <1>6 DEF Tick, At, PostState
  <2> QED
    BY <1>0, <2>1, <2>2, <2>3 DEF At
<1>7. ASSUME UNCHANGED <<delegation, credited, post>>
      PROVE  LedgerInv'
  BY <1>0, <1>7 DEF At
<1> QED
  BY <1>1, <1>2, <1>3, <1>4, <1>5, <1>6, <1>7, <1>d
     DEF Next, Bot, StartCommand, CreateRecord, Publish, Poll, BotFails, Post, FetchNext, vars,
         flowVars

\* Nothing publishes a request again after its final reply, and an entry that a reply
\* left behind belongs to a record that is not valid any more.
LEMMA NextRepliedNotServed ==
    ASSUME IInv, [Next]_vars
    PROVE  RepliedNotServed'
<1> DEFINE Gone(r) == replied[r] # {} /\ miniReq[r] # NoRecord =>
                          replied[r] = {"kept"} /\ miniReq[r].left = 0
<1>0. /\ \A r \in Requests : Gone(r)
      /\ (\A r \in Requests : Gone(r)') => RepliedNotServed'
      /\ miniReq \in [Requests -> MiniRecord \cup {NoRecord}]
      /\ replied \in [Requests -> SUBSET {"deleted", "kept"}]
      /\ post \in [Posts -> PostState \cup {NoRecord}]
  BY DEF IInv, RepliedNotServed, TypeOK, CachesTypeOK
<1>1. CASE Publish
  <2>1. /\ replied[bot.req] = {} /\ replied' = replied
        /\ \A r \in Requests : r # bot.req => miniReq'[r] = miniReq[r]
    BY <1>0, <1>1 DEF Publish, StoreMini, IInv, BotInv
  <2> QED
    BY <1>0, <2>1
<1>2. ASSUME NEW p \in Posts, FindEntry(p) \/ DeleteEntry(p) \/ DequeueEntry(p)
                                \/ DeletionFails(p)
      PROVE  RepliedNotServed'
  <2>1. PICK r \in Requests : /\ r = post[p].req /\ post[p] # NoRecord
                              /\ \A q \in Requests \ {r} : replied'[q] = replied[q]
                              /\ \A q \in Requests :
                                    miniReq'[q] = miniReq[q] \/ miniReq'[q] = NoRecord
    BY <1>2, DeletionMoves DEF IInv
  <2>2. \A q \in Requests \ {r} : Gone(q)'
    BY <1>0, <2>1
  <2>3. CASE replied'[r] = replied[r]
    BY <1>0, <2>1, <2>2, <2>3
  <2>4. CASE replied'[r] # replied[r]
    <3>1. CASE DeletionFails(p)
      <4>1. /\ miniReq' = miniReq /\ replied'[r] = replied[r] \cup {"kept"}
            /\ LeftOf(r) = 0
        BY <1>0, <2>1, <3>1 DEF DeletionFails, FinalReply, cacheVars, IInv, PostInv, At
      <4>2. miniReq[r] # NoRecord => miniReq[r].left = 0
        <5>1. miniReq[r] # NoRecord =>
                  /\ miniReq[r] \in MiniRecord /\ miniReq[r].left \in Nat
                  /\ miniReq[r].left <= LeftOf(r)
          BY <1>0 DEF MiniRecord, IInv, CacheInv
        <5> QED
          BY <4>1, <5>1
      <4>3. Gone(r)'
        <5>1. CASE replied[r] = {}
          BY <4>1, <4>2, <5>1
        <5>2. CASE replied[r] # {}
          BY <1>0, <4>1, <4>2, <5>2
        <5> QED
          BY <5>1, <5>2
      <4> QED
        BY <1>0, <2>2, <4>3
    <3>2. CASE ~DeletionFails(p)
      <4>1. miniReq'[r] = NoRecord
        <5>1. CASE FindEntry(p)
          BY <1>0, <2>1, <2>4, <5>1 DEF FindEntry, cacheVars
        <5>2. CASE DeleteEntry(p)
          BY <1>0, <2>1, <5>2 DEF DeleteEntry, DropMini
        <5>3. CASE DequeueEntry(p)
          BY <1>0, <2>1, <5>3 DEF DequeueEntry, At, IInv, PostInv
        <5> QED
          BY <1>2, <3>2, <5>1, <5>2, <5>3
      <4> QED
        BY <1>0, <2>2, <4>1
    <3> QED
      BY <3>1, <3>2
  <2> QED
    BY <2>3, <2>4
<1>3. CASE Tick
  <2>1. ASSUME NEW r \in Requests
        PROVE  Gone(r)'
    <3>1. replied' = replied /\ miniReq'[r] = AgedMini(miniReq[r])
      BY <1>3 DEF Tick, CachesTick
    <3>2. CASE miniReq'[r] = NoRecord
      BY <3>2
    <3>3. CASE miniReq'[r] # NoRecord
      <4>1. /\ miniReq[r] # NoRecord /\ miniReq[r] \in MiniRecord
            /\ miniReq'[r] = [miniReq[r] EXCEPT !.left = Less(@), !.ttl = Less(@)]
        BY <1>0, <3>1, <3>3 DEF AgedMini
      <4>2. miniReq'[r].left = Less(miniReq[r].left)
        BY <4>1 DEF MiniRecord
      <4> QED
        BY <1>0, <3>1, <4>1, <4>2 DEF Less
    <3> QED
      BY <3>2, <3>3
  <2> QED
    BY <1>0, <2>1
<1>4. ASSUME UNCHANGED <<miniReq, replied>>
      PROVE  RepliedNotServed'
  BY <1>0, <1>4
<1> QED
  BY <1>1, <1>2, <1>3, <1>4
     DEF Next, Bot, StartCommand, CreateRecord, Poll, BotFails, Receive, Post, Lookup,
         ResolveRead, ResolveWrite, ChargeRead, ChargeWrite, PostFails, Grant, FetchNext, vars,
         cacheVars, flowVars

\* What waitFor concludes from a record is what its status says.
LEMMA PollSeesStatus ==
    ASSUME IInv, Poll, PollResult \in {"approved", "rejected"}
    PROVE  bot.req \in Requests /\ PollResult \in accepted[bot.req]
<1>1. bot.req \in Requests
  BY DEF Poll, IInv, TypeOK, BotInv, BotState
<1>2. signReq[bot.req] # NoRecord /\ signReq[bot.req].status = PollResult
  BY DEF PollResult
<1> QED
  BY <1>1, <1>2 DEF IInv, CacheInv

\* A verdict comes from a status, and a status from an accepted answer.
LEMMA NextVerdictWasAnswered ==
    ASSUME IInv, [Next]_vars
    PROVE  VerdictWasAnswered'
<1>0. /\ \A r \in Requests :
            verdict[r] \in {"approved", "rejected"} => verdict[r] \in accepted[r]
      /\ verdict \in [Requests -> {"none", "approved", "rejected", "expired"}]
      /\ accepted \in [Requests -> SUBSET {"approved", "rejected"}]
  BY DEF IInv, VerdictWasAnswered, TypeOK
<1>1. CASE Poll
  <2>1. accepted' = accepted /\ verdict' = [verdict EXCEPT ![bot.req] = PollResult]
    BY <1>1 DEF Poll
  <2> QED
    BY <1>0, <1>1, <2>1, PollSeesStatus DEF VerdictWasAnswered
<1>2. ASSUME NEW p \in Posts, Lookup(p)
      PROVE  VerdictWasAnswered'
  <2>1. verdict' = verdict /\ \A r \in Requests : accepted[r] \subseteq accepted'[r]
    BY <1>2, LookupAccepts DEF Lookup, IInv
  <2> QED
    BY <1>0, <2>1 DEF VerdictWasAnswered
<1>3. ASSUME UNCHANGED <<verdict, accepted>>
      PROVE  VerdictWasAnswered'
  BY <1>0, <1>3 DEF VerdictWasAnswered
<1> QED
  BY <1>1, <1>2, <1>3
     DEF Next, Bot, StartCommand, CreateRecord, Publish, BotFails, Receive, Post, ResolveRead,
         ResolveWrite, ChargeRead, ChargeWrite, FindEntry, DeleteEntry, DequeueEntry,
         DeletionFails, PostFails, Grant, FetchNext, Tick, vars, flowVars

--------------------------------------------------------------------------------
(* The theorems.                                                           *)

\* The invariant holds of the empty stores.
LEMMA InitIInv == Init => IInv
<1> SUFFICES ASSUME Init PROVE IInv
  OBVIOUS
<1>1. TypeOK
  BY MaxAnswersAssumption
     DEF Init, TypeOK, CachesInit, CachesTypeOK, DelegationsInit, DelegationsTypeOK
<1>2. BotInv /\ IssueInv /\ CacheInv
  BY DEF Init, CachesInit, BotInv, IssueInv, CacheInv, IsIssued
<1>3. PostInv /\ LedgerInv /\ RepliedNotServed /\ VerdictWasAnswered
  BY DEF Init, DelegationsInit, PostInv, LedgerInv, SpentIsBacked, At, RepliedNotServed,
         VerdictWasAnswered
<1> QED
  BY <1>1, <1>2, <1>3 DEF IInv

\* The invariant is inductive.
LEMMA NextIInv == IInv /\ [Next]_vars => IInv'
BY NextType, NextBotInv, NextIssueInv, NextCacheInv, NextPostInv, NextLedgerInv,
   NextRepliedNotServed, NextVerdictWasAnswered
   DEF IInv

\* The inductive invariant holds of every reachable state, whatever the users,
\* plans and limits, however many handlers run, and however long a request lives.
THEOREM Invariance == Spec => []IInv
BY InitIInv, NextIInv, PTL DEF Spec

\* The variables keep their types.
THEOREM TypeCorrect == Spec => []TypeOK
<1>1. IInv => TypeOK
  BY DEF IInv
<1> QED
  BY <1>1, Invariance, PTL

\* What can be served can be answered: GET /request never gives the mini app a
\* request that resolveRequest would not find, or would find expired.
THEOREM ServedResolvable == Spec => []ServedIsResolvable
<1>1. IInv => ServedIsResolvable
  <2> SUFFICES ASSUME IInv, NEW r \in Requests, miniReq[r] # NoRecord, miniReq[r].left > 0
               PROVE  signReq[r] # NoRecord /\ signReq[r].left > 0
    BY DEF ServedIsResolvable
  <2>1. miniReq[r].left <= LeftOf(r)
    BY DEF IInv, CacheInv
  <2>2. miniReq[r].left \in Nat /\ LeftOf(r) \in Nat
    <3>1. signReq[r] \in SignRecord \cup {NoRecord} /\ miniReq[r] \in MiniRecord
      BY DEF IInv, TypeOK, CachesTypeOK
    <3> QED
      BY <3>1, LeftType DEF LeftOf, MiniRecord
  <2> QED
    BY <2>1, <2>2 DEF LeftOf
<1> QED
  BY <1>1, Invariance, PTL

\* A request whose answer got its final reply is never served again: either its entry is
\* gone, or its deletion failed after a refusal and it is past its expiresAt.
THEOREM RepliedIsGone == Spec => []RepliedNotServed
<1>1. IInv => RepliedNotServed
  BY DEF IInv
<1> QED
  BY <1>1, Invariance, PTL

\* waitFor never makes up an answer.
THEOREM VerdictIsGenuine == Spec => []VerdictWasAnswered
<1>1. IInv => VerdictWasAnswered
  BY DEF IInv
<1> QED
  BY <1>1, Invariance, PTL

\* addSpent is reached only for the last transaction of a command, approved, with
\* all the ones before approved and seen by the bot loop.
THEOREM ChargeIsLast == Spec => []ChargedAtTheEnd
<1>1. IInv => ChargedAtTheEnd
  <2> SUFFICES ASSUME IInv, NEW p \in Posts, At(p, "update")
               PROVE  LET i == issued[post[p].req] IN
                      /\ i.step = i.plan.steps
                      /\ "approved" \in accepted[post[p].req]
                      /\ i.prev # NoRecord => verdict[i.prev] = "approved"
    BY DEF ChargedAtTheEnd
  <2> DEFINE i == issued[post[p].req]
  <2>1. /\ post[p].req \in Requests /\ IsIssued(post[p].req) /\ post[p].rec \in SignRecord
        /\ post[p].rec.amount = Attributed(i.plan, i.step) /\ post[p].rec.amount > 0
        /\ Resolution(post[p].answer) \in accepted[post[p].req]
        /\ post[p].answer # "rejected"
    BY DEF At, IInv, PostInv, TypeOK, PostState
  <2>2. i.step = i.plan.steps
    BY <2>1 DEF Attributed
  <2>3. i.prev # NoRecord => verdict[i.prev] = "approved"
    BY <2>1 DEF IInv, IssueInv
  <2> QED
    BY <2>1, <2>2, <2>3 DEF Resolution
<1> QED
  BY <1>1, Invariance, PTL

\* No interleaving of charges and grants leaves more in the ledger than was charged.
THEOREM LedgerIsBacked == Spec => []SpentIsBacked
<1>1. IInv => SpentIsBacked
  BY DEF IInv, LedgerInv
<1> QED
  BY <1>1, Invariance, PTL

--------------------------------------------------------------------------------
(* The signing flow implements StepwiseConsent.                            *)

Current == IF bot = NoRecord THEN NoRecord
           ELSE [steps |-> bot.plan.steps, done |-> bot.step - 1]
Waiting == IF bot = NoRecord THEN NoRecord ELSE bot.req
Asked == {r \in Requests : issued[r] # NoRecord}
Consented == {r \in Requests : "approved" \in accepted[r]}
Passed == {r \in Requests : verdict[r] = "approved"}

\* A step that leaves the mapped variables alone is a stuttering step.
LEMMA Stutter ==
    ASSUME UNCHANGED <<Current, Waiting, Asked, Consented, Passed>>
    PROVE  [Promise!Next]_Promise!vars
BY DEF Promise!vars, Current, Waiting, Asked, Consented, Passed

\* A running command is seen as running: the abstract record is not NoRecord.
LEMMA Running ==
    ASSUME IInv, bot # NoRecord
    PROVE  /\ Current # NoRecord
           /\ Current = [steps |-> bot.plan.steps, done |-> bot.step - 1]
           /\ Current.steps = bot.plan.steps /\ Current.done = bot.step - 1
           /\ bot.step \in Nat \ {0} /\ bot.plan.steps \in Nat \ {0}
<1>1. bot \in BotState
  BY DEF IInv, TypeOK
<1>2. bot.step \in Nat \ {0} /\ bot.plan.steps \in Nat \ {0}
  BY <1>1, PlansAssumption DEF BotState, Plan
<1>3. [steps |-> bot.plan.steps, done |-> bot.step - 1] # NoRecord
  BY NoCurrentAssumption, <1>2
<1> QED
  BY <1>2, <1>3 DEF Current

\* Every step of the signing flow is a step of StepwiseConsent or a stuttering one.
LEMMA StepSimulation ==
    ASSUME IInv, IInv', [Next]_vars
    PROVE  [Promise!Next]_Promise!vars
<1>1. ASSUME NEW u \in Users, NEW plan \in Plans, StartCommand(u, plan)
      PROVE  Promise!Begin
  <2>1. /\ bot = NoRecord /\ UNCHANGED <<issued, accepted, verdict>>
        /\ bot' = [pc |-> "create", user |-> u, plan |-> plan, step |-> 1, req |-> NoRecord,
                   prev |-> NoRecord, deadline |-> 0]
    BY <1>1 DEF StartCommand
  <2>2. bot' # NoRecord
    <3>1. bot' \in BotState
      BY <2>1, SignTtlAssumption DEF BotState
    <3> QED
      BY <3>1, NoBotAssumption
  <2>3. plan.steps \in Nat \ {0}
    BY PlansAssumption DEF Plan
  <2>4. /\ Current = NoRecord /\ Current' = [steps |-> plan.steps, done |-> 0]
        /\ Waiting = NoRecord /\ Waiting' = NoRecord
    BY <2>1, <2>2 DEF Current, Waiting
  <2>5. UNCHANGED <<Asked, Consented, Passed>>
    BY <2>1 DEF Asked, Consented, Passed
  <2>6. Current' \in [steps: Nat \ {0}, done: {0}]
    BY <2>3, <2>4
  <2> QED
    BY <2>4, <2>5, <2>6 DEF Promise!Begin, Current, Waiting, Asked, Consented, Passed
<1>2. ASSUME NEW r \in Requests, CreateRecord(r)
      PROVE  Promise!Ask(r)
  <2>1. /\ bot # NoRecord /\ bot.pc = "create" /\ bot \in BotState /\ bot.req = NoRecord
        /\ issued[r] = NoRecord /\ UNCHANGED <<accepted, verdict>>
        /\ bot' = [bot EXCEPT !.pc = "publish", !.req = r]
    BY <1>2 DEF CreateRecord, IsFresh, Unissued, IInv, TypeOK, BotInv
  <2>2. /\ bot'.plan = bot.plan /\ bot'.step = bot.step /\ bot'.req = r
    BY <2>1 DEF BotState
  <2>3. bot' # NoRecord /\ issued'[r] # NoRecord
    <3>1. bot' \in BotState
      BY <2>1 DEF BotState
    <3>2. [user |-> bot.user, plan |-> bot.plan, step |-> bot.step, prev |-> bot.prev] \in Issue
      BY <2>1 DEF BotState, Issue
    <3> QED
      BY <1>2, <3>1, <3>2, NoBotAssumption, NoRequestAssumption
         DEF CreateRecord, IInv, TypeOK
  <2>4. Asked' = Asked \cup {r} /\ r \notin Asked
    BY <1>2, <2>1, <2>3 DEF Asked, CreateRecord, IInv, TypeOK
  <2>5. Current # NoRecord /\ Current' = Current /\ Waiting = NoRecord /\ Waiting' = r
    BY <2>1, <2>2, <2>3, Running DEF Current, Waiting
  <2>6. UNCHANGED <<Consented, Passed>>
    BY <2>1 DEF Consented, Passed
  <2> QED
    BY <2>4, <2>5, <2>6 DEF Promise!Ask, Current, Waiting, Asked, Consented, Passed
<1>3. ASSUME Publish
      PROVE  Promise!Stop \/ UNCHANGED <<Current, Waiting, Asked, Consented, Passed>>
  <2>1. /\ bot # NoRecord /\ bot \in BotState /\ UNCHANGED <<issued, accepted, verdict>>
    BY <1>3 DEF Publish, IInv, TypeOK
  <2>2. UNCHANGED <<Asked, Consented, Passed>>
    BY <2>1 DEF Asked, Consented, Passed
  <2>3. CASE bot' = NoRecord
    <3>1. Current # NoRecord /\ Current' = NoRecord /\ Waiting' = NoRecord
      BY <2>1, <2>3, Running DEF Current, Waiting
    <3> QED
      BY <2>2, <3>1 DEF Promise!Stop, Current, Waiting, Asked, Consented, Passed
  <2>4. CASE bot' # NoRecord
    <3>1. bot'.plan = bot.plan /\ bot'.step = bot.step /\ bot'.req = bot.req
      BY <1>3, <2>1, <2>4 DEF Publish, BotState
    <3> QED
      BY <2>1, <2>2, <2>4, <3>1 DEF Current, Waiting
  <2> QED
    BY <2>3, <2>4
<1>4. ASSUME Poll
      PROVE  Promise!Advance \/ Promise!Stop
  <2>1. /\ bot # NoRecord /\ bot \in BotState /\ bot.req \in Requests
        /\ verdict' = [verdict EXCEPT ![bot.req] = PollResult]
        /\ verdict[bot.req] = "none" /\ UNCHANGED <<issued, accepted>>
    BY <1>4 DEF Poll, IInv, TypeOK, BotInv, BotState
  <2>2. Current # NoRecord /\ Waiting = bot.req
    BY <2>1, Running DEF Waiting
  <2>3. UNCHANGED <<Asked, Consented>>
    BY <2>1 DEF Asked, Consented
  <2>4. CASE PollResult # "approved"
    <3>1. bot' = NoRecord
      BY <1>4, <2>4 DEF Poll
    <3>2. Current' = NoRecord /\ Waiting' = NoRecord
      BY <3>1 DEF Current, Waiting
    <3>3. Passed' = Passed
      BY <2>1, <2>4 DEF Passed, IInv, TypeOK
    <3> QED
      BY <2>2, <2>3, <3>2, <3>3 DEF Promise!Stop, Current, Waiting, Asked, Consented, Passed
  <2>5. CASE PollResult = "approved"
    <3>1. Waiting \in Consented
      BY <1>4, <2>1, <2>2, <2>5, PollSeesStatus DEF Consented
    <3>2. Passed' = Passed \cup {Waiting}
      BY <2>1, <2>2, <2>5 DEF Passed, IInv, TypeOK
    <3>3. CASE bot' = NoRecord
      <4>1. Current' = NoRecord /\ Waiting' = NoRecord
        BY <3>3 DEF Current, Waiting
      <4> QED
        BY <2>2, <2>3, <3>1, <3>2, <4>1
           DEF Promise!Advance, Current, Waiting, Asked, Consented, Passed
    <3>4. CASE bot' # NoRecord
      <4>1. bot' = NextStep /\ bot.step # bot.plan.steps
        BY <1>4, <3>4 DEF Poll, NextStep
      <4>2. bot'.step = bot.step + 1 /\ bot'.plan = bot.plan /\ bot'.req = NoRecord
        BY <2>1, <3>4, <4>1 DEF NextStep, BotState
      <4>3. /\ Current = [steps |-> bot.plan.steps, done |-> bot.step - 1]
            /\ Current' = [steps |-> bot.plan.steps, done |-> (bot.step + 1) - 1]
            /\ Waiting' = NoRecord
        BY <2>1, <3>4, <4>2 DEF Current, Waiting
      <4>4. /\ bot.step \in Nat \ {0} /\ bot.plan.steps \in Nat \ {0}
            /\ bot.step <= bot.plan.steps
        BY <2>1, Running DEF IInv, BotInv
      <4>5. (bot.step + 1) - 1 = (bot.step - 1) + 1 /\ (bot.step - 1) + 1 < bot.plan.steps
        BY <4>1, <4>4
      <4>6. /\ Current.done + 1 < Current.steps
            /\ Current' = [Current EXCEPT !.done = @ + 1]
        BY <4>3, <4>5
      <4> QED
        BY <2>2, <2>3, <3>1, <3>2, <4>3, <4>6
           DEF Promise!Advance, Current, Waiting, Asked, Consented, Passed
    <3> QED
      BY <3>3, <3>4
  <2> QED
    BY <2>4, <2>5
<1>5. ASSUME BotFails
      PROVE  Promise!Stop
  <2>1. bot # NoRecord /\ bot' = NoRecord /\ UNCHANGED <<issued, accepted, verdict>>
    BY <1>5 DEF BotFails
  <2>2. Current # NoRecord /\ Current' = NoRecord /\ Waiting' = NoRecord
    BY <2>1, Running DEF Current, Waiting
  <2>3. UNCHANGED <<Asked, Consented, Passed>>
    BY <2>1 DEF Asked, Consented, Passed
  <2> QED
    BY <2>2, <2>3 DEF Promise!Stop, Current, Waiting, Asked, Consented, Passed
<1>6. ASSUME NEW p \in Posts, Lookup(p)
      PROVE  \/ \E r \in Requests : Promise!Consent(r)
             \/ UNCHANGED <<Current, Waiting, Asked, Consented, Passed>>
  <2>1. PICK r \in Requests : r = post[p].req /\ issued[r] # NoRecord
    BY <1>6 DEF Lookup, At, IInv, TypeOK, PostInv, PostState, IsIssued
  <2>2. UNCHANGED <<bot, issued, verdict>>
    BY <1>6 DEF Lookup
  <2>3. UNCHANGED <<Current, Waiting, Asked, Passed>> /\ r \in Asked
    BY <2>1, <2>2 DEF Current, Waiting, Asked, Passed
  <2>4. CASE accepted' = [accepted EXCEPT ![r] = @ \cup {"approved"}]
    <3>1. Consented' = Consented \cup {r}
      BY <2>1, <2>4 DEF Consented, IInv, TypeOK
    <3>2. Promise!Consent(r)
      BY <2>3, <3>1 DEF Promise!Consent, Current, Waiting, Asked, Consented, Passed
    <3> QED
      BY <2>1, <3>2
  <2>5. CASE accepted' = accepted \/ accepted' = [accepted EXCEPT ![r] = @ \cup {"rejected"}]
    <3>1. Consented' = Consented
      BY <2>1, <2>5 DEF Consented, IInv, TypeOK
    <3> QED
      BY <2>3, <3>1
  <2> QED
    BY <1>6, <2>1, <2>4, <2>5 DEF Lookup, Resolution
<1>7. ASSUME UNCHANGED <<bot, issued, accepted, verdict>>
      PROVE  UNCHANGED <<Current, Waiting, Asked, Consented, Passed>>
  BY <1>7 DEF Current, Waiting, Asked, Consented, Passed
<1>8. ASSUME Tick
      PROVE  UNCHANGED <<Current, Waiting, Asked, Consented, Passed>>
  <2>1. UNCHANGED <<issued, accepted, verdict>>
    BY <1>8 DEF Tick
  <2>2. CASE bot = NoRecord
    BY <1>8, <2>1, <2>2 DEF Tick, Current, Waiting, Asked, Consented, Passed
  <2>3. CASE bot # NoRecord
    <3>1. bot \in BotState /\ bot' = [bot EXCEPT !.deadline = Less(@)]
      BY <1>8, <2>3 DEF Tick, IInv, TypeOK
    <3>2. bot'.plan = bot.plan /\ bot'.step = bot.step /\ bot'.req = bot.req
      BY <3>1 DEF BotState
    <3>3. bot' # NoRecord
      <4>1. Less(bot.deadline) \in 0..SignTtl
        BY <3>1, SignTtlAssumption DEF BotState, Less
      <4>2. bot' \in BotState
        BY <3>1, <4>1 DEF BotState
      <4> QED
        BY <4>2, NoBotAssumption
    <3> QED
      BY <2>1, <2>3, <3>2, <3>3 DEF Current, Waiting, Asked, Consented, Passed
  <2> QED
    BY <2>2, <2>3
<1>9. CASE Bot
  <2>1. CASE \E u \in Users, plan \in Plans : StartCommand(u, plan)
    BY <1>1, <2>1 DEF Promise!Next
  <2>2. CASE \E r \in Requests : CreateRecord(r)
    BY <1>2, <2>2 DEF Promise!Next
  <2>3. CASE Publish
    BY <1>3, <2>3, Stutter DEF Promise!Next
  <2>4. CASE Poll
    BY <1>4, <2>4 DEF Promise!Next
  <2>5. CASE BotFails
    BY <1>5, <2>5 DEF Promise!Next
  <2> QED
    BY <1>9, <2>1, <2>2, <2>3, <2>4, <2>5 DEF Bot
<1>10. CASE \E p \in Posts : Lookup(p)
  BY <1>6, <1>10, Stutter DEF Promise!Next
<1>11. CASE Tick
  BY <1>8, <1>11, Stutter
<1>12. CASE ~Bot /\ ~(\E p \in Posts : Lookup(p)) /\ ~Tick
  <2>1. UNCHANGED <<bot, issued, accepted, verdict>>
    BY <1>12
       DEF Next, Receive, Post, ResolveRead, ResolveWrite, ChargeRead, ChargeWrite,
           FindEntry, DeleteEntry, DequeueEntry, DeletionFails, PostFails, Grant, FetchNext,
           vars, flowVars
  <2> QED
    BY <1>7, <2>1, Stutter
<1> QED
  BY <1>9, <1>10, <1>11, <1>12

\* The initial state is one of StepwiseConsent's.
LEMMA InitSimulation == Init => Promise!Init
BY DEF Init, Promise!Init

\* The signing flow implements StepwiseConsent: a step is put to the user only
\* after the user has consented to the step before, one command at a time.
THEOREM Refinement == Spec => ImplementsStepwiseConsent
<1>1. IInv /\ IInv' /\ [Next]_vars => [Promise!Next]_Promise!vars
  BY StepSimulation
<1> QED
  BY <1>1, Invariance, InitSimulation, PTL DEF Spec, ImplementsStepwiseConsent, Promise!Spec
================================================================================
