------------------------------ MODULE SigningFlow ------------------------------
(***************************************************************************)
(* One signature, end to end.                                              *)
(*                                                                         *)
(* The worker's bot loop takes one chat update at a time.  A command that  *)
(* moves money passes the Aegis Guard (or not: see Guarded), creates a     *)
(* signing record, publishes it to the mini app and, for swaps and yield   *)
(* operations, polls the record until it is resolved before it creates the *)
(* next step (SwapCapability.run, YieldCapability.executeSignSteps).       *)
(* /send hands its single request over and does not wait.                  *)
(*                                                                         *)
(* The user's mini app, outside this repository, is served the request,    *)
(* signs, and answers with POST /response.  Any HTTP replica may handle an *)
(* answer, several at once; a handler yields at every await, so each Redis *)
(* or Postgres command of it is a step of its own.                         *)
(*                                                                         *)
(* Everything can fail: a handler or the bot loop stops at any await (an   *)
(* exception from Redis, Postgres or Telegram, or its process going away), *)
(* and what it has written stays.                                          *)
(***************************************************************************)
EXTENDS RequestCaches, TokenDelegations, FiniteSets

CONSTANTS Posts,       \* slots for concurrent POST /response handlers
          Plans,       \* the commands the users may give
          MaxAnswers   \* bound: POST /response calls

VARIABLES bot,         \* the command the bot loop is executing, or NoRecord
          post,        \* the POST /response handlers
          issued,      \* history: what each request was created for
          accepted,    \* history: the answers resolveRequest accepted
          verdict,     \* history: what waitFor returned for each request
          replied,     \* history: what had become of its entry when an answer to a
                       \* request got its final reply
          credited,    \* history: the sum of the amounts addSpent has written
          answers      \* the number of POST /response calls so far

flowVars == <<bot, post, issued, accepted, verdict, replied, credited, answers>>
vars == <<cacheVars, delegation, flowVars>>

--------------------------------------------------------------------------------
(* Commands.                                                               *)

\* kind    what the user asked for
\* steps   the transactions it takes
\* amount  what it spends of the delegated token
\* checked the amount the Aegis Guard is asked about.  It differs from amount
\*         for a /send whose manifest has no resolver fields: its partialParams
\*         carry no amountRaw, and the guard is asked about "0".
Plan == [kind: {"swap", "nativeSwap", "deposit", "withdraw", "send", "confirmedSend"},
         steps: Nat \ {0}, amount: Nat, checked: Nat]

ASSUME PlansAssumption == Plans \subseteq Plan
ASSUME MaxAnswersAssumption == MaxAnswers \in Nat

\* Only swaps and sends of an ERC-20 token ask the guard; yield deposits do not.
Guarded(plan) == plan.kind \in {"swap", "send"}
Waits(plan) == plan.kind \notin {"send", "confirmedSend"}
\* A swap gives up on a step that was approved without a transaction hash; a
\* yield operation goes on.
NeedsHash(plan) == plan.kind \in {"swap", "nativeSwap"}
\* Mutant of Attributed: every step of a command carries the amount.
AttributedToEveryStep(plan, step) ==
    IF plan.kind \in {"swap", "deposit", "send"} THEN plan.amount ELSE 0

\* The record of the last step, and no other, carries the amount.
Attributed(plan, step) ==
    IF step = plan.steps /\ plan.kind \in {"swap", "deposit", "send"}
    THEN plan.amount ELSE 0

Issue == [user: Users, plan: Plans, step: Nat \ {0}, prev: Requests \cup {NoRecord}]

ASSUME NoRequestAssumption == NoRecord \notin Requests /\ NoRecord \notin Issue

Unissued == {r \in Requests : issued[r] = NoRecord}
\* Ids are handed out in order of creation.
IsFresh(r) == r \in Unissued /\ \A q \in Unissued : r <= q

--------------------------------------------------------------------------------
(* The bot loop: one command at a time.                                    *)

BotState == [pc: {"create", "publish", "wait"}, user: Users, plan: Plans,
             step: Nat \ {0}, req: Requests \cup {NoRecord}, prev: Requests \cup {NoRecord},
             deadline: 0..SignTtl]

ASSUME NoBotAssumption == NoRecord \notin BotState

\* The guard reads the delegation once, before the quote and long before the
\* amount is recorded.  When it refuses, the user is sent a re-approval request
\* and the command is over: nothing modelled here changes.
StartCommand(u, plan) ==
    /\ bot = NoRecord
    /\ Cardinality(Unissued) >= plan.steps
    /\ Guarded(plan) => GuardPasses(u, plan.checked)
    /\ bot' = [pc |-> "create", user |-> u, plan |-> plan, step |-> 1,
               req |-> NoRecord, prev |-> NoRecord, deadline |-> 0]
    /\ UNCHANGED <<cacheVars, delegation, post, issued, accepted, verdict,
                   replied, credited, answers>>

\* The signing record is written first ...
CreateRecord(r) ==
    /\ bot # NoRecord /\ bot.pc = "create" /\ IsFresh(r)
    /\ SaveSigning(r, bot.user, Attributed(bot.plan, bot.step))
    /\ issued' = [issued EXCEPT ![r] = [user |-> bot.user, plan |-> bot.plan,
                                        step |-> bot.step, prev |-> bot.prev]]
    /\ bot' = [bot EXCEPT !.pc = "publish", !.req = r]
    /\ UNCHANGED <<miniReq, signQueue, delegation, post, accepted, verdict,
                   replied, credited, answers>>

\* Mutant of Publish: the mini-app entry gets an expiresAt of its own.
PublishWithOwnExpiry ==
    /\ bot # NoRecord /\ bot.pc = "publish"
    /\ StoreMini(bot.req, bot.user, SignTtl)
    /\ bot' = IF Waits(bot.plan)
              THEN [bot EXCEPT !.pc = "wait", !.deadline = SignTtl]
              ELSE NoRecord
    /\ UNCHANGED <<signReq, delegation, post, issued, accepted, verdict,
                   replied, credited, answers>>

\* ... and then the mini-app entry, which makes the request visible.  The entry
\* carries the record's expiresAt.  `left` of the record is what remains of it;
\* the key may be gone already if storing was slow.
Publish ==
    /\ bot # NoRecord /\ bot.pc = "publish"
    /\ StoreMini(bot.req, bot.user,
                 IF signReq[bot.req] = NoRecord THEN 0 ELSE signReq[bot.req].left)
    /\ bot' = IF Waits(bot.plan)
              THEN [bot EXCEPT !.pc = "wait", !.deadline = SignTtl]
              ELSE NoRecord
    /\ UNCHANGED <<signReq, delegation, post, issued, accepted, verdict,
                   replied, credited, answers>>

\* Mutant of PollResult: a record that is gone counts as refused.
PollResultPessimistic ==
    IF signReq[bot.req] = NoRecord THEN "rejected" ELSE signReq[bot.req].status

\* Mutant of PollResult: the loop knows no deadline and waits for an answer.
PollResultPatient ==
    IF signReq[bot.req] = NoRecord THEN "pending" ELSE signReq[bot.req].status

\* What one round of the waitFor loop concludes.  At or after its deadline it
\* does not look any more.
PollResult ==
    LET rec == signReq[bot.req] IN
    IF bot.deadline = 0 \/ rec = NoRecord THEN "expired"
    ELSE IF rec.status # "pending" THEN rec.status
    ELSE IF rec.left = 0 THEN "expired"
    ELSE "pending"

\* Mutant of NextStep: off by one, the loop runs past the last step.
NextStepPastTheEnd ==
    IF bot.step > bot.plan.steps THEN NoRecord
    ELSE [bot EXCEPT !.pc = "create", !.step = @ + 1, !.prev = bot.req,
                     !.req = NoRecord, !.deadline = 0]

\* After an approved step the loop goes on with the next one, or is done.
NextStep ==
    IF bot.step = bot.plan.steps THEN NoRecord
    ELSE [bot EXCEPT !.pc = "create", !.step = @ + 1, !.prev = bot.req,
                     !.req = NoRecord, !.deadline = 0]

\* Mutant of Poll: only a refusal ends the command.
PollUnlessRejected ==
    /\ bot # NoRecord /\ bot.pc = "wait"
    /\ PollResult # "pending"
    /\ verdict' = [verdict EXCEPT ![bot.req] = PollResult]
    /\ bot' = IF PollResult # "rejected" THEN NextStep ELSE NoRecord
    /\ UNCHANGED <<cacheVars, delegation, post, issued, accepted, replied, credited,
                   answers>>

Poll ==
    /\ bot # NoRecord /\ bot.pc = "wait"
    /\ PollResult # "pending"
    /\ verdict' = [verdict EXCEPT ![bot.req] = PollResult]
    /\ bot' = IF PollResult = "approved"
                 /\ (NeedsHash(bot.plan) => signReq[bot.req].hashed)
              THEN NextStep ELSE NoRecord
    /\ UNCHANGED <<cacheVars, delegation, post, issued, accepted, replied, credited,
                   answers>>

\* An exception from Redis, Postgres or Telegram ends the command, and so does a
\* restart of the worker; the records it wrote stay.
BotFails ==
    /\ bot # NoRecord
    /\ bot' = NoRecord
    /\ UNCHANGED <<cacheVars, delegation, post, issued, accepted, verdict,
                   replied, credited, answers>>

Bot == \/ \E u \in Users, plan \in Plans : StartCommand(u, plan)
       \/ \E r \in Requests : CreateRecord(r)
       \/ Publish
       \/ Poll
       \/ BotFails

--------------------------------------------------------------------------------
(* POST /response for a request of type "sign".                            *)

\* What the mini app reports: the transaction's hash, success without a hash, or a
\* refusal or failure (`rejected`).
Answer == {"hash", "noHash", "rejected"}

\* rec is the signing record as the handler last read it, read the spent_raw it read
\* in addSpent, refused that resolveRequest threw NOT_FOUND, EXPIRED or FORBIDDEN.
PostState == [pc: {"lookup", "resolve", "write", "charge", "update",
                   "find", "delete", "dequeue"},
              req: Requests, user: Users, answer: Answer,
              rec: SignRecord \cup {NoRecord}, read: Nat,
              refused: BOOLEAN]

ASSUME NoPostAssumption == NoRecord \notin PostState

\* The handler finds the mini-app entry, and it belongs to the caller.  (404 and
\* 403 change nothing.)  Slots are only names: it takes the first that is free.
Receive(p, r, answer) ==
    /\ post[p] = NoRecord
    /\ p = CHOOSE q \in Posts : post[q] = NoRecord
    /\ answers < MaxAnswers
    /\ miniReq[r] # NoRecord
    /\ post' = [post EXCEPT ![p] =
                   [pc |-> "lookup", req |-> r, user |-> miniReq[r].user,
                    answer |-> answer, rec |-> NoRecord, read |-> 0,
                    refused |-> FALSE]]
    /\ answers' = answers + 1
    /\ UNCHANGED <<cacheVars, delegation, bot, issued, accepted, verdict, replied,
                   credited>>

Resolution(answer) == IF answer = "rejected" THEN "rejected" ELSE "approved"

At(p, pc) == post[p] # NoRecord /\ post[p].pc = pc

\* All that is left to do is to delete the entry and to reply, for which only req and
\* refused count.
Done(h, refused) == [h EXCEPT !.pc = "find", !.answer = "rejected", !.rec = NoRecord,
                              !.read = 0, !.refused = refused]

\* The final reply, and what the handler knows of the entry: "deleted" or "kept".
FinalReply(p, entry) ==
    /\ post' = [post EXCEPT ![p] = NoRecord]
    /\ replied' = [replied EXCEPT ![post[p].req] = @ \cup {entry}]

\* resolveRequest up to its checks.  It does not ask whether the record is still
\* pending.  A record that is missing or expired makes it throw, and the handler
\* goes to the clean-up.
Lookup(p) ==
    LET rec == signReq[post[p].req] IN
    /\ At(p, "lookup")
    /\ IF rec # NoRecord /\ rec.user = post[p].user /\ rec.left > 0
       THEN /\ post' = [post EXCEPT ![p] = [@ EXCEPT !.pc = "resolve", !.rec = Body(rec)]]
            /\ accepted' = [accepted EXCEPT ![post[p].req] = @ \cup
                  {Resolution(post[p].answer)}]
       ELSE /\ post' = [post EXCEPT ![p] = Done(@, TRUE)]
            /\ UNCHANGED accepted
    /\ UNCHANGED <<cacheVars, delegation, bot, issued, verdict, replied, credited,
                   answers>>

\* cache.resolve reads the record again; if the key is gone it returns and the
\* handler carries on as if the record had been written.
ResolveRead(p) ==
    /\ At(p, "resolve")
    /\ post' = IF signReq[post[p].req] = NoRecord
               THEN [post EXCEPT ![p] = [@ EXCEPT !.pc = "charge"]]
               ELSE [post EXCEPT ![p] =
                        [@ EXCEPT !.pc = "write", !.rec = Body(signReq[post[p].req])]]
    /\ UNCHANGED <<cacheVars, delegation, bot, issued, accepted, verdict,
                   replied, credited, answers>>

ResolveWrite(p) ==
    /\ At(p, "write")
    /\ WriteResolution(post[p].req, post[p].rec, Resolution(post[p].answer),
                       post[p].answer = "hash")
    /\ post' = [post EXCEPT ![p] = [@ EXCEPT !.pc = "charge"]]
    /\ UNCHANGED <<miniReq, signQueue, delegation, bot, issued, accepted, verdict,
                   replied, credited, answers>>

\* resolveRequest attributes the spend of an approved answer.
Charges(p) == post[p].answer # "rejected" /\ post[p].rec.amount > 0

\* addSpent reads the row.  Without a charge, a row or a working database the
\* handler goes on (the exception is logged and swallowed).
ChargeRead(p) ==
    /\ At(p, "charge")
    /\ \/ /\ Charges(p) /\ delegation[post[p].user] # NoRecord
          /\ post' = [post EXCEPT ![p] =
                [@ EXCEPT !.pc = "update", !.read = delegation[post[p].user].spent]]
       \/ post' = [post EXCEPT ![p] = Done(@, FALSE)]
    /\ UNCHANGED <<cacheVars, delegation, bot, issued, accepted, verdict,
                   replied, credited, answers>>

ChargeWrite(p) ==
    /\ At(p, "update")
    /\ WriteSpent(post[p].user, post[p].read, post[p].rec.amount)
    /\ credited' = [credited EXCEPT ![post[p].user] = @ + post[p].rec.amount]
    /\ post' = [post EXCEPT ![p] = Done(@, FALSE)]
    /\ UNCHANGED <<cacheVars, bot, issued, accepted, verdict, replied, answers>>

\* The mini-app entry is deleted after a resolution, and after NOT_FOUND, EXPIRED and
\* FORBIDDEN as well, with three commands: GET, ...  When that finds nothing, the DEL
\* that follows has nothing to delete, as an id is stored only once, and there is no
\* ZREM: the handler replies.
FindEntry(p) ==
    /\ At(p, "find")
    /\ IF miniReq[post[p].req] # NoRecord
       THEN /\ post' = [post EXCEPT ![p] = [@ EXCEPT !.pc = "delete"]]
            /\ UNCHANGED replied
       ELSE FinalReply(p, "deleted")
    /\ UNCHANGED <<cacheVars, delegation, bot, issued, accepted, verdict, credited,
                   answers>>

\* ... DEL, ...
DeleteEntry(p) ==
    /\ At(p, "delete")
    /\ DropMini(post[p].req)
    /\ post' = [post EXCEPT ![p] = [@ EXCEPT !.pc = "dequeue"]]
    /\ UNCHANGED <<signReq, signQueue, delegation, bot, issued, accepted, verdict,
                   replied, credited, answers>>

\* ... and ZREM.  Then the handler replies.
DequeueEntry(p) ==
    /\ At(p, "dequeue")
    /\ Dequeue(post[p].user, post[p].req)
    /\ FinalReply(p, "deleted")
    /\ UNCHANGED <<signReq, miniReq, delegation, bot, issued, accepted, verdict,
                   credited, answers>>

\* Mutant of DeletionFails: a failing delete is swallowed after a resolution, too.
DeletionAlwaysSwallowed(p) ==
    /\ \E pc \in {"find", "delete", "dequeue"} : At(p, pc)
    /\ FinalReply(p, "kept")
    /\ UNCHANGED <<cacheVars, delegation, bot, issued, accepted, verdict, credited,
                   answers>>

\* One of the three fails.  After a refusal that is swallowed and the reply goes out
\* all the same; after a resolution it is an exception like any other (PostFails).
DeletionFails(p) ==
    /\ \E pc \in {"find", "delete", "dequeue"} : At(p, pc)
    /\ post[p].refused
    /\ FinalReply(p, "kept")
    /\ UNCHANGED <<cacheVars, delegation, bot, issued, accepted, verdict, credited,
                   answers>>

\* An exception of Redis that is not swallowed (500, which is no final reply), or the
\* replica stops.
PostFails(p) ==
    /\ post[p] # NoRecord
    /\ post' = [post EXCEPT ![p] = NoRecord]
    /\ UNCHANGED <<cacheVars, delegation, bot, issued, accepted, verdict,
                   replied, credited, answers>>

Post(p) == \/ Lookup(p) \/ ResolveRead(p) \/ ResolveWrite(p)
           \/ ChargeRead(p) \/ ChargeWrite(p)
           \/ FindEntry(p) \/ DeleteEntry(p) \/ DequeueEntry(p) \/ DeletionFails(p)

--------------------------------------------------------------------------------
(* The other HTTP requests, and time.                                      *)

\* POST /delegation/grant.
Grant(u, limit) ==
    /\ Upsert(u, limit)
    /\ UNCHANGED <<cacheVars, flowVars>>

\* GET /request/:id?after=<id>: the reply is what IsNextPending says; what it
\* changes is the queue.
FetchNext(u) ==
    /\ EvictStale(u)
    /\ UNCHANGED <<signReq, miniReq, delegation, flowVars>>

Tick ==
    /\ CachesTick
    /\ DelegationsTick
    /\ bot' = IF bot = NoRecord THEN bot ELSE [bot EXCEPT !.deadline = Less(@)]
    /\ post' = [p \in Posts |-> IF post[p] = NoRecord THEN NoRecord
                               ELSE [post[p] EXCEPT !.rec = AgedCopy(@)]]
    /\ UNCHANGED <<issued, accepted, verdict, replied, credited, answers>>

Init ==
    /\ CachesInit
    /\ DelegationsInit
    /\ bot = NoRecord
    /\ post = [p \in Posts |-> NoRecord]
    /\ issued = [r \in Requests |-> NoRecord]
    /\ accepted = [r \in Requests |-> {}]
    /\ verdict = [r \in Requests |-> "none"]
    /\ replied = [r \in Requests |-> {}]
    /\ credited = [u \in Users |-> 0]
    /\ answers = 0

Next ==
    \/ Bot
    \/ \E p \in Posts, r \in Requests, answer \in Answer : Receive(p, r, answer)
    \/ \E p \in Posts : Post(p) \/ PostFails(p)
    \/ \E u \in Users, limit \in Limits : Grant(u, limit)
    \/ \E u \in Users : FetchNext(u)
    \/ Tick

Spec == Init /\ [][Next]_vars

\* Time passes, and the worker's event loop goes on with the command it is in: the
\* calls of Redis and Telegram end, one way or the other.  Nobody has to answer.
BotMoves == (\E r \in Requests : CreateRecord(r)) \/ Publish \/ Poll

FairSpec == Spec /\ WF_vars(Tick) /\ WF_bot(BotMoves)

--------------------------------------------------------------------------------
(* Properties.                                                             *)

\* Every variable has its type: the Redis keys, the delegations, and the locals of the
\* step loop and of each handler at the await they have reached.
TypeOK ==
    /\ CachesTypeOK
    /\ DelegationsTypeOK
    /\ bot \in BotState \cup {NoRecord}
    /\ post \in [Posts -> PostState \cup {NoRecord}]
    /\ issued \in [Requests -> Issue \cup {NoRecord}]
    /\ accepted \in [Requests -> SUBSET {"approved", "rejected"}]
    /\ verdict \in [Requests -> {"none", "approved", "rejected", "expired"}]
    /\ replied \in [Requests -> SUBSET {"deleted", "kept"}]
    /\ credited \in [Users -> Nat]
    /\ answers \in 0..MaxAnswers

\* Every request the mini app can be served (GET answers 410 once expiresAt has
\* passed) can also be answered: its signing record is there and has not expired
\* either.  The two keys are written one after the other, with TTLs of their own,
\* and expire on their own.
ServedIsResolvable ==
    \A r \in Requests :
        miniReq[r] # NoRecord /\ miniReq[r].left > 0 =>
            signReq[r] # NoRecord /\ signReq[r].left > 0

\* Once the mini app has got a final reply to its answer, be it success, not found,
\* expired or forbidden, the request is never served again, neither by id nor as the
\* next step of `?after=`, on which the mini app would loop: its entry is gone.  Only
\* where every such reply was sent although the deletion had failed may the entry be
\* left, and then it is past its expiresAt, to which GET answers 410.
RepliedNotServed ==
    \A r \in Requests :
        replied[r] # {} /\ miniReq[r] # NoRecord =>
            replied[r] = {"kept"} /\ miniReq[r].left = 0

\* What waitFor reports as approved or rejected is something a handler was told
\* by the user, even with several answers to one request in flight and keys that
\* expire between the steps of a handler.
VerdictWasAnswered ==
    \A r \in Requests :
        verdict[r] \in {"approved", "rejected"} => verdict[r] \in accepted[r]

\* A delegation is charged only when the last transaction of a command has been
\* approved, after the bot loop has seen all the earlier ones approved.
ChargedAtTheEnd ==
    \A p \in Posts :
        At(p, "update") =>
            LET i == issued[post[p].req] IN
            /\ i.step = i.plan.steps
            /\ "approved" \in accepted[post[p].req]
            /\ i.prev # NoRecord => verdict[i.prev] = "approved"

\* The ledger never shows more than was ever charged to it, whatever handlers
\* and grants overwrite each other: a lost update can only hide a spend.
SpentIsBacked ==
    \A u \in Users :
        delegation[u] # NoRecord => delegation[u].spent <= credited[u]

\* A command never holds up the bot loop for good.  It is what the waiting loop
\* has its deadline for: the answer may never come, the record may be gone, or may
\* have been written back by a late answer without a TTL.
BotEventuallyFree == []<>(bot = NoRecord)

\* README.md: "per-token spending limits enforced before every spend".
SpentWithinLimit ==
    \A u \in Users :
        delegation[u] # NoRecord => delegation[u].spent <= delegation[u].limit

\* IMiniAppRequestCache: what the mini app is given when it asks, after step N of a
\* command was approved, for the next request is step N+1 of that command.
ChainServesNextStep ==
    \A r, q \in Requests, u \in Users :
        verdict[r] = "approved" /\ q # r /\ IsNextPending(u, q) =>
            issued[q].prev = r

\* The abstract specification this one implements.
Promise == INSTANCE StepwiseConsent WITH
    current   <- IF bot = NoRecord THEN NoRecord
                 ELSE [steps |-> bot.plan.steps, done |-> bot.step - 1],
    waiting   <- IF bot = NoRecord THEN NoRecord ELSE bot.req,
    asked     <- {r \in Requests : issued[r] # NoRecord},
    consented <- {r \in Requests : "approved" \in accepted[r]},
    passed    <- {r \in Requests : verdict[r] = "approved"}

ASSUME NoCurrentAssumption == NoRecord \notin [steps: Nat, done: Nat]

\* The signing flow implements StepwiseConsent: a step is put to the user only
\* after the user has approved the step before, one command at a time.
ImplementsStepwiseConsent == Promise!Spec
================================================================================
