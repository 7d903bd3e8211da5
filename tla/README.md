# Formal model of onchain-agent

TLA+ models of the parts of onchain-agent (a Telegram assistant that prepares
transactions, has them signed in a mini app, invests idle balances and accounts for
what it spends) where several processes, two databases and a user act at the same time.
TLC checks small instances; TLAPS proves what matters most for every value of the
constants.

## 1. The system

| Component | Source (under `src/src/`) | State | Operations | Hard part |
|---|---|---|---|---|
| Signing requests | `use-cases/implementations/signingRequest.usecase.ts` | none of its own | `create`, `resolveRequest`, `waitFor` | a bot loop that polls while HTTP replicas resolve |
| Request caches | `adapters/.../cache/redis.*Request.ts` | Redis `sign_req:*`, `mini_app_req:*`, `user_pending_signs:*` | `save`, `resolve`, `store`, `delete`, `findNextPendingSignForUser` | two keys with TTLs of their own, read-then-write |
| Aegis Guard, token delegations | `aegisGuardInterceptor.ts`, `deterministic.executionEstimator.ts`, `tokenDelegation.repo.ts` | Postgres `token_delegations` | check, `upsertMany`, `addSpent` | checked long before it is charged; lost updates |
| Signing steps | `swapCapability.ts`, `yieldCapability.ts`, `sendCapability.ts`, `artifactRenderer/telegram.ts` | the step loop in the worker's memory | one record and one mini-app entry per step | failures between steps, a deadline per step |
| Conversation | `capabilityDispatcher.usecase.ts`, `capabilityRegistry.ts`, the capabilities' `collect`, `handler.ts` | Redis `pending_collection:*` | match, resume, ask, run | cleared before, saved before, resumed by channel; updates delivered again |
| Token selection | `sendCapability.ts`, `swapCapability.ts`, `resolverEngine.ts`, `openai.schemaCompiler.ts` | the state of a pending question | compile loop, resolution, disambiguation | two paths that merge their state by hand |
| Tool catalog | `toolRegistration.usecase.ts`, `commandMapping.usecase.ts`, `intent.usecase.ts`, `toolIndex/` | Postgres `tool_manifests`, `command_tool_mappings`; a vector index | register, deactivate, map, select | a table and an index that fail separately; stale hits |
| Intents | `intent.usecase.ts`, `validateIntent.ts`, `solver/` | Postgres `intents`, written only | parse, validate, build | validation and templates that must agree |
| Assistant | `assistant.usecase.ts`, `assistantChatCapability.ts` | Postgres `messages`, conversations in memory | chat in rounds, tools, history | rows stamped to the second, inserts that fail |
| Sessions, sign-in, approvals | `auth.usecase.ts`, `sessionDelegation.usecase.ts`, `telegramSession.repo.ts`, `httpServer.ts` | `users`, `telegram_sessions`, `user_profiles` | `loginWithPrivy`, approve, `/logout` | lookup, link, create over many awaits; whole rows written back |
| Recipient notifications | `recipientNotification.useCase.ts`, its repository, `notifyResolved.ts` | Postgres `recipient_notifications` | dispatch, flush | both work on the same rows; Telegram fails half-way |
| Loyalty ledger | `loyaltyUseCase.ts`, `loyalty.repo.ts`, `pointsFormula.ts` | `loyalty_points_ledger`, seasons; two Redis caches | award, adjust, rank, leaderboard | a daily cap checked before the insert; late cache fills |
| Yield jobs | `yieldOptimizerUseCase.ts`, `input/jobs/*.ts`, `yieldPoolRanker.ts` | Redis `yield:*` keys, snapshots | scans, nudges, deposits, reports | ticks that overlap, keys set after sending |
| HTTP API, Telegram handler | `input/http/httpServer.ts`, `input/telegram/handler.ts` | none | routes, updates | concurrent handlers on several replicas; one update at a time |
| Token ingestion, portfolio, HTTP tools of users, wiring | | | | I/O; not modelled, see section 7 |

How they interact. The worker process runs the bot loop, the jobs and an HTTP server;
further replicas run the HTTP server only. They share Redis and Postgres and nothing
else. An update of the chat goes through the handler's session gate to the dispatcher, which
starts or resumes a capability; its `collect` asks until it has its parameters, and its `run`
writes a signing record and a mini-app entry to Redis and (except for sends) polls the
record. The mini app, outside this repository, fetches the entry over HTTP and answers with
`POST /response`, which resolves the record, charges the delegation and, for a send to another
Telegram user, dispatches a notice to the recipient. Free text goes to the assistant, whose
tool `execute_intent` parses and builds an intent. Capabilities award points without
waiting for the result. Jobs read balances and send nudges and reports into the chats.

What makes each component correct is listed line by line under "hazards" in
`PROJECT.json`; sections 3 and 4 say which properties cover which.

## 2. Modules

| Module | What it is |
|---|---|
| `AgentDomain` | the users and the value for "no record", shared by the modules |
| `RequestCaches` | the Redis caches: what each command does to the keys, their TTLs and the queue |
| `TokenDelegations` | `token_delegations`: grant, guard, charge |
| `SigningFlow` | the composition: bot loop, `POST /response` handlers, grants, time, failures |
| `StepwiseConsent` | the abstract specification of the signing flow |
| `SigningFlowInv`, `SigningFlowProofs` | its inductive invariant, and the proofs |
| `RecipientNotifications` | rows, sessions, dispatches and flushes |
| `RecipientNotificationsInv`, `RecipientNotificationsProofs` | its inductive invariant, and the proofs |
| `TokenSelection` | the collectors of `/send` and `/swap` as operators: from a message to the parameters of a transfer |
| `Conversation`, `ConversationProofs` | the chat, the handler's gate and the dispatcher around them; the proofs about both |
| `ToolCatalog`, `ToolCatalogProofs` | the catalog's table, index and mappings, the admins' calls and tool selection; the proofs |
| `IntentExecution` | validation and building of an intent, as operators |
| `Assistant`, `AssistantProofs` | the chat with the language model, its rounds of tool calls and its history; runs `IntentExecution`; the proofs about both |
| `Accounts`, `AccountsProofs` | sign-ins, session-key approvals, sessions and profiles; the proofs |
| `LoyaltyLedger`, `LoyaltyLedgerProofs` | awards await by await, seasons, caches, the points formula; the proofs |
| `YieldJobs`, `YieldJobsProofs` | the timers, scans, nudges, deposits, withdrawals and reports; the pool ranker; the proofs |
| `MC*` | the constants of the instances, and symmetry |

Definitions that model code bear the name of the code where they can; `PROJECT.json`
maps each to its lines. A definition whose comment starts with "Mutant" is a plausible
bug: put in the place of the definition it is a mutant of, it makes one property fail,
which shows that the property depends on the code.

### SigningFlow

* `StartCommand` is a capability's `run` up to its first step, with the guard;
  `CreateRecord` and `Publish` are the two writes of a step (record first, mini-app entry
  second); `Poll` is a round of `waitFor` that reaches a conclusion together with what
  the step loop does with it. Rounds that conclude nothing change nothing.
* `Receive`, `Lookup`, `ResolveRead`, `ResolveWrite`, `ChargeRead`, `ChargeWrite`,
  `FindEntry`, `DeleteEntry`, `DequeueEntry` are the awaits of one `POST /response` in the order of
  the code; the last three are the commands of the cache's `delete`. `Posts` are slots for handlers
  that run at once, whatever replica they run on.
* `refused` says that `resolveRequest` threw NOT_FOUND, EXPIRED or FORBIDDEN. Then a deletion that
  fails at any of its commands is swallowed and the reply goes out (`DeletionFails`,
  httpServer.ts:587-596); after a resolution it is an exception and no final reply (`PostFails`).
  `replied` remembers what each final reply knew of the entry, "deleted" or "kept".
* `Grant` is `POST /delegation/grant`, `FetchNext` is `GET /request/:id?after=` with its
  clean-up of the queue. `Tick` is time: `left` counts down to `expiresAt`, `ttl` to the
  expiry of the key. They differ by one tick because `expiresAt` is compared with a clock
  rounded down to a second.
* `BotFails` and `PostFails` stop a process or throw at any await; what was written stays.
* `plan.checked` is what the guard is asked about and `plan.amount` what the last step is
  charged with: they differ for a send whose manifest does not resolve a raw amount.
* History variables: `issued` (why a request was created), `accepted` (the answers that passed
  the checks of `resolveRequest`), `verdict` (what `waitFor` returned), `replied`, `credited`.

### RecipientNotifications

* `Resolved` is the success branch of `notifyResolved` on a replica of some role (an HTTP-only one
  is wired without the use case); `Insert`, `LookupSession`, `SendNotice`, `MarkNotice`,
  `MarkNoticeFailed` are the awaits of `dispatchP2PSend` and `tryDeliver`.
* `Start`, `ChatLogin` and `EndSession` are the bot loop's handlers; a flush runs in it to
  its end, as `Find`, `SendBatch`, `MarkBatch`, `MarkBatchFailed`. A batch of one row goes
  through `tryDeliver` in the code, with the same steps.
* `told` is what the recipient has seen, which the table does not know: `SendNotice` may fail
  after the message arrived.

### Conversation and TokenSelection

* `Write` puts an update into Telegram's queue, `Poll` is `getUpdates`, which confirms what was
  handled before; `Receive` the handler with its session gate; `Abandon`, `RunCollect`,
  `Commit`, `Render`, `RunCapability`, `EndTurn` are the steps of `handle` in the order of
  the code. `Fail` is an exception at any of them, `Crash` a restart after which what was not
  confirmed arrives again. `PendingExpires` is the key's ten minutes.
* A collector shares no state with anybody between two updates, so it is an operator that
  returns every result it may have. What the schema compiler extracts is any member of
  `CompileReplies`. `send` stands for every command that has a `SendCapability`.
* `Matches` says which tokens a search for a text finds: one of them may have the text as its
  symbol (`Registry`), the others contain it in a symbol or name, and it may be that only others are
  found. A field holds a text or the address of a token on a chain. `PickCandidate` takes a number or,
  without one, the symbol of a candidate.
* A question is named by its capability and state; `screen` is the last one shown, and an
  update remembers the one its author saw (`seen`).
* Handles of recipients have different wallets, and the state keeps who is paid and who
  will be notified apart, as the code does. A reply may also carry the manifest's parameter
  `recipient`, which `Absorb` lets replace who is paid (sendCapability.ts:394).
* History of a conversation: `picked` (the answers to questions), `said` (what was said last of a
  slot), `extracted` (the recipient parameter extracted after the last handle was resolved).

### ToolCatalog

* A call of an admin is a process; its steps are its awaits. `Create` is the insert with its
  unique id, `Index` and `Unindex` the calls to the vector index, `Upsert` the mapping.
  `AdminBreaks` ends a call anywhere; a failure at the index is swallowed, as in the code.
* `SelectTool`, `ReadRecord`, `Search`, `ReadManifests`, `SearchFails`, `Keyword` are
  `selectTool` with `discoverRelevantTools`; `BuildRequestBody` reads the tool once more.
* The index is external: a search returns any `TopK` of its vectors with any scores.
* History variables: `gone` (the tools that were inactive when a message came) and `drift`
  (the tools whose index entry was left behind).

### IntentExecution and Assistant

* `ValidateIntent` and `BuildCalldata` follow an intent and the manifest of its tool:
  required fields from the category and from the templates, the templates each step must
  resolve from the intent, its params, the user and the outputs of earlier steps.
* `Receive`, `LoadHistory`, `AskModel`, `RunTools`, `SaveRound`, `NextRound`, `SaveReply`,
  `Reply` are the stages of a chat. Inserts run on their own: `writing` holds those on their
  way, each may arrive or fail, and one that fails answers the message with an error while the
  others go on. `now` is the clock in seconds, which stamps the rows.
* `NewestRows` and `BuildOrchestratorHistory` are the query with its limit and the repair
  of what the limit cuts off; `Accepted` is what the model's API wants of a history.

### Accounts

* `loginWithPrivy` runs from the session of the chat over the Privy id and the e-mail to
  link, create and upsert, each a step of a `call`; approvals read and write the whole row of
  `user_profiles`, a column left out becoming null.
* An account is named by its e-mail, which is unique; `EmailsOf` says what Privy may report
  for an identity, so two identities may claim one account. A login from the bot's
  `web_app_data` is one with a chat.

### LoyaltyLedger

* `awardPoints` is status, duplicate, season (from the cache or the table), cap, insert, board
  invalidation; the unique index on `intent_execution_id` decides races, and the loser reads the
  winner's entry. Rows matter through `sum` (the points of a
  user, season and day), `balance` (those of a user and season) and `booked` only.
* `GetUserRank` and `Leaderboards` are the two queries; ties come in any order.
* `excess` is a history variable: what entries added that nobody had compared with the cap.

### YieldJobs

* `StartJob` is a timer, which fires whether the last run has ended or not; `JobStep` is the next
  await of a run: pool scan, idle scan of a user (two keys, balance, best pool, nudge, two keys), daily
  report (done key, users, then position, snapshots, snapshot and message of each, done key).
  `FlowStep` is the deposit or withdrawal that the bot loop executes. `DiscoverPositions` and
  `ShowPositions` are the two reads of `GET /yield/positions`, at any time.
* `reportDone` holds the dates with a done key. A report reads the date for the key it looks up and
  again when the answer is there, so a tick at midnight may look up one date and set the other.
* A day has two periods, the hour of the reports and the rest, and midnight comes right after
  the hour of the reports, which is the worst case for runs that cross it. A key lives until the
  end of its last period.
* `Winner` is the ranker, checked against a definition of "undominated".

## 3. Runs

| Run | Question and answer |
|---|---|
| `signing` | A two-step swap and an autonomous send with two answers in flight and deletions that fail half-way: safety, refinement of `StepwiseConsent`, and `BotEventuallyFree` with a user who may never answer. Holds. |
| `spending_limit` | "spending limits enforced before every spend" (README.md:27). Violated: the guard of a plain send is asked about 0. |
| `step_chain` | "after signing step N, the FE polls this to fetch step N+1". Violated: the oldest request of any command is served. |
| `notices` | Dispatches racing with flushes, with one stop half-way; pending rows drain although a digest holds fewer than there are. Holds. |
| `notice_pending` | "delivery failed - will remain pending". Violated: the row is marked as failed and never selected again. |
| `conversation` | Commands, texts and buttons in any order, typed ahead, delivered again, expired: answers go to the question that was seen, transfers use what was picked, or what a search for the words of the user finds alone. Holds. |
| `accounts` | Two calls at a time of identities whose e-mails may coincide. Holds. |
| `loyalty` | Two awards at once, seasons, midnight, adjustments, late readers. Holds. |
| `yield` | Scans and reports that overlap, cross midnight or break off, with a positions view, deposits, withdrawals and transfers. Holds. |
| `assistant` | Rounds of tool calls, lost inserts, resets, a history that is cut off. Holds. |
| `history_order` | "ASSISTANT_TOOL_CALL always precedes its TOOL responses, which precede the following turn" (assistant.usecase.ts:225). Violated when results and the next row share a second that the call does not. |
| `tools` | Registrations, deactivations and mappings that overlap or break off while a tool is selected. Holds. |

The properties:

* `ServedIsResolvable` - what the mini app is served can be answered (two keys, written and
  expiring separately). Its failure is the endless poll loop described at
  `artifactRenderer/telegram.ts:103-108`.
* `RepliedNotServed` - after a final reply, an error included, a request is not served again: its
  entry is gone, or, where only replies went out whose deletion had failed, it is past its
  `expiresAt` and answered with 410. Such a reply can only be a refusal, and there is no refusal as long as
  the entry is valid. Its failure is the loop described at `httpServer.ts:582-586`.
* `VerdictWasAnswered` - the loop never moves on because of something the user did not do, not
  even when a late answer writes back an expired key without a TTL.
* `ChargedAtTheEnd` - a delegation is charged for an approved last step only, all the earlier ones
  having been seen approved. `SpentIsBacked` - lost updates and grants can hide a charge but
  not invent one.
* `ImplementsStepwiseConsent` - one command at a time, one step at a time, the next one
  only after consent. `BotEventuallyFree` - a silent user does not block the bot for good.
* `DeliveredWasTold`, `TellingsBounded`, `NoticesDrain` - marks mean what they say, nothing is
  repeated without bound, no row starves behind the digest's limit.
* `AnswersSeenQuestion` - a text is taken for the answer to the question its author saw, with
  three named exceptions (typed ahead, delivered again after a crash, a question stored but
  not shown). `AbandonedStaysAbandoned`, `EveryUpdateAnswered`, `QuestionsBounded` - commands end
  what was before, nobody is left without an answer or asked for ever.
* `TokensAsAsked` - over every path from messages to a transfer, the token of a slot is the one
  picked for it or, if nobody was asked, the one whose address was said last or the only hit of a search for
  what was said last. This only hit may be a token of another symbol (section 5). A fiat amount is
  paid in USDC, unless an address was said.
* `PaidIsNotified` - nothing parts the one who is paid from the one who is told but a
  recipient parameter that is extracted after the handle was resolved (section 5).
* `SelectedWasActive`, `IndexFollowsTable` - no tool is chosen that was inactive when the message
  came; table and index differ only where a call failed at the index or overtook another.
* `HistoryAccepted` - whatever was lost, cut off or deleted, the model is never sent calls without
  exactly their results, as long as no two steps share a second.
* `LoneLoginsSucceed`, `SignedInTogether`, `ApprovalKeepsChat` - a login that lost a race succeeds
  when repeated; token and chat end up with the same account; an approval does not bring an
  old chat back unless another call crossed it.
* `CapHeldUnlessRaced` - the daily cap is exceeded by the entries that nobody compared with it and
  by nothing else. `RetriesFindTheEntry`, `RankAgreesWithBoard`, `CachesCatchUp` - a repeated award
  finds its entry, two queries agree on the rank, late cache fills wear off.
* `NudgesKeepCooldown`, `ReportsOncePerDay` - repeated only by overlapping or broken runs.
  `EarningsExplained`, `GainsExplained` - a transfer is reported as earnings, or shown as the gain
  of 24 hours by the positions view, only in the cases named. `WinnerUndominated` - the ranker. `IdleUserIsNudged`, `ReportsArrive` - nudges and reports
  keep coming.

### Bounds

* Signing: one user (users share nothing but the bot loop, which is free or busy for all of them
  alike), two requests (the two steps of one swap, or two sends, or a send and the first step of a
  swap), two handlers and two answers (each interleaving of two answers to
  the same request or to both), `SignTtl` 1 (the last valid instant, expired, and key gone are
  distinct; 2 in the violations), one limit and a grant of one tick (valid, expired, granted again).
  `step_chain` takes three requests: one left behind and two of a swap. Deposits, withdrawals and
  native swaps take the same steps with other lengths; TLC leaves them out, the proofs do not.
* Notices: two notices and digests of one row, so a row has to wait behind another;
  `MaxFaults` 1 bounds the stops, while errors of Telegram and Postgres inside the `try`
  blocks are unbounded.
* Conversation: two updates not yet confirmed (one being answered, one typed ahead; `Hasty` names
  those that are typed ahead), one failure or crash, at most two compiler turns and two
  disambiguation turns where the code has 10 each (the bound is reached and passed), symbols with
  two hits, with none, and with one hit that is another token, an address, a recipient parameter, a USDC on
  one chain only.
* Accounts: two accounts, two identities of which one may report either e-mail, two chats, two
  calls at a time and three in all, one fault. With four calls the run has no error either.
* Loyalty: two awards, two seasons, one midnight, two acts of the operators, caches that live
  for one tick. One award fits the cap and two exceed it.
* Yield: one user, two runs at a time (of the idle scan or the report also two of the same), two acts
  (transfers, deposits, early or overlapping ticks, failures), a balance of 3 of which a half, rounded down, is
  deposited, so that the threshold of 3 is met before and missed after; keys that live for two
  periods (the best pool) and for one (the nudges), so that each may expire while a run is under way.
* Assistant: three messages, two rounds of at most two and one calls, a history of four rows
  (a round may be cut at any row), a limit of three messages, three seconds, one fault.
* Tools: three tools of which two compete, two admins, one conversation (conversations share
  nothing that they write), one failure.

`PROJECT.json` names the configuration of each run; each takes between a few seconds and about three
minutes with two workers (the largest are `conversation` with 6.0, `signing` with 1.3 and `yield`
with 1.0 million states).

### Fairness

* `SigningFlow!FairSpec`: weak fairness of `Tick` (time passes) and of `BotMoves` (the loop
  goes on with the command it executes: each await of Redis or Telegram ends, with a result or
  an exception); it is `WF_bot`, so only what changes `bot` counts. None for users, handlers or commands. `BotEventuallyFree` says that the loop is free
  again and again.
* `RecipientNotifications!FairSpec`: weak fairness of each handler and of the flush, for the
  same reason. `NoticesDrain` assumes in its own statement that the recipient keeps
  sending `/start` with a session.
* `LoyaltyLedger!FairSpec`: weak fairness of `Tick`, because Redis expires keys. Neither
  awards nor readers have to finish: what a reader stores expires too.
* `YieldJobs!FairSpec`: `[]<><<period' # period>>_period`, that is, both periods of a day keep coming. A period cannot end before its timers
  have fired and the runs left over from the period before have ended, which is what the
  timers of Node and the timeouts of RPC calls give.

## 4. Proofs

Each of the eight proof modules proves, for all values of the constants that satisfy the named
assumptions, `Spec => []IInv` of an inductive invariant, and from it every invariant and every
action property that a run checks of its component. `SigningFlowProofs` also proves
that the flow implements `StepwiseConsent`. `PROJECT.json` lists the theorems. A proof has one
lemma per action (or, for the signing flow, one per part of the invariant with a step per action)
and one step per part that the action can disturb. The invariants that are not written down in a
module of their own were checked by TLC on the instances of section 3 before they were proved.

**Signing flow.** `ServedIsResolvable` is not inductive: it needs that the two keys
count down together and that an entry has no more life left than its record, also for
records a handler holds in memory and is about to write back, and for records written back without a
TTL. `RepliedNotServed` needs that an entry is only stored by `Publish`, before which
nobody can have answered, and that a handler that was refused is about an entry that is gone or past its
`expiresAt`: the record and the entry have the same user, so FORBIDDEN does not happen once the handler
has compared the caller with the entry, and NOT_FOUND and EXPIRED mean that the entry is no longer valid
either (`ServedIsResolvable`). `VerdictWasAnswered` needs that a record's status, and the
status a handler is about to write, are among the accepted answers. `ChargedAtTheEnd`
needs that a record carries an amount only if it is of a last step, and that the
bot's `prev` was approved. `SpentIsBacked` needs that the sum a handler has read is backed too.
`IInv` in `SigningFlowInv` is the conjunction of these parts. The runs of this component and of the
next check `IInv` as well, whose first conjunct is the type invariant.

**Notices.** `DeliveredWasTold` needs that whoever is about to mark a row has sent it
(`MarkInv`) and works on a row that exists (`RowInv`). `TellingsBounded` needs an
account of who told (`ToldInv`): the handler of a notice at most once, a completed flush
at most once because the row is not pending after it, and one more for each stop between
a message and its mark.

**Catalog.** A tool that was inactive when a message came stays inactive, because
no call makes an id active twice: `Create` inserts only what the table has not, and `gone` holds
only ids that it has. So whatever a mapping or the index still names, the reads that choose a tool
leave it out (`SelectedWasActive`). `IndexFollowsTable` needs an account, call by call, of who still owes the
index a write. `ChosenSound` says of the conflict resolution that it chooses among the tools found.

**Conversation.** Two arguments, one on top of the other. A collector has no memory but the state
it is given: `SendState` and `SwapState` say what this state may be (the symbol, chain and token of
each slot belong together, what was picked is what is used, the counters of questions are within
their limits, who is paid is who will be notified or was extracted later), and every operator of `TokenSelection` takes such a
state to such a state or to such parameters. Around it, `QueueInv` says that of the updates
still to come only the next one can have been written in view of the screen, and
`ShownInv` that what is pending, or being resumed, is what was shown last: hence
`AnswersSeenQuestion`. `CommandInv` says that the turn of a command removes the old question before anything
else, and that what is pending later is the result of this turn: hence
`AbandonedStaysAbandoned`. Two theorems have a hypothesis, which the code does not guarantee:

* `TokensRight` takes `"USDC" \in Registry`. Without USDC among the hits for "USDC", the default of a
  fiat amount (sendCapability.ts:414-495), what was said before stands.
* `QuestionsEnd` takes `MaxCompileTurns > 0`. The limit is `parseInt` of the variable
  `MAX_TOOL_ROUNDS` and may be 0, but the first round may ask before it is looked at.

**Accounts.** `Unique` (no identity with two accounts) is what the index on `privy_did` keeps.
`LoginInv` says, step by step, that what a login has read is still so when it acts on it, as long as no
other call was handled in between: the row that the session names, that no account has the
identity, that the e-mail is free. `LoneLoginsSucceed` and `SignedInTogether` are its last
steps. `WriteInv` says the same of the row an approval is about to write back, until another call
crosses it: `ApprovalKeepsChat`.

**Loyalty.** `AwardInv` is what a running award has read: past the season's step it has one, past
a lost race its entry exists, and as long as nothing was added since it read the sum, its points
fit under the cap. With it `CapHeldUnlessRaced` is inductive, because what is inserted otherwise is
counted in `excess`. `RankAgreesWithBoard` is a fact about any ranking of any finite set of users:
the users with more points than one are the initial segment of the ranking before the first row with the same
points, so that their number plus one is its place.

**Yield.** A scan that is alone has no other of its user beside it, and once it has seen that there
is no cooldown, no nudge is held back, through the three checks that follow (`ScanInv`); a nudge that is out has its cooldown, or the scan
that sent it is about to set it (`CooldownInv`): `NudgesKeepCooldown`. As long as nothing
disturbs the reports, a run that reports today has no other beside it that does or may come to it, and
the users it still has to do have no report of today. As long as a run that has passed the key may
still become today's nobody has a report, and once somebody has one there is the key of today
or the run that will set it (`ReportInv`): `ReportsOncePerDay`. A snapshot of today is what the pool holds, one of yesterday what it held at
midnight, except for those that `unseen` and `moved` name and for the deposit whose snapshot is on its way
(`SnapInv`), and what a report or a view has read is still so while it is `fresh` (`FreshInv`):
`EarningsExplained` and `GainsExplained`. That a ranker's winner is undominated is proved for any number of
pools and histories of any length: a stable sort has a first element (the pool with the fewest others
before it), scores are compared by cross-multiplication, which is transitive, and a dominating
pool has a greater score even when both are halved. That the sum of a history is a natural number is proved
with least counterexamples, since induction itself is not available.

**Intents and assistant.** `AwaitingIsComplete`: an intent that awaits its signature was understood, is
valid, and had every template of its active tool resolved. `FieldsAskedBeforeBuilding`: a valid intent
has every field that its tool's templates name, so nothing is found missing while building; its
hypotheses are the two places where validation and templates disagree (a template
with spaces is not recognised by the pattern of validateIntent.ts:47; a field among the params counts as
given at validateIntent.ts:95 but not in templateEngine.ts). `CommandsLackFields`: a tool with a template such as
`{{intent.amountHuman}}` can never be built by a command. `ResetAtLimitOnly`: what deletes a conversation.
`HistoryAccepted` rests on three facts: the rows, written or on their way, are
ordered by message, round and second alike (`Orderly`), those of the message being answered are not
ahead of it (`TurnInv`), and what was sent last has every call with all its results (`Closed`), which the repair
of the history restores whatever the limit cut off.

**Assumptions.** Those of the modules are of three kinds: types of the inputs that TLC enumerates
(`RepliesAssumption` for what the schema compiler may extract, `UpdatesAssumption` for what Telegram may
deliver, `PoolsAssumption` for what pools report: rates are not negative, as the contract has them unsigned), names
that must differ (no user is called "pools", "reports", "flow" or "view", which are names of slots; `NoRecord` is
none of the records), and bounds that are natural numbers. TLC evaluates all of them in every run.

Only model-checked: the five liveness properties (`BotEventuallyFree`, `NoticesDrain`,
`CachesCatchUp`, `IdleUserIsNudged`, `ReportsArrive`), because TLAPS has no rules for fairness and
`ENABLED` here; and of course the four violations.

## 5. What the violations mean, and other observations

The violations are disagreements between what a document, comment or log line says and what the
code does, each quoted in `PROJECT.json` under "findings" and reproduced by a run. While modelling,
these were met as well; no run is about them:

* Signing: a yield deposit is charged to the delegation of its token but never passes the guard
  (yieldCapability.ts:150). Without `MINI_APP_URL` a sign request is silently dropped. When the
  deletion after a refusal fails, the entry stays until its key expires: it is answered with 410, and as the
  oldest of its user it keeps `?after=` from finding the ones behind it (httpServer.ts:436-444).
* Sign-in: STATUS.md:290 promises a flush of notices at "/start (or auth)"; a sign-in over HTTP
  (auth.usecase.ts:87) flushes nothing. `GET /permissions` compares a public key with the smart
  account's address, while records are stored under the session key's. A user with two chats gets
  messages in either of them (`findByUserId`).
* Conversation: the pending question is keyed by chat, not by user
  (capabilityDispatcher.usecase.ts:42). A swap of two equal symbols always asks about "to".
  `parseInt` takes "1INCH" for the choice 1. The search is for a
  substring of symbol or name (tokenRegistry.repo.ts:70-84): if it has one hit, that token is used
  without asking, whatever its symbol is. An address that was said for the token to send is kept also when
  the amount is in fiat (sendCapability.ts:446-448). A recipient parameter extracted by a later
  message replaces who is paid, while the user of the first handle stays the one who is
  notified (sendCapability.ts:394 and :398). `/withdraw` is advertised (yieldCapability.ts:464) but not
  routed. The buy and yield questions repeat until a command or ten minutes of silence. A command
  that was answered but not confirmed runs a second time after a crash. SWAP_MANIFEST says
  "Omit for same-chain swaps" (swapCapability.ts:813), but an omitted chain is the
  configured one (chainConfig.ts:281-284).
* Catalog: `register` drops `requiredFields` and `finalSchema`, so only seeded tools have a dual schema
  (toolRegistration.usecase.ts:58-80). `priority`, "higher = preferred in conflicts", is
  ignored by `resolveConflicts`. When every hit is stale there is no fallback to keywords. A deactivated
  id can never be registered again.
* Intents: constructions/frontend-developer-portal.md:216-222 offers `{{intent.amountHuman}}` and
  the like to tools, and says that `{{user.scaAddress}}` is the smart account's address; a
  command gives its fields as params only (`CommandsLackFields`), and `scaAddress` is filled with
  the profile's `eoaAddress`, or with nothing (intent.usecase.ts:175, 313). An answer "Open
  the Aegis app to sign" is given, but no request is created. Nothing reads table `intents`.
* Assistant: the ten messages are counted over the user's messages of the whole conversation; after a
  reset the round under way still writes its rows; a user message may stand in the window twice; after
  the last round the reply is empty, which Telegram refuses.
* Loyalty: `getHistory` pages by a second: rows of the same second that did not fit a page are never
  listed (loyalty.repo.ts:162). `adjustPoints` has no caller.
* Yield: "Skip" answers "I'll check again tomorrow" (yieldCapability.ts:375), but nothing is
  written and the next nudge comes when the cooldown ends. Without a snapshot of yesterday the
  whole balance is reported as earned, although the log says zero (yieldOptimizerUseCase.ts:488-495).
  The positions view compares the position it read with the snapshot of the day it has become since, and counts a
  deposit of today as gained. A report that starts at midnight reads the date twice
  (yieldReportJob.ts:62 and :68) and may send the reports of a day whose key it never looked up.
  STATUS.md:330 has an EMA of seven days where the ranker takes a plain mean (yieldPoolRanker.ts:14-21).

## 6. Plan

Done: every module of section 2, and a theorem for every invariant and action property that a run
checks. Left, in this order:

1. An abstract at-least-once mailbox that `RecipientNotifications` implements, and an abstract
   daily mail that the reports of `YieldJobs` implement.
2. The rows of a loyalty history page; the seasons' administration.
3. The ingestion of tokens, if it ever does more than replace rows.

## 7. Not modelled, and why

* In the signing flow: requests created within the same second, which Redis orders by uuid; the
  TTL of the queue's own key (it outlives its entries); a deployment without `MINI_APP_URL`
  (nothing is published); a delegation that matches by symbol but not by address. The
  commands inside `store` (SET, ZADD, EXPIRE) are one step.
* In the notices: group chats, whose id differs from the sender's; message texts; the `/buy` nudge.
  Errors of `onResolved` are not awaited in the code: the model lets a transfer go without a
  notice.
* In the conversation: the session's row (the gate lets a chat in or not), message texts beyond the
  number they start with and the symbols they name. An address belongs to one token of one chain (that
  native tokens share one address is left out), and the compiler names a token the same way among the
  symbols and in the resolver fields. grammY and Telegram are external.
* In the accounts: the expiry of sessions, which no login asks about; requests of type auth;
  `eoaAddress`; approvals of subtype `aegis_guard` and `pending_delegations`. Privy's `verifyToken` is external.
* In the loyalty ledger: `externalRef`, user multipliers, pages of the history.
* In the yield jobs: series of rates, lifetime profit, the interval mode of the report; other chains and
  protocols (the registry has one). The pool scan is one step.
* In the assistant: what the tools return; the twenty messages of the history are
  `HistoryLimit`. In the intents: bytes of calldata, the classifier (any answer), nested
  values in the body of an HTTP step.
* In the catalog: what a manifest contains; chains (one); tools that a script inserts into the table
  without the index (drizzle/seed/transferToken.ts).
* Token ingestion, portfolio, balances, HTTP tools of users, observability: single reads or
  writes and calls of services. Dependency injection: represented by the roles and by the
  commands it registers. The mini app and the chain are outside this repository; the mini app
  may give any answer at any time.
