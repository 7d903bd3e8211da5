----------------------------- MODULE AssistantProofs -----------------------------
(***************************************************************************)
(* What an intent that awaits its signature has, for every manifest and    *)
(* every intent, and why the model accepts the history it is sent, however *)
(* many messages, rounds and rows there are.                               *)
(***************************************************************************)
EXTENDS Assistant, TLAPS

--------------------------------------------------------------------------------
(* Intents                                                                 *)

\* The fields that an intent gives are in the context of every step.
LEMMA GivenInContext ==
    ASSUME NEW i, NEW steps, NEW n, NEW f \in Given(i)
    PROVE  <<"intent", f>> \in Context(i, steps, n)
  BY DEF Context

\* Apart from the fields given, a path of two parts below intent is one of the three
\* that every intent has.
LEMMA ContextGives ==
    ASSUME NEW i, NEW steps, NEW n, NEW f \in UserProvidableFields,
           <<"intent", f>> \in Context(i, steps, n)
    PROVE  f \in Given(i)
  BY SMTT(30) DEF Context, UserProvidableFields

\* The verdicts of validateIntent.
LEMMA Verdicts ==
    ASSUME NEW i, NEW count, NEW relevant
    PROVE  ValidateIntent(i, count, relevant) \in {"limit", "missing", "invalid", "valid"}
  BY DEF ValidateIntent

\* An intent that awaits its signature was understood; its recipient and its amount can
\* be used; its tool is active, its last step leaves a call, and every template of every
\* step was there, whatever the search found before it was parsed (intent.usecase.ts:
\* 54-225, validateIntent.ts:107-128, templateEngine.ts:29).
THEOREM AwaitingIsComplete ==
    ASSUME NEW i \in Intent \cup {NoIntent}, NEW count \in Nat,
           NEW relevant \in SUBSET Tools, NEW active \in SUBSET Tools,
           NEW breaks \in BOOLEAN,
           ParseAndExecute(i, count, relevant, active, breaks).status = "awaiting_confirmation"
    PROVE  /\ i # NoIntent /\ i.confident /\ i.action # "unknown"
           /\ i.fields["recipient"] # "bad" /\ i.fields["amountHuman"] # "bad"
           /\ i.action # "claim_rewards" =>
                i.action \in active /\ BuildCalldata(i, Manifest[i.action].steps)
  <1>1. i # NoIntent /\ ValidateIntent(i, count, relevant) = "valid"
    BY Verdicts DEF ParseAndExecute, Rejected, Awaiting
  <1>2. /\ i.confident /\ i.action # "unknown"
        /\ HasSolver(i.action, active) /\ SolverBuilds(i, breaks)
    BY <1>1 DEF ParseAndExecute, Rejected, Awaiting
  <1>3. i.fields["recipient"] # "bad" /\ i.fields["amountHuman"] # "bad"
    BY <1>1 DEF ValidateIntent
  <1>. QED
    BY <1>1, <1>2, <1>3 DEF HasSolver, SolverBuilds

\* A conversation is only reset by an intent that lacks a field at the limit of its
\* messages, and no row says so (intent.usecase.ts:91-101).
THEOREM ResetAtLimitOnly ==
    ASSUME NEW i \in Intent \cup {NoIntent}, NEW count \in Nat,
           NEW relevant \in SUBSET Tools, NEW active \in SUBSET Tools,
           NEW breaks \in BOOLEAN,
           ParseAndExecute(i, count, relevant, active, breaks).reset
    PROVE  /\ i # NoIntent /\ Missing(i, relevant) # {} /\ count >= WINDOW_SIZE
           /\ ~ParseAndExecute(i, count, relevant, active, breaks).saved
  <1>1. i # NoIntent /\ ValidateIntent(i, count, relevant) = "limit"
    BY DEF ParseAndExecute, Rejected, Awaiting
  <1>2. Missing(i, relevant) # {} /\ count >= WINDOW_SIZE
    BY <1>1 DEF ValidateIntent
  <1>. QED
    BY <1>1, <1>2 DEF ParseAndExecute, Rejected, Awaiting

\* A valid intent for a tool that the search found has every field that the templates of
\* the tool name: what is missing is asked for and never found out while building.  It
\* takes templates without spaces, and no field that is only given among the params, which
\* validateIntent counts and the templates do not find (validateIntent.ts:47,95,
\* templateEngine.ts:16-33).
THEOREM FieldsAskedBeforeBuilding ==
    ASSUME NEW i \in Intent, NEW count \in Nat, NEW relevant \in SUBSET Tools,
           i.action \in relevant \ BuiltInActions,
           i.params \cap UserProvidableFields = {},
           ValidateIntent(i, count, relevant) = "valid",
           NEW n \in 1..Len(Manifest[i.action].steps),
           NEW r \in Manifest[i.action].steps[n].templates, ~r.spaced,
           NEW f \in UserProvidableFields, r.path = <<"intent", f>>
    PROVE  r.path \in Context(i, Manifest[i.action].steps, n)
  <1>1. f \in ManifestRequiredFields(Manifest[i.action].steps)
    BY DEF ManifestRequiredFields
  <1>2. f \in Required(i, relevant)
    BY <1>1 DEF Required
  <1>3. Missing(i, relevant) = {}
    BY DEF ValidateIntent
  <1>4. f \in Given(i)
    BY <1>2, <1>3 DEF Missing
  <1>. QED
    BY <1>4, GivenInContext

\* A tool with a template for a field of the intent other than the recipient is never
\* built by a command, which hands every field over among the params
\* (intent.usecase.ts:315-322).
THEOREM CommandsLackFields ==
    ASSUME NEW t \in Tools, NEW params \in SUBSET ParamNames, NEW recipient \in BOOLEAN,
           NEW n \in 1..Len(Manifest[t].steps),
           Manifest[t].steps[n].kind # "erc20_transfer",
           NEW r \in Manifest[t].steps[n].templates,
           NEW f \in UserProvidableFields \ {"recipient"}, r.path = <<"intent", f>>
    PROVE  ~BuildCalldata(RequestPackage(t, params, recipient), Manifest[t].steps)
  <1> DEFINE i == RequestPackage(t, params, recipient)
             steps == Manifest[t].steps
  <1>1. f \notin Given(i)
    BY DEF RequestPackage, Given
  <1>2. r.path \notin Context(i, steps, n)
    BY <1>1, ContextGives
  <1>3. r.path \in Paths(steps[n])
    BY DEF Paths
  <1>. QED
    BY <1>2, <1>3 DEF BuildCalldata

--------------------------------------------------------------------------------
(* The inductive invariant of the assistant                                *)

At == {"idle", "load", "model", "tools", "save", "saving", "reply", "replying"}
Chat == [at: At, turn: 0..MaxMessages, round: 0..MAX_TOOL_ROUNDS, calls: 0..MaxToolCalls,
         history: SUBSET Row]

\* A row was stamped before another one: that of an earlier turn or round, and in the
\* round of the reply its calls and results.
Earlier(r, q) ==
    \/ r.turn < q.turn
    \/ r.turn = q.turn /\ r.round < q.round
    \/ SameRound(r, q) /\ r.role \in {"call", "tool"} /\ q.role = "assistant"

\* The user's row comes first, a round has one row of calls, and the seconds follow
\* the rounds.
Orderly(s) ==
    /\ \A r \in s : IF r.role = "user" THEN r.round = 0
                    ELSE r.role \in {"call", "tool"} => r.round > 0
    /\ \A r, q \in s : r.role = "call" /\ q.role = "call" /\ SameRound(r, q) => r = q
    /\ \A r, q \in s : Earlier(r, q) => r.sec <= q.sec

\* Every row of calls has its results.
Closed(s) == \A r \in s : r.role = "call" => Complete(s, r)

All == rows \cup writing

TypeInv ==
    /\ now \in 0..MaxSecond /\ known \in BOOLEAN /\ faults \in 0..MaxFaults
    /\ rows \subseteq Row /\ writing \subseteq Row /\ rows \cap writing = {}
    /\ chat \in Chat
    /\ chat.at # "idle" => chat.turn > 0
    /\ chat.at \in {"tools", "save", "saving"} => chat.round > 0 /\ chat.calls > 0

\* Where the rows of the message being answered have got to.
TurnInv ==
    /\ \A q \in All : q.turn <= chat.turn /\ q.sec <= now
    /\ ~known => \A q \in All : q.turn = chat.turn
    /\ chat.at # "idle" =>
          \A q \in All : q.turn = chat.turn =>
             /\ q.round <= chat.round
             /\ chat.at \in {"tools", "save"} => q.round < chat.round
             /\ chat.at # "replying" => q.role # "assistant"

IInv == /\ TypeInv /\ TurnInv
        /\ Orderly(All) /\ Orderly(chat.history) /\ Closed(chat.history)

--------------------------------------------------------------------------------
(* Lemmas about rows                                                       *)

LEMMA Bounds ==
    /\ MAX_TOOL_ROUNDS \in Nat /\ MaxToolCalls \in Nat /\ MaxMessages \in Nat
    /\ MaxSecond \in Nat /\ MaxFaults \in Nat
  BY RoundsAssumption, BoundAssumption

LEMMA RowType ==
    ASSUME NEW q \in Row
    PROVE  /\ q.sec \in Nat /\ q.turn \in Nat /\ q.round \in Nat /\ q.n \in Nat
           /\ q.role \in Roles
  BY Bounds DEF Row

LEMMA OrderlySubset ==
    ASSUME NEW s, NEW t \in SUBSET s, Orderly(s)
    PROVE  Orderly(t)
  BY DEF Orderly

\* Rows that come last keep the order.
LEMMA OrderlyAdds ==
    ASSUME NEW s, NEW t, Orderly(s), Orderly(t),
           \A q \in s, r \in t : /\ q.sec <= r.sec /\ ~Earlier(r, q)
                                 /\ ~SameRound(q, r) \/ r.role # "call"
    PROVE  Orderly(s \cup t)
  <1> DEFINE u == s \cup t
  <1>1. \A r \in u : IF r.role = "user" THEN r.round = 0
                     ELSE r.role \in {"call", "tool"} => r.round > 0
    BY DEF Orderly
  <1>2. ASSUME NEW r \in u, NEW q \in u, r.role = "call", q.role = "call", SameRound(r, q)
        PROVE  r = q
    BY <1>2 DEF Orderly, SameRound
  <1>3. ASSUME NEW r \in u, NEW q \in u, Earlier(r, q) PROVE r.sec <= q.sec
    BY <1>3 DEF Orderly
  <1> QED
    BY <1>1, <1>2, <1>3 DEF Orderly

LEMMA NewestAreRows == ASSUME NEW s \in NewestRows PROVE s \subseteq rows
  <1> DEFINE Since(r) == {q \in rows : q.sec >= r.sec}
             Fits == {r \in rows : Cardinality(Since(r)) <= HistoryLimit}
             Tied == {r \in rows \ Fits : \A q \in rows \ Fits : q.sec <= r.sec}
  <1>1. NewestRows = {Fits \cup t : t \in IF Tied = {} THEN {{}}
                                          ELSE kSubset(HistoryLimit - Cardinality(Fits), Tied)}
    BY Zenon DEF NewestRows
  <1>2. Fits \subseteq rows /\ Tied \subseteq rows
    OBVIOUS
  <1> HIDE DEF Fits, Tied
  <1>3. PICK t \in IF Tied = {} THEN {{}}
                   ELSE kSubset(HistoryLimit - Cardinality(Fits), Tied) : s = Fits \cup t
    BY <1>1
  <1>4. t \subseteq Tied
    BY <1>3 DEF kSubset
  <1> QED
    BY <1>2, <1>3, <1>4

\* What is left out of the history are whole rounds.
LEMMA BuildCloses ==
    ASSUME NEW s, Orderly(s)
    PROVE  /\ BuildOrchestratorHistory(s) \subseteq s
           /\ Orderly(BuildOrchestratorHistory(s)) /\ Closed(BuildOrchestratorHistory(s))
  <1> DEFINE h == BuildOrchestratorHistory(s)
  <1>1. h \subseteq s /\ \A q \in s : q \in h <=> (q.role \in {"call", "tool"} => Kept(s, q))
    BY DEF BuildOrchestratorHistory
  <1> HIDE DEF h
  <1>2. Orderly(h)
    BY <1>1, OrderlySubset
  <1>3. ASSUME NEW r \in h, r.role = "call" PROVE Complete(h, r)
    <2>1. PICK p \in s : p.role = "call" /\ SameRound(r, p) /\ Complete(s, p)
      BY <1>1, <1>3 DEF Kept
    <2>2. p = r
      BY <1>1, <1>3, <2>1 DEF Orderly
    <2>3. ToolsOf(h, r) = ToolsOf(s, r)
      <3>1. ASSUME NEW q \in s, q.role = "tool", SameRound(q, r) PROVE q \in h
        BY <1>1, <1>3, <2>1, <2>2, <3>1 DEF Kept
      <3> QED
        BY <1>1, <3>1 DEF ToolsOf
    <2> QED
      BY <2>1, <2>2, <2>3 DEF Complete
  <1>4. Closed(h)
    BY <1>3 DEF Closed
  <1> QED
    BY <1>1, <1>2, <1>4 DEF h

\* Nothing stands between the calls of a round and their results, if the seconds tell
\* the rounds apart.
LEMMA OrderlyAccepted ==
    ASSUME NEW h \in SUBSET Row, Orderly(h), Closed(h), \A r, q \in h : ~Collide(r, q)
    PROVE  Accepted(h)
  <1> SUFFICES ASSUME NEW r \in h, r.role = "call", NEW q \in h \ ({r} \cup ToolsOf(h, r))
               PROVE  /\ Complete(h, r)
                      /\ Before(q, r) \/ \A t \in ToolsOf(h, r) : Before(t, q)
    BY DEF Accepted, Closed
  <1>1. Complete(h, r)
    BY DEF Closed
  <1>2. r \in Row /\ q \in Row
    OBVIOUS
  <1>3. /\ r.sec \in Nat /\ r.turn \in Nat /\ r.round \in Nat
        /\ q.sec \in Nat /\ q.turn \in Nat /\ q.round \in Nat /\ q.role \in Roles
    BY <1>2, RowType
  <1>4. /\ RolePriority["user"] = 0 /\ RolePriority["call"] = 1
        /\ RolePriority["tool"] = 2 /\ RolePriority["assistant"] = 3
    BY DEF RolePriority
  <1>5. CASE SameRound(q, r)
    <2>1. q.role # "call" /\ q.role # "tool" /\ q.role # "user"
      <3>1. q.role # "call"
        BY <1>5 DEF Orderly
      <3>2. q.role # "tool"
        BY <1>5 DEF ToolsOf
      <3>3. q.role # "user"
        <4>1. r.round > 0 /\ (q.role = "user" => q.round = 0)
          BY DEF Orderly
        <4> QED
          BY <1>3, <1>5, <4>1 DEF SameRound
      <3> QED
        BY <3>1, <3>2, <3>3
    <2>2. q.role = "assistant"
      BY <1>3, <2>1 DEF Roles
    <2>3. ASSUME NEW t \in ToolsOf(h, r) PROVE Before(t, q)
      <3>1. t \in h /\ t.role = "tool" /\ SameRound(t, q)
        BY <1>5 DEF ToolsOf, SameRound
      <3>2. t.sec <= q.sec
        BY <2>2, <3>1 DEF Orderly, Earlier
      <3>3. t.sec \in Nat
        BY <3>1, RowType
      <3> QED
        BY <1>3, <1>4, <2>2, <3>1, <3>2, <3>3 DEF Before
    <2> QED
      BY <1>1, <2>3
  <1>6. CASE ~SameRound(q, r) /\ Earlier(q, r)
    <2>1. q.sec <= r.sec
      BY <1>6 DEF Orderly
    <2>2. q.sec = r.sec => q.role = "user"
      <3>1. ~Collide(r, q) /\ ~SameRound(r, q)
        BY <1>6 DEF SameRound
      <3> QED
        BY <3>1 DEF Collide
    <2>3. Before(q, r)
      BY <1>3, <1>4, <2>1, <2>2 DEF Before
    <2> QED
      BY <1>1, <2>3
  <1>7. CASE ~SameRound(q, r) /\ ~Earlier(q, r)
    <2>1. q.turn > r.turn \/ (q.turn = r.turn /\ q.round > r.round)
      BY <1>3, <1>7 DEF Earlier, SameRound
    <2>2. ASSUME NEW t \in ToolsOf(h, r) PROVE Before(t, q)
      <3>1. t \in h /\ t.role = "tool" /\ SameRound(t, r) /\ ~SameRound(t, q)
        BY <1>7 DEF ToolsOf, SameRound
      <3>2. t.sec \in Nat /\ t.turn = r.turn /\ t.round = r.round
        BY <3>1, RowType DEF SameRound
      <3>3. t.sec <= q.sec
        BY <1>3, <2>1, <3>1, <3>2 DEF Orderly, Earlier
      <3>4. q.role = "user" => q.turn > t.turn
        <4>1. r.round > 0 /\ (q.role = "user" => q.round = 0)
          BY DEF Orderly
        <4> QED
          BY <1>3, <2>1, <3>2, <4>1
      <3>5. t.sec # q.sec
        BY <3>1, <3>4 DEF Collide
      <3> QED
        BY <1>3, <3>2, <3>3, <3>5 DEF Before
    <2> QED
      BY <1>1, <2>2
  <1> QED
    BY <1>5, <1>6, <1>7

--------------------------------------------------------------------------------
(* The steps                                                               *)

\* What is demanded of the rows of the message being answered.
TurnRows(c, s) ==
    c.at # "idle" =>
       \A q \in s : q.turn = c.turn =>
          /\ q.round <= c.round
          /\ c.at \in {"tools", "save"} => q.round < c.round
          /\ c.at # "replying" => q.role # "assistant"

LEMMA TurnInvIs ==
    TurnInv <=> /\ \A q \in All : q.turn <= chat.turn /\ q.sec <= now
                /\ ~known => \A q \in All : q.turn = chat.turn
                /\ TurnRows(chat, All)
  BY DEF TurnInv, TurnRows

LEMMA FailedIsChat ==
    ASSUME NEW c \in Chat
    PROVE  /\ Failed(c) \in Chat /\ Failed(c).at = "idle" /\ Failed(c).turn = c.turn
           /\ Failed(c).history = {}
  <1>1. 0 \in 0..MAX_TOOL_ROUNDS /\ 0 \in 0..MaxToolCalls /\ {} \in SUBSET Row
    BY Bounds
  <1>2. "idle" \in At
    BY DEF At
  <1>3. Failed(c) \in Chat
    BY <1>1, <1>2 DEF Chat, Failed
  <1>4. /\ Failed(c).at = "idle" /\ Failed(c).turn = c.turn /\ Failed(c).history = {}
    BY DEF Chat, Failed
  <1> QED
    BY <1>3, <1>4

LEMMA EmptyHistory == Orderly({}) /\ Closed({})
  BY DEF Orderly, Closed

\* A step that adds no row.
LEMMA NoNewRows ==
    ASSUME IInv, now' \in 0..MaxSecond, now <= now', known' \in BOOLEAN,
           faults' \in 0..MaxFaults, All' \subseteq All, (rows \cap writing)' = {},
           chat' \in Chat, chat'.turn = chat.turn, chat'.at # "idle" => chat.at # "idle",
           chat'.at \in {"tools", "save", "saving"} => chat'.round > 0 /\ chat'.calls > 0,
           ~known' /\ known => All' = {},
           TurnRows(chat', All'),
           Orderly(chat'.history), Closed(chat'.history)
    PROVE  IInv'
  <1>1. All \subseteq Row /\ now \in Nat /\ now' \in Nat
    BY Bounds DEF IInv, TypeInv, All
  <1>2. TypeInv'
    BY <1>1 DEF IInv, TypeInv, All
  <1>3. \A q \in All' : q.turn <= chat'.turn /\ q.sec <= now'
    <2> SUFFICES ASSUME NEW q \in All' PROVE q.turn <= chat'.turn /\ q.sec <= now'
      OBVIOUS
    <2>1. q.turn <= chat.turn /\ q.sec <= now
      BY DEF IInv, TurnInv
    <2>2. q.sec \in Nat
      BY <1>1, RowType
    <2> QED
      BY <1>1, <2>1, <2>2
  <1>4. ~known' => \A q \in All' : q.turn = chat'.turn
    BY DEF IInv, TurnInv
  <1>5. TurnInv'
    BY <1>3, <1>4 DEF TurnInv, TurnRows
  <1>6. Orderly(All')
    BY OrderlySubset DEF IInv
  <1> QED
    BY <1>2, <1>5, <1>6 DEF IInv

LEMMA TurnRowsSubset ==
    ASSUME NEW c, NEW s, NEW t \in SUBSET s, TurnRows(c, s)
    PROVE  TurnRows(c, t)
  BY DEF TurnRows

LEMMA InsertKeeps ==
    ASSUME IInv, NEW r \in writing, Insert(r)
    PROVE  IInv'
  <1>1. All' = All /\ (rows \cap writing)' = {}
    BY DEF Insert, All, IInv, TypeInv
  <1>2. chat' = chat /\ now' = now /\ known' = known /\ faults' = faults
    BY DEF Insert
  <1>3. TurnRows(chat', All')
    BY <1>1, <1>2, TurnInvIs DEF IInv
  <1>4. now \in Nat
    BY Bounds DEF IInv, TypeInv
  <1> QED
    BY <1>1, <1>2, <1>3, <1>4, NoNewRows DEF IInv, TypeInv

LEMMA InsertFailsKeeps ==
    ASSUME IInv, NEW r \in writing, InsertFails(r)
    PROVE  IInv'
  <1>1. All' \subseteq All /\ (rows \cap writing)' = {}
    BY DEF InsertFails, All, IInv, TypeInv
  <1>2. now' = now /\ known' = known /\ now \in Nat /\ chat \in Chat
    BY Bounds DEF InsertFails, IInv, TypeInv
  <1>3. faults' \in 0..MaxFaults
    BY Bounds DEF InsertFails, IInv, TypeInv
  <1>4. chat' = chat \/ chat' = Failed(chat)
    BY DEF InsertFails
  <1>5. TurnRows(chat, All')
    BY <1>1, TurnInvIs, TurnRowsSubset DEF IInv
  <1>6. CASE chat' = chat
    BY <1>1, <1>2, <1>3, <1>5, <1>6, NoNewRows DEF IInv, TypeInv
  <1>7. CASE chat' = Failed(chat)
    <2>1. /\ chat' \in Chat /\ chat'.at = "idle" /\ chat'.turn = chat.turn
          /\ chat'.history = {}
      BY <1>2, <1>7, FailedIsChat
    <2>2. TurnRows(chat', All')
      BY <2>1 DEF TurnRows
    <2> QED
      BY <1>1, <1>2, <1>3, <2>1, <2>2, NoNewRows, EmptyHistory DEF IInv, TypeInv
  <1> QED
    BY <1>4, <1>6, <1>7

\* The message ends: with its reply, or with an error.
LEMMA EndsKeep ==
    ASSUME IInv, now' = now, known' \in BOOLEAN, faults' \in 0..MaxFaults,
           All' \subseteq All, (rows \cap writing)' = {}, ~known' /\ known => All' = {},
           chat' = Failed(chat)
    PROVE  IInv'
  <1>1. chat \in Chat /\ now \in Nat /\ now \in 0..MaxSecond
    BY Bounds DEF IInv, TypeInv
  <1>2. /\ chat' \in Chat /\ chat'.at = "idle" /\ chat'.turn = chat.turn
        /\ chat'.history = {}
    BY <1>1, FailedIsChat
  <1>3. TurnRows(chat', All')
    BY <1>2 DEF TurnRows
  <1> QED
    BY <1>1, <1>2, <1>3, NoNewRows, EmptyHistory

LEMMA ReplyKeeps ==
    ASSUME IInv, Reply
    PROVE  IInv'
  BY EndsKeep DEF Reply, IInv, TypeInv, All

LEMMA ThrowsKeeps ==
    ASSUME IInv, Throws
    PROVE  IInv'
  <1>1. faults' \in 0..MaxFaults
    BY Bounds DEF Throws, IInv, TypeInv
  <1> QED
    BY <1>1, EndsKeep DEF Throws, IInv, TypeInv, All

LEMMA CrashKeeps ==
    ASSUME IInv, Crash
    PROVE  IInv'
  <1>1. faults' \in 0..MaxFaults
    BY Bounds DEF Crash, IInv, TypeInv
  <1>2. All' = {} /\ (rows \cap writing)' = {}
    BY DEF Crash, All
  <1> QED
    BY <1>1, <1>2, EndsKeep DEF Crash

LEMMA TickKeeps ==
    ASSUME IInv, Tick
    PROVE  IInv'
  <1>1. now' \in 0..MaxSecond /\ now <= now'
    BY Bounds DEF Tick, IInv, TypeInv
  <1>2. All' = All /\ (rows \cap writing)' = rows \cap writing
    BY DEF Tick, All
  <1>3. TurnRows(chat, All')
    BY <1>2, TurnInvIs DEF IInv
  <1> QED
    BY <1>1, <1>2, <1>3, NoNewRows DEF Tick, IInv, TypeInv

\* A step of the message that adds no row and takes none.
LEMMA StepsKeep ==
    ASSUME IInv, UNCHANGED <<now, known, faults>>, All' \subseteq All,
           (rows \cap writing)' = {},
           chat' \in Chat, chat'.turn = chat.turn,
           chat'.at \in {"tools", "save", "saving"} => chat'.round > 0 /\ chat'.calls > 0,
           chat.at # "idle", chat'.round >= chat.round,
           chat'.at \in {"tools", "save"} =>
              chat'.round > chat.round \/ chat.at \in {"tools", "save"},
           chat.at # "replying",
           Orderly(chat'.history), Closed(chat'.history)
    PROVE  IInv'
  <1>1. now \in Nat /\ now \in 0..MaxSecond
    BY Bounds DEF IInv, TypeInv
  <1>2. chat.round \in Nat /\ chat'.round \in Nat /\ All \subseteq Row
    BY Bounds DEF IInv, TypeInv, Chat, All
  <1>3. TurnRows(chat', All')
    <2> SUFFICES ASSUME NEW q \in All', q.turn = chat'.turn
                 PROVE  /\ q.round <= chat'.round
                        /\ chat'.at \in {"tools", "save"} => q.round < chat'.round
                        /\ chat'.at # "replying" => q.role # "assistant"
      BY DEF TurnRows
    <2>1. /\ q.round <= chat.round
          /\ chat.at \in {"tools", "save"} => q.round < chat.round
          /\ q.role # "assistant"
      BY TurnInvIs DEF IInv, TurnRows
    <2>2. q.round \in Nat
      BY <1>2, RowType
    <2> QED
      BY <1>2, <2>1, <2>2
  <1> QED
    BY <1>1, <1>3, NoNewRows DEF IInv, TypeInv

LEMMA LoadHistoryKeeps ==
    ASSUME IInv, LoadHistory
    PROVE  IInv'
  <1>1. PICK s \in NewestRows :
          chat' = [chat EXCEPT !.at = "model", !.history = BuildOrchestratorHistory(s)]
    BY DEF LoadHistory
  <1> DEFINE h == BuildOrchestratorHistory(s)
  <1>2. s \subseteq rows /\ Orderly(s) /\ rows \subseteq Row
    BY NewestAreRows, OrderlySubset DEF IInv, All, TypeInv
  <1>3. h \subseteq s /\ Orderly(h) /\ Closed(h)
    BY <1>2, BuildCloses
  <1>4. chat' = [chat EXCEPT !.at = "model", !.history = h]
    BY <1>1
  <1> HIDE DEF h
  <1>5. chat \in Chat /\ h \in SUBSET Row /\ "model" \in At
    BY <1>2, <1>3 DEF IInv, TypeInv, At
  <1>6. /\ chat' \in Chat /\ chat'.turn = chat.turn /\ chat'.round = chat.round
        /\ chat'.at = "model" /\ chat'.history = h
    BY <1>4, <1>5 DEF Chat
  <1>7. chat.round \in Nat
    BY <1>5, Bounds DEF Chat
  <1>8. UNCHANGED <<now, known, rows, writing, faults>> /\ chat.at = "load"
    BY DEF LoadHistory
  <1> QED
    BY <1>3, <1>6, <1>7, <1>8, StepsKeep DEF IInv, TypeInv, All

LEMMA GoesKeeps ==
    ASSUME IInv, UNCHANGED <<now, known, faults>>, All' \subseteq All,
           (rows \cap writing)' = {}, NEW a \in At \ {"tools"}, Goes(a),
           chat.at \notin {"idle", "replying"}, a \in {"save", "saving"} => chat.at = "tools"
    PROVE  IInv'
  <1>1. chat \in Chat /\ chat.round \in Nat
    BY Bounds DEF IInv, TypeInv, Chat
  <1>2. /\ chat' \in Chat /\ chat'.turn = chat.turn /\ chat'.round = chat.round
        /\ chat'.at = a /\ chat'.history = chat.history /\ chat'.calls = chat.calls
    BY <1>1 DEF Goes, Chat
  <1>3. chat'.at \in {"tools", "save", "saving"} => chat'.round > 0 /\ chat'.calls > 0
    BY <1>2 DEF IInv, TypeInv
  <1> QED
    BY <1>1, <1>2, <1>3, StepsKeep DEF IInv

LEMMA NextRoundKeeps ==
    ASSUME IInv, NextRound
    PROVE  IInv'
  <1>1. All' = All /\ (rows \cap writing)' = {}
    BY DEF NextRound, All, IInv, TypeInv
  <1> QED
    BY <1>1, GoesKeeps DEF NextRound, At

LEMMA RunToolsKeeps ==
    ASSUME IInv, RunTools
    PROVE  IInv'
  <1>1. rows' \in {rows} \cup {Execute(a) : a \in Answers[MessageCount]}
    BY DEF RunTools
  <1>2. rows' \subseteq rows
    BY <1>1 DEF Execute
  <1>3. All' \subseteq All /\ (rows \cap writing)' = {}
    BY <1>2 DEF RunTools, All, IInv, TypeInv
  <1> QED
    BY <1>3, GoesKeeps DEF RunTools, At

LEMMA AskModelKeeps ==
    ASSUME IInv, AskModel
    PROVE  IInv'
  <1>1. /\ UNCHANGED <<now, known, rows, writing, faults>> /\ chat.at = "model"
        /\ All' = All /\ (rows \cap writing)' = {} /\ chat \in Chat
    BY DEF AskModel, All, IInv, TypeInv
  <1>2. /\ chat.round \in Nat /\ chat.calls \in Nat /\ chat.round \in 0..MAX_TOOL_ROUNDS
        /\ "reply" \in At /\ "tools" \in At /\ {} \in SUBSET Row
    BY <1>1, Bounds DEF Chat, At
  <1>3. CASE chat.round = MAX_TOOL_ROUNDS
    BY <1>1, <1>2, <1>3, GoesKeeps DEF AskModel
  <1>4. CASE chat' = Failed(chat)
    BY <1>1, <1>4, EndsKeep DEF IInv, TypeInv
  <1>5. CASE chat' = [chat EXCEPT !.at = "reply", !.history = {}]
    <2>1. /\ chat' \in Chat /\ chat'.turn = chat.turn /\ chat'.round = chat.round
          /\ chat'.at = "reply" /\ chat'.history = {}
      BY <1>1, <1>2, <1>5 DEF Chat
    <2> QED
      BY <1>1, <1>2, <2>1, StepsKeep, EmptyHistory
  <1>6. ASSUME chat.round # MAX_TOOL_ROUNDS, NEW k \in 1..(MaxToolCalls - chat.round),
               chat' = [chat EXCEPT !.at = "tools", !.round = @ + 1, !.calls = k,
                                    !.history = {}]
        PROVE  IInv'
    <2> DEFINE m == chat.round + 1
    <2>1. m \in 0..MAX_TOOL_ROUNDS /\ m > 0 /\ m >= chat.round /\ m > chat.round
      BY <1>2, <1>6, Bounds
    <2>2. k \in 0..MaxToolCalls /\ k > 0
      BY <1>2, Bounds
    <2>3. chat' = [chat EXCEPT !.at = "tools", !.round = m, !.calls = k, !.history = {}]
      BY <1>6
    <2> HIDE DEF m
    <2>4. /\ chat' \in Chat /\ chat'.turn = chat.turn /\ chat'.round = m
          /\ chat'.calls = k /\ chat'.at = "tools" /\ chat'.history = {}
      BY <1>1, <1>2, <2>1, <2>2, <2>3 DEF Chat
    <2> QED
      BY <1>1, <1>2, <2>1, <2>2, <2>4, StepsKeep, EmptyHistory
  <1> QED
    BY <1>3, <1>4, <1>5, <1>6 DEF AskModel

\* A step that sends rows on their way: they are of the message being answered and
\* come after all others.
LEMMA NewRows ==
    ASSUME IInv, NEW s \in SUBSET Row, NEW t \in SUBSET Row, All' = s \cup t,
           s \subseteq All, rows' \subseteq Row, writing' \subseteq Row,
           (rows \cap writing)' = {},
           now' \in 0..MaxSecond, now <= now', UNCHANGED <<known, faults>>,
           chat' \in Chat, chat'.turn >= chat.turn, chat'.turn > 0,
           chat'.history = chat.history,
           chat'.at \in {"tools", "save", "saving"} => chat'.round > 0 /\ chat'.calls > 0,
           ~known => \A q \in s : q.turn = chat'.turn,
           TurnRows(chat', s), TurnRows(chat', t), Orderly(t),
           \A r \in t : now <= r.sec /\ r.sec <= now' /\ r.turn = chat'.turn,
           \A q \in s, r \in t : /\ ~Earlier(r, q)
                                 /\ ~SameRound(q, r) \/ r.role # "call"
    PROVE  IInv'
  <1>1. now \in Nat /\ now' \in Nat /\ chat.turn \in Nat /\ chat'.turn \in Nat
    BY Bounds DEF IInv, TypeInv, Chat
  <1>2. \A q \in s : q.turn \in Nat /\ q.sec \in Nat /\ q.turn <= chat.turn /\ q.sec <= now
    BY RowType DEF IInv, TurnInv
  <1>3. \A r \in t : r.sec \in Nat
    BY RowType
  <1>4. TypeInv'
    BY DEF IInv, TypeInv
  <1>5. TurnInv'
    <2>1. \A q \in All' : q.turn <= chat'.turn /\ q.sec <= now'
      BY <1>1, <1>2, <1>3
    <2>2. ~known' => \A q \in All' : q.turn = chat'.turn
      OBVIOUS
    <2>3. TurnRows(chat', All')
      BY DEF TurnRows
    <2> QED
      BY <2>1, <2>2, <2>3 DEF TurnInv, TurnRows
  <1>6. Orderly(s)
    BY OrderlySubset DEF IInv
  <1>7. \A q \in s, r \in t : q.sec <= r.sec
    BY <1>1, <1>2, <1>3
  <1>8. Orderly(s \cup t)
    BY <1>6, <1>7, OrderlyAdds
  <1> QED
    BY <1>4, <1>5, <1>8 DEF IInv

LEMMA ReceiveKeeps ==
    ASSUME IInv, Receive
    PROVE  IInv'
  <1> DEFINE u == [role |-> "user", sec |-> now, turn |-> chat.turn + 1, round |-> 0,
                   n |-> 0]
             s == rows' \cup InitConversation(writing)
             n == chat.turn + 1
  <1>1. /\ chat \in Chat /\ chat.turn \in Nat /\ chat.turn < MaxMessages
        /\ now \in 0..MaxSecond /\ chat.at = "idle" /\ now \in Nat
    BY Bounds DEF Receive, IInv, TypeInv, Chat
  <1>2. n \in 0..MaxMessages /\ n \in 1..MaxMessages /\ n > chat.turn /\ n \in Nat
    BY <1>1, Bounds
  <1>3. now \in 0..(MaxSecond + 1) /\ 0 \in 0..MAX_TOOL_ROUNDS /\ 0 \in 0..MaxToolCalls
    BY <1>1, Bounds
  <1>4. /\ u.turn = n /\ u.sec = now /\ u.round = 0 /\ u.role = "user"
    OBVIOUS
  <1>5. chat' = [chat EXCEPT !.at = "load", !.turn = n]
    BY DEF Receive
  <1>6. u = [role |-> "user", sec |-> now, turn |-> n, round |-> 0, n |-> 0]
    OBVIOUS
  <1>7. /\ rows' = InitConversation(rows)
        /\ writing' = InitConversation(writing) \cup {u}
    BY DEF Receive
  <1> HIDE DEF n
  <1>8. u \in Row
    BY <1>2, <1>3, <1>6 DEF Row, Roles
  <1> HIDE DEF u
  <1>9. /\ chat' \in Chat /\ chat'.turn = n /\ chat'.at = "load"
        /\ chat'.history = chat.history /\ chat'.round = chat.round
    BY <1>1, <1>2, <1>5 DEF Chat, At
  <1>10. s \subseteq All /\ All' = s \cup {u} /\ (~known => s = {})
    BY <1>7 DEF InitConversation, All
  <1>11. All \subseteq Row /\ rows \cap writing = {}
    BY DEF IInv, TypeInv, All
  <1>12. \A q \in s : q.turn < n
    <2> SUFFICES ASSUME NEW q \in s PROVE q.turn < n
      OBVIOUS
    <2>1. q.turn <= chat.turn /\ q.turn \in Nat
      BY <1>10, <1>11, RowType DEF IInv, TurnInv
    <2> QED
      BY <1>1, <1>2, <2>1
  <1>13. \A q \in s : q.turn \in Nat
    BY <1>10, <1>11, RowType
  <1>14. u \notin s
    BY <1>2, <1>4, <1>12
  <1>15. (rows \cap writing)' = {} /\ rows' \subseteq Row /\ writing' \subseteq Row
    BY <1>7, <1>8, <1>10, <1>11, <1>14 DEF InitConversation, All
  <1> HIDE DEF s
  <1>16. TurnRows(chat', s)
    BY <1>2, <1>9, <1>12, <1>13 DEF TurnRows
  <1>17. TurnRows(chat', {u})
    <2>1. chat'.round \in Nat
      BY <1>9, Bounds DEF Chat
    <2> QED
      BY <1>4, <1>9, <2>1 DEF TurnRows
  <1>18. Orderly({u})
    BY <1>1, <1>4 DEF Orderly
  <1>19. \A q \in s, r \in {u} : ~Earlier(r, q) /\ ~SameRound(q, r)
    BY <1>2, <1>4, <1>12, <1>13 DEF Earlier, SameRound
  <1>20. UNCHANGED <<now, known, faults>>
    BY DEF Receive
  <1>21. s \in SUBSET Row /\ {u} \in SUBSET Row
    BY <1>8, <1>10, <1>11
  <1>22. \A r \in {u} : now <= r.sec /\ r.sec <= now' /\ r.turn = chat'.turn
    BY <1>1, <1>4, <1>9, <1>20
  <1>23. chat'.turn >= chat.turn /\ chat'.turn > 0 /\ now <= now' /\ now' \in 0..MaxSecond
    BY <1>1, <1>2, <1>9, <1>20
  <1> QED
    BY <1>9, <1>10, <1>15, <1>16, <1>17, <1>18, <1>19, <1>20, <1>21, <1>22, <1>23, NewRows

\* The rows that a message being answered sends on their way.
LEMMA SendsKeep ==
    ASSUME IInv, NEW t \in SUBSET Row, UNCHANGED <<known, rows, faults>>,
           writing' = writing \cup t, now' \in 0..MaxSecond, now <= now',
           NEW a \in {"saving", "replying"}, Goes(a),
           a = "saving" => chat.at = "save", a = "replying" => chat.at = "reply",
           \A r \in t : /\ now <= r.sec /\ r.sec <= now'
                        /\ r.turn = chat.turn /\ r.round = chat.round
                        /\ IF a = "saving" THEN r.role \in {"call", "tool"}
                                           ELSE r.role = "assistant",
           Orderly(t)
    PROVE  IInv'
  <1>1. /\ chat \in Chat /\ chat.turn \in Nat /\ chat.round \in Nat
        /\ chat.at \notin {"idle", "replying"} /\ a \in At
    BY Bounds DEF IInv, TypeInv, Chat, At
  <1>2. /\ chat' \in Chat /\ chat'.turn = chat.turn /\ chat'.round = chat.round
        /\ chat'.at = a /\ chat'.history = chat.history /\ chat'.calls = chat.calls
    BY <1>1 DEF Goes, Chat
  <1>3. All \subseteq Row /\ All' = All \cup t
    BY DEF IInv, TypeInv, All
  <1>4. \A q \in All : q.turn \in Nat /\ q.round \in Nat /\ q.turn <= chat.turn
    BY <1>3, RowType DEF IInv, TurnInv
  <1>5. \A q \in All : q.turn = chat.turn =>
           /\ q.round <= chat.round /\ q.role # "assistant"
           /\ a = "saving" => q.round < chat.round
    BY <1>1 DEF IInv, TurnInv
  <1>6. TurnRows(chat', All)
    BY <1>2, <1>4, <1>5 DEF TurnRows
  <1>7. TurnRows(chat', t)
    BY <1>1, <1>2 DEF TurnRows
  <1>8. \A q \in All, r \in t : ~Earlier(r, q) /\ (~SameRound(q, r) \/ r.role # "call")
    <2> SUFFICES ASSUME NEW q \in All, NEW r \in t
                 PROVE  ~Earlier(r, q) /\ (~SameRound(q, r) \/ r.role # "call")
      OBVIOUS
    <2>1. ~(r.turn < q.turn) /\ ~(r.turn = q.turn /\ r.round < q.round)
      BY <1>1, <1>4, <1>5
    <2>2. SameRound(r, q) => a = "replying" /\ q.role # "assistant"
      BY <1>1, <1>4, <1>5 DEF SameRound
    <2> QED
      BY <2>1, <2>2 DEF Earlier, SameRound
  <1>9. t \cap All = {}
    BY <1>1, <1>4, <1>5
  <1>10. (rows \cap writing)' = {} /\ rows' \subseteq Row /\ writing' \subseteq Row
    BY <1>9 DEF IInv, TypeInv, All
  <1>11. \A r \in t : now <= r.sec /\ r.sec <= now' /\ r.turn = chat'.turn
    BY <1>2
  <1>12. ~known => \A q \in All : q.turn = chat'.turn
    BY <1>2 DEF IInv, TurnInv
  <1>13. chat'.at \in {"tools", "save", "saving"} => chat'.round > 0 /\ chat'.calls > 0
    BY <1>2 DEF IInv, TypeInv
  <1>14. chat'.turn >= chat.turn /\ chat'.turn > 0
    BY <1>1, <1>2 DEF IInv, TypeInv
  <1> QED
    BY <1>2, <1>3, <1>6, <1>7, <1>8, <1>10, <1>11, <1>12, <1>13, <1>14, NewRows

\* A row of the message being answered.
Sent(role, n, sec) ==
    [role |-> role, sec |-> sec, turn |-> chat.turn, round |-> chat.round, n |-> n]

LEMMA SentRow ==
    ASSUME IInv, chat.at # "idle", NEW role \in Roles, NEW n \in 0..MaxToolCalls,
           NEW sec \in {now, now + 1}
    PROVE  Sent(role, n, sec) \in Row
  <1>1. /\ chat \in Chat /\ now \in 0..MaxSecond /\ chat.turn > 0
    BY DEF IInv, TypeInv
  <1>2. chat.turn \in 1..MaxMessages /\ chat.round \in 0..MAX_TOOL_ROUNDS
    BY <1>1, Bounds DEF Chat
  <1>3. sec \in 0..(MaxSecond + 1)
    BY <1>1, Bounds
  <1> QED
    BY <1>2, <1>3 DEF Row, Sent

LEMMA SaveReplyKeeps ==
    ASSUME IInv, SaveReply
    PROVE  IInv'
  <1> DEFINE r == Sent("assistant", 0, now)
  <1>1. now \in Nat /\ now \in 0..MaxSecond /\ chat.at = "reply"
    BY Bounds DEF IInv, TypeInv, SaveReply
  <1>2. r = Stamped("assistant", chat.round, 0)
    BY DEF Stamped, Sent
  <1>3. 0 \in 0..MaxToolCalls /\ "assistant" \in Roles
    BY Bounds DEF Roles
  <1>4. /\ r \in Row /\ r.role = "assistant" /\ r.sec = now /\ r.turn = chat.turn
        /\ r.round = chat.round
    <2>1. r \in Row
      BY <1>1, <1>3, SentRow
    <2> QED
      BY <2>1 DEF Sent
  <1>5. writing' = writing \cup {r} /\ Goes("replying")
    BY <1>2 DEF SaveReply
  <1> HIDE DEF r
  <1>6. Orderly({r})
    BY <1>1, <1>4 DEF Orderly, Earlier
  <1>7. UNCHANGED <<now, known, rows, faults>>
    BY DEF SaveReply
  <1>8. \A q \in {r} : /\ now <= q.sec /\ q.sec <= now'
                       /\ q.turn = chat.turn /\ q.round = chat.round
                       /\ q.role = "assistant"
    BY <1>1, <1>4, <1>7
  <1>9. {r} \in SUBSET Row /\ now' \in 0..MaxSecond /\ now <= now'
    BY <1>1, <1>4, <1>7
  <1> QED
    BY <1>1, <1>5, <1>6, <1>7, <1>8, <1>9, SendsKeep

LEMMA SaveRoundKeeps ==
    ASSUME IInv, SaveRound
    PROVE  IInv'
  <1>1. PICK split \in 1..(chat.calls + 1) :
          /\ split <= chat.calls => now < MaxSecond
          /\ writing' = writing
               \cup {Stamped("call", chat.round, chat.calls)}
               \cup {[Stamped("tool", chat.round, k) EXCEPT
                        !.sec = IF k >= split THEN now + 1 ELSE now] : k \in 1..chat.calls}
          /\ now' = IF split <= chat.calls THEN now + 1 ELSE now
    BY DEF SaveRound
  <1> DEFINE c == Sent("call", chat.calls, now)
             S(k) == IF k >= split THEN now + 1 ELSE now
             R(k) == Sent("tool", k, S(k))
             t == {c} \cup {R(k) : k \in 1..chat.calls}
  <1>2. /\ now \in Nat /\ now \in 0..MaxSecond /\ chat.at = "save" /\ chat \in Chat
        /\ chat.calls \in 0..MaxToolCalls /\ chat.calls \in Nat /\ chat.round > 0
        /\ chat.round \in Nat
    BY Bounds DEF IInv, TypeInv, SaveRound, Chat
  <1>3. c = Stamped("call", chat.round, chat.calls)
    BY DEF Stamped, Sent
  <1>4. writing' = writing \cup t
    <2>1. ASSUME NEW k \in 1..chat.calls
          PROVE  [Stamped("tool", chat.round, k) EXCEPT
                    !.sec = IF k >= split THEN now + 1 ELSE now] = R(k)
      BY DEF Stamped, Sent
    <2> QED
      BY <1>1, <1>3, <2>1
  <1>5. now' \in 0..MaxSecond /\ now <= now'
    BY <1>1, <1>2, Bounds
  <1>6. /\ c \in Row /\ c.role = "call" /\ c.sec = now /\ c.turn = chat.turn
        /\ c.round = chat.round
    <2>1. "call" \in Roles
      BY DEF Roles
    <2>2. c \in Row
      BY <1>2, <2>1, SentRow
    <2> QED
      BY <2>2 DEF Sent
  <1>7. ASSUME NEW k \in 1..chat.calls
        PROVE  /\ R(k) \in Row /\ R(k).role = "tool" /\ R(k).sec = S(k)
               /\ R(k).turn = chat.turn /\ R(k).round = chat.round
               /\ now <= R(k).sec /\ R(k).sec <= now'
    <2>1. k \in 0..MaxToolCalls /\ "tool" \in Roles
      BY <1>2, Bounds DEF Roles
    <2>2. S(k) \in {now, now + 1}
      OBVIOUS
    <2>3. now <= S(k) /\ S(k) <= now'
      BY <1>1, <1>2
    <2> HIDE DEF S
    <2>4. R(k) \in Row
      BY <1>2, <2>1, <2>2, SentRow
    <2> QED
      BY <2>3, <2>4 DEF Sent
  <1> HIDE DEF c, R
  <1>8. \A r \in t : r = c \/ \E k \in 1..chat.calls : r = R(k)
    OBVIOUS
  <1>9. t \in SUBSET Row
    BY <1>6, <1>7
  <1> HIDE DEF t
  <1>10. \A r \in t : /\ now <= r.sec /\ r.sec <= now'
                      /\ r.turn = chat.turn /\ r.round = chat.round
                      /\ r.role \in {"call", "tool"}
                      /\ r.role = "call" => r = c
    BY <1>2, <1>5, <1>6, <1>7, <1>8
  <1>11. \A r \in t : r.sec \in Nat
    BY <1>9, RowType
  <1>12. Orderly(t)
    <2>1. \A r, q \in t : ~Earlier(r, q)
      <3>1. chat.turn \in Nat
        BY <1>2, Bounds DEF Chat
      <3> QED
        BY <1>2, <1>10, <3>1 DEF Earlier
    <2> QED
      BY <1>2, <1>10, <2>1 DEF Orderly
  <1>13. UNCHANGED <<known, rows, faults>> /\ Goes("saving")
    BY DEF SaveRound
  <1> QED
    BY <1>2, <1>4, <1>5, <1>9, <1>10, <1>12, <1>13, SendsKeep

--------------------------------------------------------------------------------
(* The theorems                                                            *)

LEMMA InitHolds == Init => IInv
  <1> SUFFICES ASSUME Init PROVE IInv
    OBVIOUS
  <1>1. chat \in Chat /\ chat.at = "idle" /\ chat.turn = 0 /\ chat.history = {}
    BY Bounds DEF Init, Chat, At
  <1>2. TypeInv
    <2>1. now \in 0..MaxSecond /\ faults \in 0..MaxFaults
      BY Bounds DEF Init
    <2> QED
      BY <1>1, <2>1 DEF Init, TypeInv
  <1>3. All = {}
    BY DEF Init, All
  <1> QED
    BY <1>1, <1>2, <1>3, EmptyHistory DEF IInv, TurnInv

LEMMA StepHolds == IInv /\ [Next]_vars => IInv'
  <1> SUFFICES ASSUME IInv, [Next]_vars PROVE IInv'
    OBVIOUS
  <1>1. CASE UNCHANGED vars
    <2>1. All' = All
      BY <1>1 DEF vars, All
    <2> QED
      BY <1>1, <2>1 DEF vars, IInv, TypeInv, TurnInv
  <1>2. ASSUME NEW r \in writing, Insert(r) PROVE IInv'
    BY <1>2, InsertKeeps
  <1>3. ASSUME NEW r \in writing, InsertFails(r) PROVE IInv'
    BY <1>3, InsertFailsKeeps
  <1>4. CASE Receive
    BY <1>4, ReceiveKeeps
  <1>5. CASE LoadHistory
    BY <1>5, LoadHistoryKeeps
  <1>6. CASE AskModel
    BY <1>6, AskModelKeeps
  <1>7. CASE RunTools
    BY <1>7, RunToolsKeeps
  <1>8. CASE SaveRound
    BY <1>8, SaveRoundKeeps
  <1>9. CASE NextRound
    BY <1>9, NextRoundKeeps
  <1>10. CASE SaveReply
    BY <1>10, SaveReplyKeeps
  <1>11. CASE Reply
    BY <1>11, ReplyKeeps
  <1>12. CASE Tick
    BY <1>12, TickKeeps
  <1>13. CASE Throws
    BY <1>13, ThrowsKeeps
  <1>14. CASE Crash
    BY <1>14, CrashKeeps
  <1> QED
    BY <1>1, <1>2, <1>3, <1>4, <1>5, <1>6, <1>7, <1>8, <1>9, <1>10, <1>11, <1>12, <1>13,
       <1>14 DEF Next

LEMMA Invariant == Spec => []IInv
  BY InitHolds, StepHolds, PTL DEF Spec

\* Every variable has its type, a message that runs tools has calls, and a conversation
\* that the process does not know has only rows of the message being answered
\* (assistant.usecase.ts, chat and initConversation).
THEOREM TypeCorrect == Spec => []TypeOK
  <1>1. IInv => TypeOK
    BY DEF IInv, TypeInv, TurnInv, TypeOK, Chat, At, All
  <1> QED
    BY <1>1, Invariant, PTL

\* Whatever failed, was cut off, deleted or written late, the history that the model is
\* sent is one that it accepts, as long as no two steps carry the same second: for every
\* limit of the history, number of rounds and number of calls
\* (assistant.usecase.ts, buildOrchestratorHistory).
THEOREM HistoryFits == Spec => []HistoryAccepted
  <1>1. IInv => HistoryAccepted
    <2> SUFFICES ASSUME IInv, \A r, q \in chat.history : ~Collide(r, q)
                 PROVE  Accepted(chat.history)
      BY DEF HistoryAccepted
    <2>1. chat.history \in SUBSET Row
      BY DEF IInv, TypeInv, Chat
    <2> QED
      BY <2>1, OrderlyAccepted DEF IInv
  <1> QED
    BY <1>1, Invariant, PTL
================================================================================
