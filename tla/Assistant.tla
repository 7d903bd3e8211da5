------------------------------- MODULE Assistant -------------------------------
(***************************************************************************)
(* Free text: AssistantChatCapability and AssistantUseCaseImpl.chat, which *)
(* asks the language model in rounds, runs the tools it calls, and keeps   *)
(* everything said in table messages as the history of the next message.   *)
(*                                                                         *)
(* The rows of a step are inserted at the same time, stamped to the        *)
(* second.  When one insert fails the message is answered with an error    *)
(* while the others go on: writing holds what is still on its way.         *)
(*                                                                         *)
(* One chat, whose messages the bot handles one after the other.  A        *)
(* conversation is only known to the memory of the process, and one that   *)
(* it does not know is never read again: rows is the known one.            *)
(*                                                                         *)
(* Environment: the messages, what the model answers and the tools return, *)
(* the clock, faults of the database and of the model, crashes.            *)
(***************************************************************************)
EXTENDS IntentExecution, FiniteSetsExt

CONSTANTS MAX_TOOL_ROUNDS,
          MaxToolCalls,   \* bound: calls in the first round, one fewer in each other
          HistoryLimit,   \* messages of the history, 20 in the code
          Intents,        \* environment: what the parser reads out of the messages
          MaxMessages,    \* bound: messages
          MaxSecond,      \* bound: the clock
          MaxFaults       \* bound: faults and crashes

ASSUME RoundsAssumption == MAX_TOOL_ROUNDS \in Nat \ {0} /\ MaxToolCalls \in Nat \ {0}
ASSUME LimitAssumption == HistoryLimit \in Nat /\ Intents \subseteq Intent \cup {NoIntent}
ASSUME BoundAssumption == MaxMessages \in Nat /\ MaxSecond \in Nat /\ MaxFaults \in Nat

VARIABLES now,        \* the second
          known,      \* conversations.get: the process knows a conversation
          rows,       \* table messages, its rows of that conversation
          writing,    \* inserts on their way
          chat,       \* the message being answered
          faults      \* faults so far

vars == <<now, known, rows, writing, chat, faults>>

\* A row of the table.  n is the number of tool calls of a row of role call, and
\* the call answered by one of role tool; turn and round say where it came from.
Roles == {"user", "call", "tool", "assistant"}
Row == [role: Roles, sec: 0..(MaxSecond + 1), turn: 1..MaxMessages,
        round: 0..MAX_TOOL_ROUNDS, n: 0..MaxToolCalls]

Init ==
    /\ now = 0 /\ known = FALSE /\ rows = {} /\ writing = {} /\ faults = 0
    /\ chat = [at |-> "idle", turn |-> 0, round |-> 0, calls |-> 0, history |-> {}]

-----------------------------------------------------------------------------
(* The history that the model is sent *)

SameRound(r, q) == r.turn = q.turn /\ r.round = q.round

RolePriority == [user |-> 0, call |-> 1, tool |-> 2, assistant |-> 3]

\* The order of the history: by second, then by role.  Rows that tie stand in any
\* order, since the query has none for them.
Before(r, q) == \/ r.sec < q.sec
                \/ r.sec = q.sec /\ RolePriority[r.role] < RolePriority[q.role]

\* What findByConversationId and slice may return: the newest rows; which ones of the
\* last second that does not fit as a whole is up to the database.
NewestRows ==
    LET Since(r) == {q \in rows : q.sec >= r.sec}
        Fits == {r \in rows : Cardinality(Since(r)) <= HistoryLimit}
        Tied == {r \in rows \ Fits : \A q \in rows \ Fits : q.sec <= r.sec}
    IN  {Fits \cup s : s \in IF Tied = {} THEN {{}}
                             ELSE kSubset(HistoryLimit - Cardinality(Fits), Tied)}

ToolsOf(s, r) == {q \in s : q.role = "tool" /\ SameRound(q, r)}

\* A row of calls is kept if the result of every call is there.
Complete(s, r) == Cardinality(ToolsOf(s, r)) = r.n

Kept(s, q) == \E r \in s : r.role = "call" /\ SameRound(q, r) /\ Complete(s, r)

\* Mutant: the history is sent as it was cut off.
BuildOrchestratorHistoryRaw(s) == s

\* buildOrchestratorHistory: calls without all their results are left out, and
\* results without their calls.
BuildOrchestratorHistory(s) ==
    {q \in s : q.role \in {"call", "tool"} => Kept(s, q)}

\* The model's API wants the results of a row of calls right after it: no other row
\* may stand between them, in whatever order the ties come.
Accepted(h) ==
    \A r \in {q \in h : q.role = "call"} :
      /\ Complete(h, r)
      /\ \A q \in h \ ({r} \cup ToolsOf(h, r)) :
           Before(q, r) \/ \A t \in ToolsOf(h, r) : Before(t, q)

-----------------------------------------------------------------------------
(* The inserts *)

\* The inserts that the message waits for.
Awaited == {r \in writing : r.turn = chat.turn}

Goes(at) == chat' = [chat EXCEPT !.at = at]

\* The answer is an error; what is being written goes on.
Failed(c) == [c EXCEPT !.at = "idle", !.round = 0, !.calls = 0, !.history = {}]

\* A row arrives, whether or not somebody still waits for it.
Insert(r) ==
    /\ r \in writing
    /\ rows' = rows \cup {r} /\ writing' = writing \ {r}
    /\ UNCHANGED <<now, known, chat, faults>>

\* An insert fails, and with it the message that waits for it.
InsertFails(r) ==
    /\ r \in writing
    /\ faults < MaxFaults /\ faults' = faults + 1
    /\ writing' = writing \ {r}
    /\ chat' = IF r \in Awaited /\ chat.at # "idle" THEN Failed(chat) ELSE chat
    /\ UNCHANGED <<now, known, rows>>

-----------------------------------------------------------------------------
(* AssistantChatCapability and chat *)

Stamped(role, round, n) ==
    [role |-> role, sec |-> now, turn |-> chat.turn, round |-> round, n |-> n]

\* Mutant: a message goes on with a conversation that the process does not know.
InitConversationStale(s) == s

\* initConversation: what is there of the conversation that the message belongs to,
\* nothing of a new one.
InitConversation(s) == IF known THEN s ELSE {}

\* A message: without a known conversation a new one is created.  The user's row is
\* written while the history is read.
Receive ==
    /\ chat.at = "idle" /\ chat.turn < MaxMessages
    /\ chat' = [chat EXCEPT !.at = "load", !.turn = @ + 1]
    /\ rows' = InitConversation(rows)
    /\ writing' = InitConversation(writing)
                    \cup {[role |-> "user", sec |-> now, turn |-> chat.turn + 1,
                           round |-> 0, n |-> 0]}
    /\ UNCHANGED <<now, known, faults>>

\* findByConversationId, and the tools of the user.
LoadHistory ==
    /\ chat.at = "load"
    /\ \E s \in NewestRows :
         chat' = [chat EXCEPT !.at = "model", !.history = BuildOrchestratorHistory(s)]
    /\ UNCHANGED <<now, known, rows, writing, faults>>

\* The model answers: with a text, or with calls of tools.  What it accepted once it
\* accepts again: the history is not kept for the next rounds.  After the last round
\* nobody asks it again and the reply is empty.
AskModel ==
    /\ chat.at = "model" /\ Awaited = {}
    /\ IF chat.round = MAX_TOOL_ROUNDS THEN Goes("reply")
       ELSE IF ~Accepted(chat.history) THEN chat' = Failed(chat)
       ELSE \/ chat' = [chat EXCEPT !.at = "reply", !.history = {}]
            \/ \E k \in 1..(MaxToolCalls - chat.round) :
                 chat' = [chat EXCEPT !.at = "tools", !.round = @ + 1, !.calls = k,
                                      !.history = {}]
    /\ UNCHANGED <<now, known, rows, writing, faults>>

\* The messages that an intent is read from: the user's newest, and what the tool was
\* called with.
MessageCount ==
    LET users == {r \in rows : r.role = "user"} IN
    1 + IF Cardinality(users) < WINDOW_SIZE THEN Cardinality(users) ELSE WINDOW_SIZE - 1

\* Whatever the search finds, the catalog has and the solver runs into.
Answers ==
    [n \in 1..WINDOW_SIZE |->
       {ParseAndExecute(i, n, relevant, active, breaks) :
          i \in Intents, relevant \in SUBSET Tools, active \in SUBSET Tools,
          breaks \in BOOLEAN}]

\* execute_intent: what parseAndExecute leaves of the conversation.
Execute(a) == IF a.reset THEN {} ELSE rows

\* The tools run at the same time, one that reports failure a second time; of all
\* of them only execute_intent changes a state that is modelled here, unless it
\* fails.
RunTools ==
    /\ chat.at = "tools"
    /\ rows' \in {rows} \cup {Execute(a) : a \in Answers[MessageCount]}
    /\ Goes("save")
    /\ UNCHANGED <<now, known, writing, faults>>

\* The rows of a round are stamped one after the other: the clock may move on
\* between two of them.
SaveRound ==
    /\ chat.at = "save"
    /\ \E split \in 1..(chat.calls + 1) :
         /\ split <= chat.calls => now < MaxSecond
         /\ writing' = writing
              \cup {Stamped("call", chat.round, chat.calls)}
              \cup {[Stamped("tool", chat.round, k) EXCEPT
                       !.sec = IF k >= split THEN now + 1 ELSE now] : k \in 1..chat.calls}
         /\ now' = IF split <= chat.calls THEN now + 1 ELSE now
    /\ Goes("saving")
    /\ UNCHANGED <<known, rows, faults>>

\* The round is in the window of the next one, after the history.
NextRound ==
    /\ chat.at = "saving" /\ Awaited = {}
    /\ Goes("model")
    /\ UNCHANGED <<now, known, rows, writing, faults>>

SaveReply ==
    /\ chat.at = "reply"
    /\ writing' = writing \cup {Stamped("assistant", chat.round, 0)}
    /\ Goes("replying")
    /\ UNCHANGED <<now, known, rows, faults>>

\* The reply goes to the chat; only now the capability remembers the conversation.
Reply ==
    /\ chat.at = "replying" /\ Awaited = {}
    /\ chat' = Failed(chat)
    /\ known' = TRUE
    /\ UNCHANGED <<now, rows, writing, faults>>

-----------------------------------------------------------------------------
(* The clock and faults *)

Tick ==
    /\ now < MaxSecond /\ now' = now + 1
    /\ UNCHANGED <<known, rows, writing, chat, faults>>

\* The model, the registry of tools or a tool throws.
Throws ==
    /\ chat.at \in {"load", "model", "tools"}
    /\ faults < MaxFaults /\ faults' = faults + 1
    /\ chat' = Failed(chat)
    /\ UNCHANGED <<now, known, rows, writing>>

\* The process forgets its conversations.
Crash ==
    /\ faults < MaxFaults /\ faults' = faults + 1
    /\ known' = FALSE /\ rows' = {} /\ writing' = {}
    /\ chat' = Failed(chat)
    /\ UNCHANGED now

Next ==
    \/ \E r \in writing : Insert(r) \/ InsertFails(r)
    \/ Receive \/ LoadHistory \/ AskModel \/ RunTools \/ SaveRound
    \/ NextRound \/ SaveReply \/ Reply
    \/ Tick \/ Throws \/ Crash

Spec == Init /\ [][Next]_vars

-----------------------------------------------------------------------------
(* Properties *)

\* Every variable has its type, a message that runs tools has calls, and an unknown
\* conversation has only rows of its first message (chat, initConversation).
TypeOK ==
    /\ now \in 0..MaxSecond /\ known \in BOOLEAN /\ faults \in 0..MaxFaults
    /\ rows \subseteq Row /\ writing \subseteq Row /\ rows \cap writing = {}
    /\ chat.at \in {"idle", "load", "model", "tools", "save", "saving", "reply", "replying"}
    /\ chat.turn \in 0..MaxMessages /\ chat.round \in 0..MAX_TOOL_ROUNDS
    /\ chat.calls \in 0..MaxToolCalls /\ chat.history \subseteq Row
    /\ chat.at \in {"tools", "save", "saving"} => chat.round > 0 /\ chat.calls > 0
    /\ ~known => \A q \in rows \cup writing : q.turn = chat.turn

\* A row of a round carries the second of another round or turn; the user's rows of
\* the turns before stand first anyway.
Collide(r, q) ==
    /\ r.sec = q.sec /\ r.role \in {"call", "tool"} /\ ~SameRound(r, q)
    /\ q.role = "user" => q.turn > r.turn

\* As long as no two steps of the history carry the same second, the model accepts
\* it: whatever failed, was cut off, deleted or written late, every row of calls is
\* followed by exactly its results.
HistoryAccepted ==
    chat.at = "model" /\ (\A r, q \in chat.history : ~Collide(r, q))
      => Accepted(chat.history)

\* A row of calls precedes its results, which precede the following turn: what the
\* comment at buildOrchestratorHistory promises of rows with the same second.
ToolsFollowTheirCalls == chat.at = "model" => Accepted(chat.history)
=============================================================================
