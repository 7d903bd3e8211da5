------------------------------ MODULE Conversation ------------------------------
(***************************************************************************)
(* One Telegram chat: the updates on their way to the bot, the gate of     *)
(* TelegramAssistantHandler, and CapabilityDispatcher with the pending     *)
(* question in Redis that makes a conversation out of single updates.      *)
(*                                                                         *)
(* The bot handles one update at a time, so the steps of a turn interleave *)
(* only with the user, with the expiry of the key, with failures and with  *)
(* a crash.  A text is the number that it starts with and, if it is a      *)
(* single symbol, that word.                                               *)
(***************************************************************************)
EXTENDS TokenSelection

CONSTANTS Updates,    \* what may be written or tapped
          Hasty,      \* and which of them while another one is not confirmed
          MaxInbox,   \* updates that are not confirmed to Telegram
          MaxFaults   \* calls that fail, and crashes

ASSUME UpdatesAssumption ==
    Updates \subseteq [kind: {"text", "callback"}, trigger: STRING, n: Nat, fiat: BOOLEAN,
                      word: STRING]
ASSUME BoundAssumption == MaxInbox \in Nat /\ MaxFaults \in Nat

VARIABLES pending,    \* pending_collection:<chat>
          inbox,      \* updates Telegram keeps for the bot, oldest first
          batch,      \* how many of them the last getUpdates returned
          handled,    \* how many of those have been dealt with
          turn,       \* the update being dealt with
          screen,     \* history: the last question shown in the chat
          faults

vars == <<pending, inbox, batch, handled, turn, screen, faults>>
telegram == <<inbox, batch, handled>>

NoPending == [cap |-> "none"]
NoQuestion == [cap |-> "none"]
Unseen == [cap |-> "unseen"]
NoResume == [stage |-> "none"]
NoResult == [kind |-> "none"]
NoTurn == [at |-> "idle"]
Question(cap, state) == [cap |-> cap, state |-> state]

--------------------------------------------------------------------------------
(* The capabilities.  send stands for each command that has a SendCapability. *)

\* The ones assistant.di registers; /withdraw is not among them.
Commands == {"buy", "send", "swap", "yield", "loyalty"}
CallbackPrefixes == {"buy", "yield"}

Match(update) ==
    IF \/ update.kind = "text" /\ update.trigger \in Commands
       \/ update.kind = "callback" /\ update.trigger \in CallbackPrefixes
    THEN update.trigger ELSE "none"

AskFor(state) ==
    {[kind |-> "ask", told |-> FALSE, artifact |-> TRUE, state |-> state]}
Params(params) ==
    {[kind |-> "ok", told |-> FALSE, artifact |-> FALSE, params |-> params]}

AskChoice(amount) == AskFor([stage |-> "awaiting_choice", amount |-> amount])
Restart == AskFor([stage |-> "awaiting_amount"])

\* The buttons carry the amount: a tap needs no pending question.
BuyCollect(update, resuming) ==
    CASE update.kind = "callback" ->
             IF update.n > 0 THEN Params([choice |-> update.word, amount |-> update.n])
             ELSE Restart
      [] update.kind = "text" ->
             IF update.n > 0 THEN AskChoice(update.n)
             ELSE AskFor([stage |-> "awaiting_amount"])

YieldHandleCallback(update) ==
    CASE update.word = "custom" -> AskFor([stage |-> "await_custom_pct"])
      [] update.word = "opt" -> Params([pct |-> update.n])
      [] OTHER -> Abort

YieldCollect(update, resuming) ==
    CASE update.kind = "callback" -> YieldHandleCallback(update)
      [] update.kind = "text" /\ resuming.stage = "await_custom_pct" ->
             IF update.n > 0 THEN Params([pct |-> update.n]) ELSE AskFor(resuming)
      [] update.kind = "text" /\ resuming.stage # "await_custom_pct" ->
             IF update.trigger = "withdraw" THEN Params([withdraw |-> TRUE])
             ELSE AskFor([stage |-> "idle"])

AssistantCollect(update) == Params([message |-> update.kind = "text"])

Collect(cap, update, resuming) ==
    CASE cap = "buy" -> BuyCollect(update, resuming)
      [] cap = "yield" -> YieldCollect(update, resuming)
      [] cap = "loyalty" -> Params([message |-> TRUE])
      [] cap = "assistant_chat" -> AssistantCollect(update)
      [] cap \in {"send", "swap"} /\ update.kind = "callback" -> Abort
      [] cap = "send" /\ update.kind = "text" -> SendCollect(update, resuming)
      [] cap = "swap" /\ update.kind = "text" -> SwapCollect(update, resuming)

\* Whether run() leaves the chat with an answer: a tap on a button nobody serves does not.
RunTells(cap, params) == cap = "assistant_chat" => params.message

--------------------------------------------------------------------------------
(* The user and Telegram.                                                  *)

Init ==
    /\ pending = NoPending
    /\ inbox = <<>> /\ batch = 0 /\ handled = 0
    /\ turn = NoTurn
    /\ screen = NoQuestion
    /\ faults = 0

\* seen: the question on the screen when a plain text was written, if the bot had no
\* other update to deal with before it.
Write(update) ==
    /\ Len(inbox) < MaxInbox /\ (inbox # <<>> => update \in Hasty)
    /\ inbox' = Append(inbox, [msg |-> update,
                               seen |-> IF handled < Len(inbox) \/ update.trigger # ""
                                        THEN Unseen ELSE screen])
    /\ UNCHANGED <<pending, batch, handled, turn, screen, faults>>

\* getUpdates confirms the updates of the batch before and fetches the next ones.
Poll ==
    /\ turn = NoTurn /\ handled = batch /\ inbox # <<>>
    /\ inbox' = SubSeq(inbox, batch + 1, Len(inbox))
    /\ batch' = Len(inbox')
    /\ handled' = 0
    /\ UNCHANGED <<pending, turn, screen, faults>>

PendingExpires ==
    /\ pending # NoPending
    /\ pending' = NoPending
    /\ UNCHANGED <<telegram, turn, screen, faults>>

--------------------------------------------------------------------------------
(* A turn.                                                                 *)

Current == inbox[handled + 1]

\* An update that the handler itself answers.
Reply(told) ==
    turn' = [at |-> "end", cap |-> "none", matched |-> FALSE, resuming |-> NoResume,
             shown |-> TRUE, result |-> NoResult, told |-> told, broke |-> "none"]

DispatchKeepsState(update) ==
    LET match == Match(update)
        prior == pending # NoPending
    IN  turn' = [at |-> IF match # "none" /\ prior THEN "abandon" ELSE "collect",
                 cap |-> IF match # "none" THEN match
                         ELSE IF prior THEN pending.cap ELSE "assistant_chat",
                 matched |-> match # "none",
                 resuming |-> IF prior THEN pending.state ELSE NoResume,
                 shown |-> prior => pending.shown,
                 result |-> NoResult, told |-> FALSE, broke |-> "none"]

\* The pending question is resumed only if no command and no button is meant.
Dispatch(update) ==
    LET match == Match(update)
        prior == pending # NoPending
    IN  turn' = [at |-> IF match # "none" /\ prior THEN "abandon" ELSE "collect",
                 cap |-> IF match # "none" THEN match
                         ELSE IF prior THEN pending.cap ELSE "assistant_chat",
                 matched |-> match # "none",
                 resuming |-> IF match = "none" /\ prior THEN pending.state ELSE NoResume,
                 shown |-> prior => pending.shown,
                 result |-> NoResult, told |-> FALSE, broke |-> "none"]

\* The gate finds a session or not: it comes with a sign-in over HTTP and goes with its
\* expiry and /logout, and nothing else here depends on it.
Receive ==
    /\ turn = NoTurn /\ handled < batch
    /\ \/ Reply(TRUE)
       \/ Current.msg.trigger \notin {"start", "logout"} /\ Dispatch(Current.msg)
    /\ UNCHANGED <<pending, telegram, screen, faults>>

AbandonSkipped ==
    /\ turn.at = "abandon"
    /\ turn' = [turn EXCEPT !.at = "collect"]
    /\ UNCHANGED <<pending, telegram, screen, faults>>

Abandon ==
    /\ turn.at = "abandon"
    /\ pending' = NoPending
    /\ turn' = [turn EXCEPT !.at = "collect"]
    /\ UNCHANGED <<telegram, screen, faults>>

RunCollect ==
    /\ turn.at = "collect"
    /\ \E result \in Collect(turn.cap, Current.msg, turn.resuming) :
          turn' = [turn EXCEPT !.at = "commit", !.result = result, !.told = result.told]
    /\ UNCHANGED <<pending, telegram, screen, faults>>

PendingAfterKeepsFirst(cap, result) ==
    IF result.kind = "ask"
    THEN IF pending # NoPending THEN pending
         ELSE [cap |-> cap, state |-> result.state, shown |-> FALSE]
    ELSE NoPending

PendingAfter(cap, result) ==
    IF result.kind = "ask" THEN [cap |-> cap, state |-> result.state, shown |-> FALSE]
    ELSE NoPending

\* What is pending is settled before anything is shown or run.
Commit ==
    /\ turn.at = "commit"
    /\ pending' = PendingAfter(turn.cap, turn.result)
    /\ turn' = [turn EXCEPT !.at = IF turn.result.kind = "ok" THEN "run" ELSE "render"]
    /\ UNCHANGED <<telegram, screen, faults>>

Render ==
    /\ turn.at = "render"
    /\ turn' = [turn EXCEPT !.at = "end", !.told = @ \/ turn.result.artifact]
    /\ IF turn.result.kind = "ask"
       THEN /\ screen' = Question(turn.cap, turn.result.state)
            /\ pending' = IF pending = NoPending THEN pending ELSE [pending EXCEPT !.shown = TRUE]
       ELSE UNCHANGED <<screen, pending>>
    /\ UNCHANGED <<telegram, faults>>

RunCapability ==
    /\ turn.at = "run"
    /\ turn' = [turn EXCEPT !.at = "end", !.told = RunTells(turn.cap, turn.result.params)]
    /\ UNCHANGED <<pending, telegram, screen, faults>>

EndTurn ==
    /\ turn.at = "end"
    /\ turn' = NoTurn
    /\ handled' = handled + 1
    /\ UNCHANGED <<pending, inbox, batch, screen, faults>>

\* A call of the step fails; the handler apologizes, if the chat can be reached.
Fail ==
    /\ faults < MaxFaults
    /\ turn.at \in {"abandon", "collect", "commit", "render", "run"}
    /\ \E told \in BOOLEAN :
          turn' = [turn EXCEPT !.at = "end", !.told = told, !.broke = turn.at]
    /\ faults' = faults + 1
    /\ UNCHANGED <<pending, telegram, screen>>

\* The process stops.  Telegram delivers again what was not confirmed.
Crash ==
    /\ faults < MaxFaults
    /\ turn' = NoTurn
    /\ inbox' = [i \in DOMAIN inbox |-> [inbox[i] EXCEPT !.seen = Unseen]]
    /\ batch' = 0 /\ handled' = 0
    /\ faults' = faults + 1
    /\ UNCHANGED <<pending, screen>>

Bot == Poll \/ Receive \/ Abandon \/ RunCollect \/ Commit \/ Render \/ RunCapability \/ EndTurn

Next ==
    \/ \E update \in Updates : Write(update)
    \/ PendingExpires
    \/ Bot
    \/ Fail \/ Crash

Spec == Init /\ [][Next]_vars
--------------------------------------------------------------------------------
Stages(cap) ==
    CASE cap = "buy" -> {"awaiting_amount", "awaiting_choice"}
      [] cap = "yield" -> {"idle", "await_custom_pct"}
      [] cap \in {"send", "swap"} -> {"compile", "disambig"}
      [] OTHER -> {}

\* What is pending is at a stage of its capability, and a turn under way has an update
\* that is neither confirmed nor dealt with (capabilityDispatcher.usecase.ts:38-60).
TypeOK ==
    /\ pending # NoPending => pending.state.stage \in Stages(pending.cap)
    /\ handled \in 0..batch /\ batch \in 0..Len(inbox) /\ Len(inbox) <= MaxInbox
    /\ turn # NoTurn => /\ handled < batch
                        /\ turn.resuming # NoResume =>
                               turn.resuming.stage \in Stages(turn.cap)
    /\ faults \in 0..MaxFaults

(***************************************************************************)
(* A plain text is taken for the answer to the question its author saw,    *)
(* with three exceptions: it was typed ahead of an answer, it was          *)
(* delivered after a crash together with updates of before, or the         *)
(* question that was stored could not be shown.                            *)
(* capabilityDispatcher.usecase.ts:38-60 and 86-100                        *)
(***************************************************************************)
AnswersSeenQuestion ==
    turn.at = "collect" /\ turn.resuming # NoResume /\ turn.shown /\ Current.seen # Unseen
        => Current.seen = Question(turn.cap, turn.resuming)

(***************************************************************************)
(* A new command ends the conversation before it for good, also when the   *)
(* command fails: what is pending after it is its own question or nothing, *)
(* unless Redis failed when the old one was to be removed.                 *)
(* capabilityDispatcher.usecase.ts:62-68                                   *)
(***************************************************************************)
AbandonedStaysAbandoned ==
    turn.at = "end" /\ turn.matched /\ turn.broke # "abandon" /\ pending # NoPending
        => /\ turn.result.kind = "ask"
           /\ pending.cap = turn.cap /\ pending.state = turn.result.state

\* The token of a slot that nobody was asked about: none, the one at the address, or the
\* only hit of a search, whatever its symbol is.
StandsFor(field, chain, token) ==
    CASE field = NoField -> token = NoToken
      [] IsAddress(field) -> token = field
      [] OTHER -> SearchBySymbol(field.symbol, chain) = <<token>>

(***************************************************************************)
(* Whatever the path from the message to the transfer, with or without     *)
(* resolver fields, over several questions or none, the token of a slot is *)
(* the one the user picked for it, or what was said last of it stands for  *)
(* if there was nothing to pick.  An amount in fiat is sent in USDC, but   *)
(* not if an address was said; a swap takes USDC for the one of the chain, *)
(* and it uses the chains that were said.                                  *)
(* sendCapability.ts:358-675, swapCapability.ts:441-717                    *)
(***************************************************************************)
TokensAsAsked ==
    turn.at = "run" /\ turn.cap \in {"send", "swap"} =>
        LET p == turn.result.params
            chain(s) == IF turn.cap = "send" THEN Home ELSE ResolveChainSymbol(p.chain[s])
            usdc(s) == IF turn.cap = "send" THEN p.fiat /\ s = "from"
                       ELSE p.said[s] = Named("USDC")
        IN  \A s \in Slot :
               /\ IF p.picked[s] # NoToken THEN p.token[s] = p.picked[s]
                  ELSE IF usdc(s)
                  THEN \/ p.token[s] = UsdcAddress(chain(s))
                       \/ IsAddress(p.said[s]) /\ p.token[s] = p.said[s]
                  ELSE StandsFor(p.said[s], chain(s), p.token[s])
               /\ turn.cap = "swap" => p.token[s].chain = chain(s)

(***************************************************************************)
(* The recipient who is told about a transfer is the one whose wallet is   *)
(* paid, also when a later message named somebody else, with one exception *)
(* of the code: a recipient parameter that is extracted after the handle   *)
(* was resolved replaces the wallet and not the one to be told.            *)
(* sendCapability.ts:354-495 and 687-747                                   *)
(***************************************************************************)
PaidIsNotified ==
    turn.at = "run" /\ turn.cap = "send" =>
        LET p == turn.result.params
        IN  p.paid = IF p.extracted = "" THEN p.notified ELSE p.extracted

(***************************************************************************)
(* A conversation about a transfer comes to an end: the schema compiler    *)
(* asks at most MaxCompileTurns times, and nobody is asked twice for the   *)
(* same slot, unless both slots have the same symbol.                      *)
(* sendCapability.ts:358-432 and 518-572, swapCapability.ts:441-717        *)
(***************************************************************************)
QuestionsBounded ==
    pending # NoPending /\ pending.cap \in {"send", "swap"} =>
        LET st == pending.state
        IN  /\ st.asked["compile"] <= MaxCompileTurns
            /\ \A s \in Slot : st.asked[s] <= 1 \/ st.symbol["from"] = st.symbol["to"]

(***************************************************************************)
(* Every update gets an answer, unless a step failed or it is a tap on a   *)
(* button that no capability serves while nothing is pending.              *)
(* handler.ts:74-134, capabilityDispatcher.usecase.ts:79-114               *)
(***************************************************************************)
EveryUpdateAnswered ==
    turn.at = "end" =>
        \/ turn.told \/ turn.broke # "none"
        \/ Current.msg.kind = "callback" /\ turn.cap = "assistant_chat"
================================================================================
