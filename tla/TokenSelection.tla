----------------------------- MODULE TokenSelection ----------------------------
(***************************************************************************)
(* How SendCapability and SwapCapability get the parameters of a transfer  *)
(* out of a user: the compile loop, the resolver, and the questions about  *)
(* symbols that name several tokens.                                       *)
(*                                                                         *)
(* A collector is one await of the dispatcher and shares no state with     *)
(* anyone, so it is an operator: the set of results it may return.  What   *)
(* the language model extracts from a message is a member of               *)
(* CompileReplies: tokens by symbol, the same way in tokenSymbols and in   *)
(* resolverFields, or by address in resolverFields; a handle; and a value  *)
(* for the recipient parameter of the manifest.                            *)
(***************************************************************************)
EXTENDS FiniteSets, Integers, Sequences

CONSTANTS Matches,           \* the symbols of the tokens a search for a text finds
          UsdcChains,        \* chains with a USDC address in CHAIN_REGISTRY
          Manifests,         \* whether the tools that may be selected are dual-schema
          CompileReplies,    \* what the schema compiler may extract from a message
          MaxCompileTurns, MaxDisambigTurns

Texts == DOMAIN Matches
ASSUME MatchesAssumption ==
    "USDC" \in Texts /\ "" \notin Texts /\ Matches \in [Texts -> Seq(Texts)]
ASSUME TurnsAssumption == MaxCompileTurns \in Nat /\ MaxDisambigTurns \in Nat

Slot == {"from", "to"}

Home == 1                    \* the configured chain
NoChain == 0                 \* one that is unknown or that Relay does not serve
Unsaid == -1

\* What stands in a resolver field: a text, or the address of a token of the registry,
\* in which a symbol names one token of a chain.
Named(text) == [symbol |-> text, chain |-> NoChain, address |-> FALSE]
Token(symbol, chain) == [symbol |-> symbol, chain |-> chain, address |-> TRUE]
NoField == Named("")
NoToken == NoField
IsAddress(field) == field.address

Addresses == [symbol: Texts, chain: Int, address: {TRUE}]

ASSUME RepliesAssumption ==
    /\ Manifests \subseteq BOOLEAN
    /\ CompileReplies \subseteq [symbol: [Slot -> Texts \cup {""}],
                                 address: [Slot -> Addresses \cup {NoToken}],
                                 chain: [Slot -> Int], filled: BOOLEAN, question: BOOLEAN,
                                 handle: STRING, recipient: STRING]

\* A token is found by its own symbol, but a text that is part of other symbols or names
\* finds their tokens as well, or only theirs.
Registry == {text \in Texts : \E i \in DOMAIN Matches[text] : Matches[text][i] = text}
SearchBySymbol(text, chain) ==
    [i \in DOMAIN Matches[text] |-> Token(Matches[text][i], chain)]
UsdcAddress(chain) == Token("USDC", chain)

\* A message: the number it starts with (0 for none), what it says, if that is a symbol,
\* and whether it names a fiat amount.
PickCandidate(message, candidates) ==
    LET named == {i \in DOMAIN candidates : candidates[i].symbol = message.word}
    IN  IF message.n \in DOMAIN candidates THEN candidates[message.n]
        ELSE IF named # {} THEN candidates[CHOOSE i \in named : TRUE] ELSE NoToken

---------------------------------------------------------------------------------
(* The state of a conversation and the results of a collector.             *)

\* handle: the resolver's field; paid, notified, label: the recipient of the transfer,
\* the one to be told and the handle he is called by.  History: asked, picked; said, the
\* last that was said of a slot; extracted, the recipient parameter that the compiler has
\* extracted after the last handle was resolved.
NewConversation(dual, fiat) ==
    [stage |-> "compile", dual |-> dual, fiat |-> fiat, filled |-> FALSE,
     symbol |-> [s \in Slot |-> ""], field |-> [s \in Slot |-> NoField],
     chain |-> [s \in Slot |-> Unsaid],
     handle |-> "", paid |-> "", notified |-> "", label |-> "",
     turns |-> 1, disambigTurns |-> 0,
     awaiting |-> "from", candidates |-> [s \in Slot |-> <<>>],
     kept |-> [s \in Slot |-> NoToken],
     asked |-> [q \in {"compile"} \cup Slot |-> 0],
     picked |-> [s \in Slot |-> NoToken], said |-> [s \in Slot |-> NoField],
     extracted |-> ""]

\* told: the collector has emitted a message of its own; artifact: the result has one.
Abort == {[kind |-> "terminal", told |-> FALSE, artifact |-> TRUE]}
SilentAbortUntold == {[kind |-> "terminal", told |-> FALSE, artifact |-> FALSE]}

SilentAbort == {[kind |-> "terminal", told |-> TRUE, artifact |-> FALSE]}

Ask(st, question) ==
    {[kind |-> "ask", told |-> FALSE, artifact |-> TRUE,
      state |-> [st EXCEPT !.asked[question] = @ + 1]]}
Ok(st, from, to) ==
    {[kind |-> "ok", told |-> FALSE, artifact |-> FALSE,
      params |-> [token |-> [s \in Slot |-> IF s = "from" THEN from ELSE to],
                  paid |-> st.paid, notified |-> st.notified, extracted |-> st.extracted,
                  picked |-> st.picked, fiat |-> st.fiat, said |-> st.said,
                  chain |-> st.chain]]}

AskAbout(st, slot, candidates) ==
    Ask([st EXCEPT !.stage = "disambig", !.awaiting = slot,
                   !.candidates = [[s \in Slot |-> <<>>] EXCEPT ![slot] = candidates],
                   !.kept = [s \in Slot |-> NoToken]],
        slot)

\* What a reply says of a slot: without resolver fields an address is lost.
Says(dual, reply, s) ==
    IF dual /\ reply.address[s] # NoToken THEN reply.address[s] ELSE Named(reply.symbol[s])

\* A reply of the schema compiler merged into the state; usdcFirst: the message names a
\* fiat amount, so the token to send is USDC by its address.
Absorb(st, reply, usdcFirst) ==
    LET usdc(s) == s = "from" /\ usdcFirst
        says == [s \in Slot |-> Says(st.dual, reply, s)]
    IN  [st EXCEPT
            !.symbol = [s \in Slot |-> IF usdc(s) THEN "USDC"
                                       ELSE IF reply.symbol[s] # "" THEN reply.symbol[s] ELSE @[s]],
            !.field = [s \in Slot |-> IF usdc(s) THEN UsdcAddress(Home)
                                      ELSE IF st.dual /\ says[s] # NoField THEN says[s] ELSE @[s]],
            !.said = [s \in Slot |-> IF says[s] # NoField THEN says[s] ELSE @[s]],
            !.chain = [s \in Slot |-> IF reply.chain[s] # Unsaid THEN reply.chain[s] ELSE @[s]],
            !.filled = @ \/ reply.filled,
            !.handle = IF reply.handle # "" THEN reply.handle ELSE @,
            !.paid = IF reply.recipient # "" THEN reply.recipient ELSE @,
            !.extracted = IF reply.recipient # "" THEN reply.recipient ELSE @]

\* The tool of the command's mapping if it is active, else the best hit of a search.
SelectTool == Manifests

\* The model gets all messages of the conversation each time.
Compile == CompileReplies

\* ResolverEngine: the token a field stands for, several candidates, or an error.
Lookup(field, chain) ==
    IF field = NoField THEN [kind |-> "token", token |-> NoToken]
    ELSE IF IsAddress(field)
    THEN IF field.chain = chain /\ field.symbol \in Registry
         THEN [kind |-> "token", token |-> field] ELSE [kind |-> "error"]
    ELSE LET found == SearchBySymbol(field.symbol, chain)
         IN  CASE Len(found) = 0 -> [kind |-> "error"]
               [] Len(found) = 1 -> [kind |-> "token", token |-> found[1]]
               [] OTHER -> [kind |-> "several", candidates |-> found]

---------------------------------------------------------------------------------
(* SendCapability.                                                         *)

WithLastRecipientNotified(st, handle) ==
    IF handle = "" THEN st
    ELSE [st EXCEPT !.paid = IF st.notified = "" THEN handle ELSE @,
                    !.notified = handle, !.label = handle, !.extracted = ""]

\* resolveRecipientHandle: the wallet and the id of the first handle that was named.
WithRecipient(st, handle) ==
    IF handle = "" \/ st.notified # "" THEN st
    ELSE [st EXCEPT !.paid = handle, !.notified = handle, !.label = handle, !.extracted = ""]

\* ResolverEngine again looks up the handle that its field holds by now.
ResolverRecipient(st) ==
    IF st.handle = "" THEN st
    ELSE [st EXCEPT !.paid = st.handle, !.notified = st.handle, !.extracted = ""]

SendRunResolutionPhase(st) ==
    IF st.fiat /\ ~IsAddress(st.field["from"]) /\ Home \notin UsdcChains THEN Abort
    ELSE LET usdc == st.fiat /\ ~IsAddress(st.field["from"])
             s == IF usdc THEN [st EXCEPT !.field["from"] = UsdcAddress(Home),
                                          !.symbol["from"] = "USDC"]
                  ELSE st
             from == Lookup(s.field["from"], Home)
             to == Lookup(s.field["to"], Home)
         IN  CASE from.kind = "several" -> AskAbout(s, "from", from.candidates)
               [] from.kind = "error" -> Abort
               [] from.kind = "token" /\ to.kind = "several" ->
                      AskAbout(s, "to", to.candidates)
               [] from.kind = "token" /\ to.kind = "error" -> Abort
               [] OTHER -> Ok(ResolverRecipient(s), from.token, to.token)
                           \cup (IF s.handle = "" THEN {} ELSE Abort)

\* The path of a manifest without resolver fields.
SendResolveTokensAndFinish(st) ==
    LET usdc == st.fiat /\ "USDC" \in Registry
        s == IF usdc THEN [st EXCEPT !.symbol["from"] = "USDC"] ELSE st
        found == [t \in Slot |->
                     IF t = "from" /\ usdc THEN <<UsdcAddress(Home)>>
                     ELSE IF s.symbol[t] = "" THEN <<>>
                     ELSE SearchBySymbol(s.symbol[t], Home)]
        kept == [t \in Slot |-> IF Len(found[t]) = 1 THEN found[t][1] ELSE NoToken]
        AskFor(t) == Ask([s EXCEPT !.stage = "disambig", !.awaiting = t,
                                   !.candidates = found,
                                   !.kept = IF t = "from" THEN [u \in Slot |-> NoToken]
                                            ELSE [kept EXCEPT !["to"] = NoToken]], t)
    IN  IF \/ st.fiat /\ Home \notin UsdcChains
           \/ \E t \in Slot : s.symbol[t] # "" /\ found[t] = <<>>
        THEN Abort
        ELSE IF Len(found["from"]) > 1 THEN AskFor("from")
        ELSE IF Len(found["to"]) > 1 THEN AskFor("to")
        ELSE Ok(s, kept["from"], kept["to"])

SendFinishCompileOrResolve(st) ==
    IF ~st.filled THEN Ask(st, "compile")
    ELSE IF st.dual THEN SendRunResolutionPhase(st)
    ELSE SendResolveTokensAndFinish(st)

SendAfterCompile(st, reply) ==
    LET s == WithRecipient(st, reply.handle)
    IN  (IF s # st THEN SilentAbort ELSE {})    \* nobody has that handle
        \cup (IF reply.question THEN Ask(s, "compile") ELSE SendFinishCompileOrResolve(s))

\* selectTool, then initSessionFromTool.
SendInitSession(message) ==
    Abort \cup
    UNION {IF message.fiat /\ Home \notin UsdcChains THEN Abort
           ELSE SendAfterCompile(Absorb(NewConversation(dual, message.fiat), reply, message.fiat),
                                 reply) : dual \in SelectTool, reply \in Compile}

SendContinueCompileLoop(st, message) ==
    LET fiat == st.fiat \/ message.fiat
        usdcFirst == fiat /\ st.field["from"] = NoField
        s == [st EXCEPT !.turns = @ + 1, !.fiat = fiat]
    IN  IF st.turns >= MaxCompileTurns \/ (usdcFirst /\ Home \notin UsdcChains) THEN Abort
        ELSE UNION {SendAfterCompile(Absorb(s, reply, usdcFirst), reply) :
                       reply \in Compile}

AnsweredForgetsTheOther(st, slot, token) ==
    [st EXCEPT !.disambigTurns = @ + 1, !.picked[slot] = token,
               !.kept = [[s \in Slot |-> NoToken] EXCEPT ![slot] = token],
               !.field[slot] = IF st.dual THEN token ELSE @]

\* The answer to a question settles one slot.
Answered(st, slot, token) ==
    [st EXCEPT !.disambigTurns = @ + 1, !.picked[slot] = token, !.kept[slot] = token,
               !.field[slot] = IF st.dual THEN token ELSE @]

SendHandleDisambiguationReply(st, message) ==
    LET slot == st.awaiting
        token == PickCandidate(message, st.candidates[slot])
        s == Answered(st, slot, token)
        rest == st.candidates["to"]
        done == [s EXCEPT !.stage = "compile", !.candidates = [t \in Slot |-> <<>>],
                          !.kept["to"] = IF slot = "to" THEN @
                                         ELSE IF rest = <<>> THEN NoToken ELSE rest[1]]
    IN  IF st.disambigTurns >= MaxDisambigTurns \/ token = NoToken THEN Abort
        ELSE IF slot = "from" /\ Len(rest) > 1
        THEN Ask([s EXCEPT !.awaiting = "to"], "to")
        ELSE IF st.dual THEN SendRunResolutionPhase(done)
        ELSE Ok(done, done.kept["from"], done.kept["to"])

SendCollect(message, resuming) ==
    CASE resuming.stage = "none" -> SendInitSession(message)
      [] resuming.stage = "compile" -> SendContinueCompileLoop(resuming, message)
      [] resuming.stage = "disambig" -> SendHandleDisambiguationReply(resuming, message)

---------------------------------------------------------------------------------
(* SwapCapability.                                                         *)

ResolveChainSymbol(chain) == IF chain = Unsaid THEN Home ELSE chain

SwapEnterDisambiguationAsResolved(st, slot, candidates) == AskAbout(st, "from", candidates)

\* The slot is told by the symbol, since both searches use the resolver's slot "from".
SwapEnterDisambiguation(st, slot, candidates) ==
    LET about == IF st.field[slot].symbol = st.symbol["to"] THEN "to" ELSE "from"
    IN  AskAbout(st, about, candidates)

\* USDC is resolved by its address, unless an answer has put an address there.
WithUsdc(st) ==
    [st EXCEPT !.field = [s \in Slot |->
        IF st.symbol[s] = "USDC" /\ ~IsAddress(@[s])
        THEN UsdcAddress(ResolveChainSymbol(st.chain[s])) ELSE @[s]]]

SwapFinishCompileOrResolve(st) ==
    LET chain == [s \in Slot |-> ResolveChainSymbol(st.chain[s])]
        s == WithUsdc(st)
        from == Lookup(s.field["from"], chain["from"])
        to == Lookup(s.field["to"], chain["to"])
    IN  IF ~st.filled THEN Ask(st, "compile")
        ELSE IF \/ \E t \in Slot : chain[t] = NoChain
                \/ \E t \in Slot : st.symbol[t] = "USDC" /\ chain[t] \notin UsdcChains
        THEN Abort
        ELSE CASE from.kind = "several" ->
                      SwapEnterDisambiguation(s, "from", from.candidates)
               [] from.kind = "token" /\ to.kind = "several" ->
                      SwapEnterDisambiguation(s, "to", to.candidates)
               [] from.kind = "token" /\ to.kind = "token"
                      /\ from.token # NoToken /\ to.token # NoToken ->
                      \* the amount or the smart account may be missing
                      Ok(s, from.token, to.token) \cup Abort
               [] OTHER -> Abort

SwapAfterCompile(st, reply) ==
    IF reply.question THEN Ask(st, "compile") ELSE SwapFinishCompileOrResolve(st)

SwapInitSession(message) ==
    UNION {SwapAfterCompile(Absorb(NewConversation(TRUE, FALSE), reply, FALSE), reply) :
              reply \in Compile}

SwapContinueCompileLoop(st, message) ==
    IF st.turns >= MaxCompileTurns THEN Abort
    ELSE UNION {SwapAfterCompile(Absorb([st EXCEPT !.turns = @ + 1], reply, FALSE), reply) :
                   reply \in Compile}

SwapHandleDisambiguationReply(st, message) ==
    LET slot == st.awaiting
        token == PickCandidate(message, st.candidates[slot])
    IN  IF st.disambigTurns >= MaxDisambigTurns \/ token = NoToken THEN Abort
        ELSE SwapFinishCompileOrResolve(
                 [Answered(st, slot, token) EXCEPT
                     !.stage = "compile", !.candidates = [t \in Slot |-> <<>>]])

SwapCollect(message, resuming) ==
    CASE resuming.stage = "none" -> SwapInitSession(message)
      [] resuming.stage = "compile" -> SwapContinueCompileLoop(resuming, message)
      [] resuming.stage = "disambig" -> SwapHandleDisambiguationReply(resuming, message)
=================================================================================
