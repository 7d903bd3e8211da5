--------------------------- MODULE ConversationProofs ---------------------------
(***************************************************************************)
(* What holds of a chat for all messages and taps, for every extraction of *)
(* the language model, all tokens and chains, and however many calls fail: *)
(* first what a collector keeps in its state from one message to the next, *)
(* then the chat around it.                                                *)
(***************************************************************************)
EXTENDS Conversation, SequenceTheorems, TLAPS

--------------------------------------------------------------------------------
(* The invariant of a conversation about a transfer                        *)

\* What stands in a field, and who may be paid.
Field == {Named(text) : text \in Texts \cup {""}} \cup Addresses
Handle == {reply.handle : reply \in CompileReplies}
          \cup {reply.recipient : reply \in CompileReplies} \cup {""}

State == [stage: {"compile", "disambig"}, dual: BOOLEAN, fiat: BOOLEAN, filled: BOOLEAN,
          symbol: [Slot -> Texts \cup {""}], field: [Slot -> Field],
          chain: [Slot -> Int],
          handle: Handle, paid: Handle, notified: Handle, label: Handle, extracted: Handle,
          turns: Nat, disambigTurns: Nat,
          awaiting: Slot, candidates: [Slot -> Seq(Addresses)], kept: [Slot -> Field],
          asked: [{"compile"} \cup Slot -> Nat], picked: [Slot -> Addresses \cup {NoToken}],
          said: [Slot -> Field]]

\* Of a conversation or of the parameters of a transfer: who is told is paid, unless a
\* recipient was extracted later.
Tells(p) == p.paid = IF p.extracted = "" THEN p.notified ELSE p.extracted

\* The recipient and the rounds of the compile loop.
Rounds(st) ==
    /\ Tells(st)
    /\ st.asked["compile"] <= st.turns
    /\ st.turns = 1 \/ st.turns <= MaxCompileTurns

\* A text is said in tokenSymbols as well; it is USDC there once an amount is in fiat.
Spoken(st) ==
    \A s \in Slot :
       /\ IsAddress(st.said[s]) => st.dual
       /\ ~IsAddress(st.said[s]) /\ ~(s = "from" /\ st.fiat) => st.said[s] = Named(st.symbol[s])

\* A field holds what was picked for its slot, or what was said, or USDC for an amount in
\* fiat.
FieldFits(st, s) ==
    IF st.picked[s] # NoToken THEN st.field[s] = st.picked[s]
    ELSE \/ st.field[s] = st.said[s]
         \/ s = "from" /\ st.fiat /\ st.field[s] = UsdcAddress(Home)

Fits(st) == \A s \in Slot : FieldFits(st, s)

\* In a swap the USDC of its chain may have been put in.
SwapFits(st) ==
    \A s \in Slot :
       IF st.picked[s] # NoToken THEN st.field[s] = st.picked[s]
       ELSE \/ st.field[s] = st.said[s]
            \/ /\ st.said[s] = Named("USDC")
               /\ st.field[s] = UsdcAddress(ResolveChainSymbol(st.chain[s]))

\* The token of a slot of /send about which nobody was asked.
Given(p, s, token) ==
    IF s = "from" /\ p.fiat
    THEN token = UsdcAddress(Home) \/ (IsAddress(p.said[s]) /\ token = p.said[s])
    ELSE StandsFor(p.said[s], Home, token)

\* Nobody is asked about a slot again, once he has picked or while he picks.
AskedOnce(st) ==
    \A s \in Slot : /\ st.asked[s] <= 1
                    /\ st.picked[s] = NoToken /\ st.awaiting # s => st.asked[s] = 0
AskedBefore(st) ==
    \A s \in Slot : st.asked[s] <= 1 /\ (st.picked[s] = NoToken => st.asked[s] = 0)

\* While the schema compiler asks, nothing has been picked.
Compiling(st) ==
    /\ \A s \in Slot : st.picked[s] = NoToken /\ st.asked[s] = 0
    /\ Spoken(st)
    /\ st.dual => Fits(st)

\* Without resolver fields both slots are looked up at once and from is asked about first.
Listed(st) ==
    /\ st.picked["to"] = NoToken
    /\ st.awaiting = "from" => st.picked["from"] = NoToken
    /\ st.awaiting = "to" =>
          IF st.picked["from"] # NoToken THEN st.kept["from"] = st.picked["from"]
          ELSE "USDC" \in Registry => Given(st, "from", st.kept["from"])
    /\ IF st.said["to"] = NoField THEN st.candidates["to"] = <<>>
       ELSE /\ ~IsAddress(st.said["to"]) /\ st.candidates["to"] # <<>>
            /\ st.candidates["to"] = SearchBySymbol(st.said["to"].symbol, Home)

SendState(st) ==
    /\ st \in State /\ Rounds(st)
    /\ st.stage = "compile" => Compiling(st)
    /\ st.stage = "disambig" => st.filled /\ AskedOnce(st)
    /\ st.stage = "disambig" /\ st.dual =>
          /\ Fits(st) /\ (st.fiat => IsAddress(st.field["from"]))
          /\ st.awaiting = "from" => st.candidates["to"] = <<>>
    /\ st.stage = "disambig" /\ ~st.dual => Listed(st)

SwapState(st) ==
    /\ st \in State /\ Rounds(st) /\ st.dual /\ ~st.fiat
    /\ st.stage = "compile" => Compiling(st)
    /\ st.stage = "disambig" => /\ st.filled /\ Spoken(st) /\ SwapFits(st)
                                /\ AskedOnce(st) \/ st.symbol["from"] = st.symbol["to"]

\* What the parameters of a transfer are.
SendParams(p) ==
    /\ Tells(p)
    /\ "USDC" \in Registry =>
         \A s \in Slot : IF p.picked[s] # NoToken THEN p.token[s] = p.picked[s]
                         ELSE Given(p, s, p.token[s])
SwapParams(p) ==
    \A s \in Slot :
       /\ IF p.picked[s] # NoToken THEN p.token[s] = p.picked[s]
          ELSE IF p.said[s] = Named("USDC")
          THEN p.token[s] = UsdcAddress(ResolveChainSymbol(p.chain[s]))
          ELSE StandsFor(p.said[s], ResolveChainSymbol(p.chain[s]), p.token[s])
       /\ p.token[s].chain = ResolveChainSymbol(p.chain[s])

\* The three kinds of results.  Only one that goes on to run() may be silent.
Ended(r) == r.kind = "terminal" /\ r.told \in BOOLEAN /\ r.artifact = ~r.told
Asks(r) == r.kind = "ask" /\ r.told = FALSE /\ r.artifact = TRUE
Goes(r) == r.kind = "ok" /\ r.told = FALSE /\ r.artifact = FALSE

SendResult(r) == \/ Ended(r)
                 \/ Asks(r) /\ SendState(r.state)
                 \/ Goes(r) /\ SendParams(r.params)
SwapResult(r) == \/ Ended(r)
                 \/ Asks(r) /\ SwapState(r.state)
                 \/ Goes(r) /\ SwapParams(r.params)

--------------------------------------------------------------------------------
(* Lemmas about the operators                                              *)

LEMMA AbortEnds == \A r \in Abort \cup SilentAbort : Ended(r)
  <1>1. \A r \in Abort : r.kind = "terminal" /\ r.told = FALSE /\ r.artifact = TRUE
    BY DEF Abort
  <1>2. \A r \in SilentAbort : r.kind = "terminal" /\ r.told = TRUE /\ r.artifact = FALSE
    BY DEF SilentAbort
  <1> QED
    BY <1>1, <1>2 DEF Ended

\* A search finds tokens of its chain.
LEMMA SearchFinds ==
    ASSUME NEW symbol \in Texts, NEW chain \in Int
    PROVE  /\ SearchBySymbol(symbol, chain) \in Seq(Addresses)
           /\ \A i \in 1..Len(SearchBySymbol(symbol, chain)) :
                 /\ SearchBySymbol(symbol, chain)[i] \in Addresses
                 /\ SearchBySymbol(symbol, chain)[i].chain = chain
  <1>1. Matches[symbol] \in Seq(Texts)
    BY MatchesAssumption
  <1>2. \A i \in DOMAIN Matches[symbol] : Token(Matches[symbol][i], chain) \in Addresses
    BY <1>1 DEF Token, Addresses
  <1> QED
    BY <1>1, <1>2 DEF SearchBySymbol, Token

\* The field of a text is no address, and only the empty text says nothing.
LEMMA TextSays ==
    /\ NoField \in Field /\ NoToken \notin Addresses /\ Addresses \subseteq Field
    /\ ~IsAddress(NoField) /\ NoToken = NoField
    /\ \A token \in Addresses : IsAddress(token)
    /\ \A text \in Texts \cup {""} :
          /\ Named(text) \in Field /\ ~IsAddress(Named(text)) /\ Named(text).symbol = text
          /\ Named(text) = NoField <=> text = ""
    /\ \A field \in Field :
          \/ field \in Addresses
          \/ /\ field.symbol \in Texts \cup {""} /\ ~IsAddress(field)
             /\ field = Named(field.symbol)
  <1>1. \A token \in Addresses : IsAddress(token)
    BY DEF Addresses, IsAddress
  <1>2. ASSUME NEW text
        PROVE  /\ ~IsAddress(Named(text)) /\ Named(text).symbol = text
               /\ Named(text) = NoField <=> text = ""
    BY DEF Named, NoField, IsAddress
  <1>3. NoToken = NoField /\ ~IsAddress(NoField) /\ NoField = Named("")
    BY DEF NoToken, NoField, Named, IsAddress
  <1>4. ASSUME NEW field \in Field, field \notin Addresses
        PROVE  /\ field.symbol \in Texts \cup {""} /\ ~IsAddress(field)
               /\ field = Named(field.symbol)
    <2>1. PICK text \in Texts \cup {""} : field = Named(text)
      BY <1>4 DEF Field
    <2> QED
      BY <2>1, <1>2, Zenon
  <1>5. \A text \in Texts \cup {""} : Named(text) \in Field
    BY DEF Field
  <1>6. NoField \in Field /\ Addresses \subseteq Field
    BY <1>3, <1>5 DEF Field
  <1> HIDE DEF NoField, NoToken, Field
  <1> QED
    BY <1>1, <1>2, <1>3, <1>4, <1>5, <1>6

\* The empty field and every address are fields.
LEMMA AddressSays ==
    /\ NoToken \in Field /\ NoField \in Field /\ Addresses \subseteq Field
    /\ \A token \in Addresses : token \in Field /\ IsAddress(token)
  BY TextSays, Zenon

\* The first element of a sequence.
LEMMA HeadOf ==
    ASSUME NEW S, NEW seq \in Seq(S)
    PROVE  /\ Len(seq) \in Nat /\ (seq # <<>> => Len(seq) >= 1 /\ seq[1] \in S)
           /\ Len(seq) = 1 => seq = <<seq[1]>> /\ seq[1] \in S /\ seq # <<>>
           /\ Len(seq) <= 1 /\ seq # <<>> => Len(seq) = 1
  <1>1. Len(seq) \in Nat
    OBVIOUS
  <1>2. seq # <<>> => Len(seq) >= 1
    OBVIOUS
  <1>3. Len(seq) >= 1 => seq[1] \in S
    OBVIOUS
  <1>4. Len(seq) = 1 => seq = <<seq[1]>> /\ seq # <<>>
    OBVIOUS
  <1>5. Len(seq) = 1 => seq[1] \in S
    BY <1>3
  <1>6. Len(seq) <= 1 /\ Len(seq) >= 1 => Len(seq) = 1
    <2>1. \A n \in Nat : n <= 1 /\ n >= 1 => n = 1
      OBVIOUS
    <2> QED
      BY <1>1, <2>1, Zenon
  <1> QED
    BY <1>1, <1>2, <1>3, <1>4, <1>5, <1>6, Zenon

LEMMA UsdcIsAddress ==
    \A chain \in Int : UsdcAddress(chain) \in Addresses /\ UsdcAddress(chain).chain = chain
  BY MatchesAssumption DEF UsdcAddress, Token, Addresses

\* What the resolver makes of a field.
LEMMA LookupFinds ==
    ASSUME NEW field \in Field, NEW chain \in Int
    PROVE  LET r == Lookup(field, chain)
           IN  /\ r.kind \in {"token", "several", "error"}
               /\ r.kind = "token" =>
                     /\ StandsFor(field, chain, r.token)
                     /\ r.token = NoToken \/ r.token.chain = chain
               /\ r.kind = "several" =>
                     /\ ~IsAddress(field) /\ r.candidates \in Seq(Addresses)
  <1> DEFINE r == Lookup(field, chain)
  <1>1. CASE field = NoField
    <2>1. r = [kind |-> "token", token |-> NoToken]
      BY <1>1 DEF Lookup
    <2>2. StandsFor(field, chain, NoToken)
      BY <1>1, TextSays DEF StandsFor
    <2> QED
      BY <2>1, <2>2
  <1>2. CASE field \in Addresses
    <2>1. IsAddress(field) /\ field # NoField
      BY <1>2, TextSays
    <2>2. \/ r = [kind |-> "token", token |-> field] /\ field.chain = chain
          \/ r = [kind |-> "error"]
      BY <2>1 DEF Lookup
    <2>3. StandsFor(field, chain, field)
      BY <2>1 DEF StandsFor
    <2> QED
      BY <2>2, <2>3
  <1>3. CASE field # NoField /\ field \notin Addresses
    <2> DEFINE found == SearchBySymbol(field.symbol, chain)
    <2>1. ~IsAddress(field) /\ field.symbol \in Texts
      BY <1>3, TextSays, Zenon
    <2>2. /\ found \in Seq(Addresses)
          /\ \A i \in 1..Len(found) : found[i].chain = chain
      BY <2>1, SearchFinds
    <2>3. r = CASE Len(found) = 0 -> [kind |-> "error"]
                [] Len(found) = 1 -> [kind |-> "token", token |-> found[1]]
                [] OTHER -> [kind |-> "several", candidates |-> found]
      BY <1>3, <2>1 DEF Lookup
    <2>4. \A token : StandsFor(field, chain, token) <=> found = <<token>>
      BY <1>3, <2>1 DEF StandsFor
    <2> HIDE DEF found, r
    <2>5. CASE Len(found) = 0
      <3>1. r = [kind |-> "error"]
        BY <2>3, <2>5
      <3> QED
        BY <3>1 DEF r
    <2>6. CASE Len(found) = 1
      <3>1. r = [kind |-> "token", token |-> found[1]]
        BY <2>3, <2>6
      <3>2. found = <<found[1]>> /\ found[1].chain = chain
        BY <2>2, <2>6
      <3> QED
        BY <2>4, <3>1, <3>2 DEF r
    <2>7. CASE Len(found) # 0 /\ Len(found) # 1
      <3>1. r = [kind |-> "several", candidates |-> found]
        BY <2>3, <2>7
      <3> QED
        BY <2>1, <2>2, <3>1 DEF r
    <2> QED
      BY <2>5, <2>6, <2>7
  <1> QED
    BY <1>1, <1>2, <1>3

\* A candidate is one of the tokens that were offered.
LEMMA PickIsOffered ==
    ASSUME NEW message, NEW candidates \in Seq(Addresses),
           PickCandidate(message, candidates) # NoToken
    PROVE  PickCandidate(message, candidates) \in Addresses
  <1> DEFINE named == {i \in DOMAIN candidates : candidates[i].symbol = message.word}
  <1>1. CASE message.n \in DOMAIN candidates
    BY <1>1 DEF PickCandidate
  <1>2. CASE message.n \notin DOMAIN candidates /\ named # {}
    <2>1. PickCandidate(message, candidates) = candidates[CHOOSE i \in named : TRUE]
      BY <1>2 DEF PickCandidate
    <2>2. (CHOOSE i \in named : TRUE) \in named
      BY <1>2
    <2> QED
      BY <2>1, <2>2
  <1>3. CASE message.n \notin DOMAIN candidates /\ named = {}
    BY <1>3 DEF PickCandidate
  <1> QED
    BY <1>1, <1>2, <1>3

LEMMA StateType ==
    ASSUME NEW st \in State
    PROVE  /\ st.symbol \in [Slot -> Texts \cup {""}] /\ st.field \in [Slot -> Field]
           /\ st.chain \in [Slot -> Int] /\ st.turns \in Nat /\ st.awaiting \in Slot
           /\ st.candidates \in [Slot -> Seq(Addresses)] /\ st.kept \in [Slot -> Field]
           /\ st.asked \in [{"compile"} \cup Slot -> Nat]
           /\ st.picked \in [Slot -> Addresses \cup {NoToken}]
           /\ st.fiat \in BOOLEAN /\ st.dual \in BOOLEAN /\ st.filled \in BOOLEAN
           /\ st.stage \in {"compile", "disambig"} /\ st.said \in [Slot -> Field]
  BY DEF State

LEMMA SlotType ==
    ASSUME NEW st \in State, NEW s \in Slot
    PROVE  /\ st.field[s] \in Field /\ st.picked[s] \in Addresses \cup {NoToken}
           /\ st.candidates[s] \in Seq(Addresses) /\ st.chain[s] \in Int
           /\ st.asked[s] \in Nat /\ st.symbol[s] \in Texts \cup {""}
           /\ st.said[s] \in Field
  BY StateType

LEMMA Slots == Slot = {"from", "to"} /\ "from" \in Slot /\ "to" \in Slot /\ Home \in Int
  BY DEF Slot, Home

\* All that a question leaves alone.
SameSaid(t, st) ==
    /\ t.dual = st.dual /\ t.fiat = st.fiat /\ t.filled = st.filled
    /\ t.symbol = st.symbol /\ t.field = st.field /\ t.chain = st.chain
    /\ t.paid = st.paid /\ t.notified = st.notified /\ t.extracted = st.extracted
    /\ t.turns = st.turns /\ t.picked = st.picked /\ t.said = st.said

\* A question is counted.
LEMMA AskCounts ==
    ASSUME NEW st \in State, NEW question \in {"compile"} \cup Slot,
           NEW r \in Ask(st, question)
    PROVE  /\ Asks(r) /\ r.state \in State /\ SameSaid(r.state, st)
           /\ r.state.stage = st.stage /\ r.state.awaiting = st.awaiting
           /\ r.state.candidates = st.candidates /\ r.state.kept = st.kept
           /\ r.state.asked[question] = st.asked[question] + 1
           /\ \A q \in ({"compile"} \cup Slot) \ {question} : r.state.asked[q] = st.asked[q]
  <1> DEFINE asked == [st.asked EXCEPT ![question] = @ + 1]
  <1>1. r.state = [st EXCEPT !.asked = asked] /\ Asks(r)
    <2>1. r = [kind |-> "ask", told |-> FALSE, artifact |-> TRUE,
               state |-> [st EXCEPT !.asked[question] = @ + 1]]
      BY DEF Ask
    <2>2. [st EXCEPT !.asked[question] = @ + 1] = [st EXCEPT !.asked = asked]
      BY Zenon
    <2> HIDE DEF asked
    <2> QED
      BY <2>1, <2>2 DEF Asks
  <1>2. asked \in [{"compile"} \cup Slot -> Nat]
    <2>1. st.asked \in [{"compile"} \cup Slot -> Nat]
      BY DEF State
    <2> QED
      BY <2>1
  <1>3. asked[question] = st.asked[question] + 1
        /\ \A q \in ({"compile"} \cup Slot) \ {question} : asked[q] = st.asked[q]
    BY DEF State
  <1> HIDE DEF asked
  <1>4. r.state \in State /\ r.state.asked = asked
    BY <1>1, <1>2 DEF State
  <1> QED
    BY <1>1, <1>3, <1>4 DEF State, SameSaid

\* A question about a slot.
LEMMA AskAboutCounts ==
    ASSUME NEW st \in State, NEW slot \in Slot, NEW candidates \in Seq(Addresses),
           NEW r \in AskAbout(st, slot, candidates)
    PROVE  /\ Asks(r) /\ r.state \in State /\ SameSaid(r.state, st)
           /\ r.state.stage = "disambig" /\ r.state.awaiting = slot
           /\ \A s \in Slot \ {slot} : r.state.candidates[s] = <<>>
           /\ r.state.asked[slot] = st.asked[slot] + 1
           /\ \A q \in ({"compile"} \cup Slot) \ {slot} : r.state.asked[q] = st.asked[q]
  <1> DEFINE lists == [[s \in Slot |-> <<>>] EXCEPT ![slot] = candidates]
             kept == [s \in Slot |-> NoToken]
             about == [st EXCEPT !.stage = "disambig", !.awaiting = slot,
                                 !.candidates = lists, !.kept = kept]
  <1>1. <<>> \in Seq(Addresses)
    OBVIOUS
  <1>2. lists \in [Slot -> Seq(Addresses)] /\ \A s \in Slot \ {slot} : lists[s] = <<>>
    BY <1>1
  <1>3. kept \in [Slot -> Field]
    BY TextSays
  <1>4. r \in Ask(about, slot)
    BY DEF AskAbout
  <1> HIDE DEF lists, kept
  <1>5. /\ about \in State /\ SameSaid(about, st) /\ about.asked = st.asked
        /\ about.stage = "disambig" /\ about.awaiting = slot /\ about.candidates = lists
    BY <1>2, <1>3 DEF State, SameSaid
  <1> HIDE DEF about
  <1>6. /\ Asks(r) /\ r.state \in State /\ SameSaid(r.state, about)
        /\ r.state.stage = about.stage /\ r.state.awaiting = about.awaiting
        /\ r.state.candidates = about.candidates
        /\ r.state.asked[slot] = about.asked[slot] + 1
        /\ \A q \in ({"compile"} \cup Slot) \ {slot} : r.state.asked[q] = about.asked[q]
    <2>1. slot \in {"compile"} \cup Slot
      OBVIOUS
    <2> QED
      BY <1>4, <1>5, <2>1, AskCounts, Zenon
  <1> QED
    BY <1>2, <1>5, <1>6 DEF SameSaid

\* A question keeps what concerns the fields and the recipient.
LEMMA SaidKept ==
    ASSUME NEW st \in State, NEW t \in State, SameSaid(t, st)
    PROVE  /\ Fits(st) => Fits(t)
           /\ SwapFits(st) => SwapFits(t)
           /\ Spoken(st) => Spoken(t)
           /\ t.asked["compile"] = st.asked["compile"] /\ Rounds(st) => Rounds(t)
  BY DEF SameSaid, Fits, SwapFits, Spoken, FieldFits, Rounds, Tells

--------------------------------------------------------------------------------
(* SendCapability                                                          *)

\* A slot is asked about when its field names several tokens: nothing has been picked
\* for it.
LEMMA SendAsksAbout ==
    ASSUME NEW st \in State, Rounds(st), st.filled, st.dual, Fits(st),
           st.fiat => IsAddress(st.field["from"]), AskedBefore(st),
           NEW slot \in Slot, ~IsAddress(st.field[slot]), NEW candidates \in Seq(Addresses),
           NEW r \in AskAbout(st, slot, candidates)
    PROVE  SendResult(r)
  <1>1. st.picked[slot] = NoToken
    <2>1. st.picked[slot] \in Addresses \cup {NoToken}
      BY StateType
    <2> QED
      BY <2>1, TextSays DEF Fits, FieldFits
  <1>2. /\ Asks(r) /\ r.state \in State /\ SameSaid(r.state, st)
        /\ r.state.stage = "disambig" /\ r.state.awaiting = slot
        /\ \A s \in Slot \ {slot} : r.state.candidates[s] = <<>>
        /\ r.state.asked[slot] = st.asked[slot] + 1
        /\ \A q \in ({"compile"} \cup Slot) \ {slot} : r.state.asked[q] = st.asked[q]
    BY AskAboutCounts
  <1>3. r.state.asked["compile"] = st.asked["compile"]
    BY <1>2 DEF Slot
  <1>4. Rounds(r.state) /\ Fits(r.state)
    BY <1>2, <1>3, SaidKept
  <1>5. AskedOnce(r.state)
    BY <1>1, <1>2 DEF AskedBefore, AskedOnce, SameSaid
  <1>6. SendState(r.state)
    BY <1>2, <1>4, <1>5 DEF SendState, SameSaid, Slot
  <1> QED
    BY <1>2, <1>6 DEF SendResult

\* What a transfer is given of each slot.
LEMMA OkGives ==
    ASSUME NEW st \in State, NEW from, NEW to, NEW r \in Ok(st, from, to)
    PROVE  /\ Goes(r)
           /\ r.params.token["from"] = from /\ r.params.token["to"] = to
           /\ r.params.paid = st.paid /\ r.params.notified = st.notified
           /\ r.params.extracted = st.extracted
           /\ r.params.picked = st.picked /\ r.params.fiat = st.fiat
           /\ r.params.said = st.said /\ r.params.chain = st.chain
  BY DEF Ok, Goes, Slot

LEMMA RecipientLookedUp ==
    ASSUME NEW st \in State, Tells(st)
    PROVE  LET t == ResolverRecipient(st)
           IN  /\ t \in State /\ Tells(t) /\ t.picked = st.picked
               /\ t.fiat = st.fiat /\ t.said = st.said /\ t.chain = st.chain
  <1>1. CASE st.handle = ""
    BY <1>1 DEF ResolverRecipient
  <1>2. CASE st.handle # ""
    <2> DEFINE t == [st EXCEPT !.paid = st.handle, !.notified = st.handle, !.extracted = ""]
    <2>1. st.handle \in Handle /\ "" \in Handle
      BY DEF State, Handle
    <2>2. ResolverRecipient(st) = t
      BY <1>2 DEF ResolverRecipient
    <2>3. /\ t \in State /\ t.paid = t.notified /\ t.extracted = "" /\ t.picked = st.picked
          /\ t.fiat = st.fiat /\ t.said = st.said /\ t.chain = st.chain
      BY <2>1 DEF State
    <2> HIDE DEF t
    <2> QED
      BY <2>2, <2>3 DEF Tells
  <1> QED
    BY <1>1, <1>2

\* A field and the token it is resolved to.
LEMMA LookedUp ==
    ASSUME NEW st \in State, Fits(st), st.fiat => IsAddress(st.field["from"]),
           NEW slot \in Slot, Lookup(st.field[slot], Home).kind = "token"
    PROVE  LET token == Lookup(st.field[slot], Home).token
           IN  IF st.picked[slot] # NoToken THEN token = st.picked[slot]
               ELSE Given(st, slot, token)
  <1> DEFINE field == st.field[slot]
             token == Lookup(field, Home).token
  <1>1. /\ field \in Field /\ st.picked[slot] \in Addresses \cup {NoToken}
        /\ FieldFits(st, slot) /\ Home \in Int
    BY SlotType, Slots DEF Fits
  <1>2. StandsFor(field, Home, token)
    BY <1>1, LookupFinds
  <1>3. IsAddress(field) => token = field
    BY <1>2, TextSays DEF StandsFor
  <1> HIDE DEF token
  <1>4. CASE st.picked[slot] # NoToken
    <2>1. IsAddress(field) /\ field = st.picked[slot]
      BY <1>1, <1>4, TextSays DEF FieldFits
    <2> QED
      BY <1>3, <1>4, <2>1 DEF token
  <1>5. CASE st.picked[slot] = NoToken
    <2>1. \/ field = st.said[slot]
          \/ slot = "from" /\ st.fiat /\ field = UsdcAddress(Home)
      BY <1>1, <1>5 DEF FieldFits
    <2>2. IsAddress(UsdcAddress(Home))
      BY <1>1, UsdcIsAddress, TextSays
    <2>3. Given(st, slot, token)
      BY <1>2, <1>3, <2>1, <2>2 DEF Given
    <2> QED
      BY <1>5, <2>3 DEF token
  <1> QED
    BY <1>4, <1>5

LEMMA SendResolves ==
    ASSUME NEW st \in State, Rounds(st), st.filled, st.dual, Fits(st),
           AskedBefore(st), NEW r \in SendRunResolutionPhase(st)
    PROVE  SendResult(r)
  <1> DEFINE usdc == st.fiat /\ ~IsAddress(st.field["from"])
             t == IF usdc THEN [st EXCEPT !.field["from"] = UsdcAddress(Home),
                                          !.symbol["from"] = "USDC"]
                  ELSE st
             from == Lookup(t.field["from"], Home)
             to == Lookup(t.field["to"], Home)
  <1>1. /\ t \in State /\ Rounds(t) /\ t.filled /\ t.dual /\ Fits(t)
        /\ t.fiat => IsAddress(t.field["from"])
        /\ AskedBefore(t)
    <2>1. CASE ~usdc
      BY <2>1
    <2>2. CASE usdc
      <3> DEFINE field == [st.field EXCEPT !["from"] = UsdcAddress(Home)]
                 symbol == [st.symbol EXCEPT !["from"] = "USDC"]
      <3>1. UsdcAddress(Home) \in Field /\ IsAddress(UsdcAddress(Home))
        BY UsdcIsAddress, TextSays, Slots
      <3>2. /\ field \in [Slot -> Field] /\ symbol \in [Slot -> Texts \cup {""}]
            /\ field["from"] = UsdcAddress(Home) /\ field["to"] = st.field["to"]
        <4>1. /\ st.field \in [Slot -> Field] /\ "from" \in Slot /\ "to" \in Slot
              /\ st.symbol \in [Slot -> Texts \cup {""}]
          BY DEF State, Slot
        <4> QED
          BY <3>1, <4>1, MatchesAssumption
      <3>3. t = [st EXCEPT !.field = field, !.symbol = symbol]
        BY <2>2, Zenon
      <3>4. st.picked["from"] = NoToken
        <4>1. st.picked["from"] \in Addresses \cup {NoToken} /\ FieldFits(st, "from")
          BY DEF State, Slot, Fits
        <4> QED
          BY <2>2, <4>1, TextSays DEF FieldFits
      <3> HIDE DEF field, symbol, t
      <3>5. /\ t \in State /\ t.field = field /\ t.picked = st.picked /\ t.said = st.said
            /\ t.asked = st.asked /\ t.filled = st.filled /\ t.dual = st.dual
            /\ t.paid = st.paid /\ t.notified = st.notified /\ t.extracted = st.extracted
            /\ t.turns = st.turns /\ t.fiat = st.fiat
        BY <3>2, <3>3 DEF State
      <3>6. Rounds(t) /\ AskedBefore(t)
        BY <3>5 DEF Rounds, Tells, AskedBefore
      <3>7. Fits(t)
        <4>1. FieldFits(t, "to")
          BY <3>2, <3>5, Slots DEF Fits, FieldFits
        <4>2. FieldFits(t, "from")
          BY <2>2, <3>2, <3>4, <3>5 DEF FieldFits
        <4> QED
          BY <4>1, <4>2, Slots DEF Fits
      <3>8. IsAddress(t.field["from"])
        BY <3>1, <3>2, <3>5
      <3> QED
        BY <3>5, <3>6, <3>7, <3>8
    <2> QED
      BY <2>1, <2>2
  <1>2. \/ r \in Abort
        \/ from.kind = "several" /\ r \in AskAbout(t, "from", from.candidates)
        \/ to.kind = "several" /\ r \in AskAbout(t, "to", to.candidates)
        \/ /\ from.kind = "token" /\ to.kind = "token"
           /\ r \in Ok(ResolverRecipient(t), from.token, to.token)
    <2> HIDE DEF t
    <2>1. /\ t.field["from"] \in Field /\ t.field["to"] \in Field /\ Home \in Int
      BY <1>1, SlotType, Slots
    <2>2. /\ from.kind \in {"token", "several", "error"}
          /\ to.kind \in {"token", "several", "error"}
      BY <2>1, LookupFinds
    <2> HIDE DEF from, to
    <2>3. \/ r \in Abort
          \/ r \in CASE from.kind = "several" -> AskAbout(t, "from", from.candidates)
                     [] from.kind = "error" -> Abort
                     [] from.kind = "token" /\ to.kind = "several" ->
                            AskAbout(t, "to", to.candidates)
                     [] from.kind = "token" /\ to.kind = "error" -> Abort
                     [] OTHER -> Ok(ResolverRecipient(t), from.token, to.token)
                                 \cup (IF t.handle = "" THEN {} ELSE Abort)
      BY Zenon DEF SendRunResolutionPhase, t, from, to
    <2> QED
      BY <2>2, <2>3
  <1> HIDE DEF t
  <1>3. CASE r \in Abort
    BY <1>3, AbortEnds DEF SendResult
  <1>4. ASSUME NEW slot \in Slot, Lookup(t.field[slot], Home).kind = "several",
               r \in AskAbout(t, slot, Lookup(t.field[slot], Home).candidates)
        PROVE  SendResult(r)
    <2>1. t.field[slot] \in Field /\ Home \in Int
      BY <1>1, SlotType, Slots
    <2>2. ~IsAddress(t.field[slot]) /\ Lookup(t.field[slot], Home).candidates \in Seq(Addresses)
      BY <1>4, <2>1, LookupFinds
    <2> QED
      BY <1>1, <1>4, <2>2, SendAsksAbout
  <1>5. ASSUME from.kind = "token", to.kind = "token",
               r \in Ok(ResolverRecipient(t), from.token, to.token)
        PROVE  SendResult(r)
    <2> DEFINE w == ResolverRecipient(t)
    <2>1. /\ w \in State /\ Tells(w) /\ w.picked = t.picked
          /\ w.fiat = t.fiat /\ w.said = t.said /\ w.chain = t.chain
      BY <1>1, RecipientLookedUp DEF Rounds
    <2> HIDE DEF w
    <2>2. /\ Goes(r)
          /\ r.params.token["from"] = from.token /\ r.params.token["to"] = to.token
          /\ r.params.paid = w.paid /\ r.params.notified = w.notified
          /\ r.params.extracted = w.extracted
          /\ r.params.picked = w.picked /\ r.params.fiat = w.fiat
          /\ r.params.said = w.said
      BY <1>5, <2>1, OkGives DEF w
    <2>3. /\ IF t.picked["from"] # NoToken THEN from.token = t.picked["from"]
             ELSE Given(t, "from", from.token)
          /\ IF t.picked["to"] # NoToken THEN to.token = t.picked["to"]
             ELSE Given(t, "to", to.token)
      BY <1>1, <1>5, LookedUp, Slots
    <2>4. \A s \in Slot : \A token : Given(r.params, s, token) <=> Given(t, s, token)
      BY <2>1, <2>2 DEF Given
    <2>5. Tells(r.params)
      BY <2>1, <2>2 DEF Tells
    <2>6. SendParams(r.params)
      <3> HIDE DEF from, to
      <3> QED
        BY <2>1, <2>2, <2>3, <2>4, <2>5, Slots DEF SendParams
    <2> QED
      BY <2>2, <2>6 DEF SendResult
  <1> QED
    BY <1>2, <1>3, <1>4, <1>5 DEF Slot

\* Both lists of a manifest without resolver fields.
LEMMA SendLists ==
    ASSUME NEW st \in State, Rounds(st), st.filled, ~st.dual, Compiling(st),
           NEW r \in SendResolveTokensAndFinish(st)
    PROVE  SendResult(r)
  <1> DEFINE usdc == st.fiat /\ "USDC" \in Registry
             w == IF usdc THEN [st EXCEPT !.symbol["from"] = "USDC"] ELSE st
             found == [t \in Slot |->
                         IF t = "from" /\ usdc THEN <<UsdcAddress(Home)>>
                         ELSE IF w.symbol[t] = "" THEN <<>>
                         ELSE SearchBySymbol(w.symbol[t], Home)]
             kept == [t \in Slot |-> IF Len(found[t]) = 1 THEN found[t][1] ELSE NoToken]
             left(t) == IF t = "from" THEN [u \in Slot |-> NoToken]
                        ELSE [kept EXCEPT !["to"] = NoToken]
             about(t) == [w EXCEPT !.stage = "disambig", !.awaiting = t,
                                   !.candidates = found, !.kept = left(t)]
  <1>1. /\ w \in State /\ Rounds(w) /\ w.filled /\ ~w.dual
        /\ w.fiat = st.fiat /\ w.picked = st.picked /\ w.asked = st.asked
        /\ w.said = st.said /\ w.turns = st.turns
        /\ w.symbol["to"] = st.symbol["to"]
        /\ ~usdc => w.symbol["from"] = st.symbol["from"]
    <2>1. CASE ~usdc
      BY <2>1 DEF Rounds
    <2>2. CASE usdc
      <3> DEFINE symbol == [st.symbol EXCEPT !["from"] = "USDC"]
      <3>1. symbol \in [Slot -> Texts \cup {""}] /\ symbol["to"] = st.symbol["to"]
        BY StateType, Slots, MatchesAssumption
      <3>2. w = [st EXCEPT !.symbol = symbol]
        BY <2>2, Zenon
      <3> HIDE DEF symbol, w
      <3>3. /\ w \in State /\ w.symbol = symbol /\ w.filled = st.filled /\ w.dual = st.dual
            /\ w.fiat = st.fiat /\ w.picked = st.picked /\ w.asked = st.asked
            /\ w.paid = st.paid /\ w.notified = st.notified /\ w.extracted = st.extracted
            /\ w.turns = st.turns /\ w.said = st.said
        BY <3>1, <3>2 DEF State
      <3> QED
        BY <2>2, <3>1, <3>3 DEF Rounds, Tells
    <2> QED
      BY <2>1, <2>2
  <1> HIDE DEF w
  <1>2. ASSUME NEW t \in Slot
        PROVE  /\ found[t] \in Seq(Addresses)
               /\ t = "from" /\ usdc => found[t] = <<UsdcAddress(Home)>> /\ Len(found[t]) = 1
               /\ ~(t = "from" /\ usdc) =>
                     IF w.symbol[t] = "" THEN found[t] = <<>>
                     ELSE found[t] = SearchBySymbol(w.symbol[t], Home)
    <2>1. CASE t = "from" /\ usdc
      <3>1. found[t] = <<UsdcAddress(Home)>>
        BY <2>1
      <3>2. UsdcAddress(Home) \in Addresses
        BY UsdcIsAddress, Slots
      <3> HIDE DEF found, usdc
      <3> QED
        BY <2>1, <3>1, <3>2
    <2>2. CASE ~(t = "from" /\ usdc) /\ w.symbol[t] = ""
      <3>1. found[t] = <<>>
        BY <2>2
      <3> HIDE DEF found, usdc
      <3>2. <<>> \in Seq(Addresses)
        OBVIOUS
      <3> QED
        BY <2>2, <3>1, <3>2, Zenon
    <2>3. CASE ~(t = "from" /\ usdc) /\ w.symbol[t] # ""
      <3>1. found[t] = SearchBySymbol(w.symbol[t], Home) /\ w.symbol[t] \in Texts
        BY <1>1, <2>3, SlotType
      <3> HIDE DEF found, usdc
      <3>2. SearchBySymbol(w.symbol[t], Home) \in Seq(Addresses)
        BY <3>1, SearchFinds, Slots
      <3> QED
        BY <2>3, <3>1, <3>2, Zenon
    <2> QED
      BY <2>1, <2>2, <2>3
  <1>3. found \in [Slot -> Seq(Addresses)]
    <2>1. found = [t \in Slot |-> found[t]]
      OBVIOUS
    <2> QED
      BY <1>2, <2>1
  <1> HIDE DEF found
  <1>4. ASSUME NEW t \in Slot
        PROVE  /\ kept[t] \in Field
               /\ kept[t] = IF Len(found[t]) = 1 THEN found[t][1] ELSE NoToken
    <2>1. CASE Len(found[t]) = 1
      <3>1. found[t][1] \in Addresses
        BY <1>3, <2>1, HeadOf
      <3> QED
        BY <2>1, <3>1, AddressSays
    <2>2. CASE Len(found[t]) # 1
      BY <2>2, AddressSays
    <2> QED
      BY <2>1, <2>2
  <1>5. kept \in [Slot -> Field]
    <2>1. kept = [t \in Slot |-> kept[t]]
      OBVIOUS
    <2> QED
      BY <1>4, <2>1
  <1> HIDE DEF kept
  <1>60. ASSUME NEW t \in Slot
         PROVE  Len(found[t]) \in Nat
    <2>1. found[t] \in Seq(Addresses)
      BY <1>3
    <2> QED
      BY <2>1, HeadOf
  <1>6. \/ r \in Abort
        \/ /\ \A t \in Slot : w.symbol[t] # "" => found[t] # <<>>
           /\ \/ Len(found["from"]) > 1 /\ r \in Ask(about("from"), "from")
              \/ /\ Len(found["from"]) <= 1 /\ Len(found["to"]) > 1
                 /\ r \in Ask(about("to"), "to")
              \/ /\ Len(found["from"]) <= 1 /\ Len(found["to"]) <= 1
                 /\ r \in Ok(w, kept["from"], kept["to"])
    <2>2. r \in IF \/ st.fiat /\ Home \notin UsdcChains
                   \/ \E t \in Slot : w.symbol[t] # "" /\ found[t] = <<>>
                THEN Abort
                ELSE IF Len(found["from"]) > 1 THEN Ask(about("from"), "from")
                ELSE IF Len(found["to"]) > 1 THEN Ask(about("to"), "to")
                ELSE Ok(w, kept["from"], kept["to"])
      BY Zenon DEF SendResolveTokensAndFinish, w, found, kept
    <2> DEFINE lost == \/ st.fiat /\ Home \notin UsdcChains
                       \/ \E t \in Slot : w.symbol[t] # "" /\ found[t] = <<>>
    <2>3. Len(found["from"]) \in Nat /\ Len(found["to"]) \in Nat
      BY <1>60, Slots
    <2>4. ~lost => \A t \in Slot : w.symbol[t] # "" => found[t] # <<>>
      OBVIOUS
    <2>5. CASE lost
      BY <2>2, <2>5, Zenon
    <2>6. CASE ~lost
      <3>1. r \in IF Len(found["from"]) > 1 THEN Ask(about("from"), "from")
                  ELSE IF Len(found["to"]) > 1 THEN Ask(about("to"), "to")
                  ELSE Ok(w, kept["from"], kept["to"])
        BY <2>2, <2>6, Zenon
      <3>2. \A n \in Nat : n > 1 \/ n <= 1
        OBVIOUS
      <3> HIDE DEF about, usdc, lost
      <3> QED
        BY <2>3, <2>4, <2>6, <3>1, <3>2
    <2> QED
      BY <2>5, <2>6
  <1>7. CASE r \in Abort
    BY <1>7, AbortEnds DEF SendResult
  <1>70. ASSUME NEW t \in Slot, Len(found[t]) <= 1, w.symbol[t] # "" => found[t] # <<>>,
                "USDC" \in Registry
         PROVE  Given(w, t, kept[t])
    <2>1. CASE t = "from" /\ usdc
      <3>1. found[t] = <<UsdcAddress(Home)>> /\ Len(found[t]) = 1
        BY <1>2, <2>1
      <3>2. kept[t] = UsdcAddress(Home)
        <4>1. kept[t] = found[t][1]
          BY <1>4, <3>1, Zenon
        <4> QED
          BY <3>1, <4>1
      <3> QED
        BY <1>1, <2>1, <3>2 DEF Given
    <2>2. CASE ~(t = "from" /\ usdc)
      <3>1. w.symbol[t] = st.symbol[t] /\ ~(t = "from" /\ st.fiat)
        BY <1>1, <1>70, <2>2, Slots
      <3>2. w.said[t] = Named(w.symbol[t]) /\ ~IsAddress(w.said[t])
        BY <1>1, <3>1 DEF Compiling, Spoken
      <3>3. w.symbol[t] \in Texts \cup {""} /\ Named(w.symbol[t]).symbol = w.symbol[t]
            /\ (Named(w.symbol[t]) = NoField <=> w.symbol[t] = "")
        BY <1>1, SlotType, TextSays
      <3>4. StandsFor(w.said[t], Home, kept[t])
        <4>1. CASE w.symbol[t] = ""
          <5>1. found[t] = <<>> /\ Len(<<>>) = 0
            BY <1>2, <2>2, <4>1
          <5>2. kept[t] = NoToken
            BY <1>4, <5>1
          <5> QED
            BY <3>2, <3>3, <4>1, <5>2 DEF StandsFor
        <4>2. CASE w.symbol[t] # ""
          <5>1. found[t] = SearchBySymbol(w.symbol[t], Home) /\ found[t] # <<>>
            BY <1>2, <1>70, <2>2, <4>2
          <5>2. Len(found[t]) = 1 /\ found[t] = <<found[t][1]>>
            <6>1. found[t] \in Seq(Addresses) /\ found[t] # <<>> /\ Len(found[t]) <= 1
              BY <1>2, <1>70, <5>1
            <6> HIDE DEF usdc
            <6> QED
              BY <6>1, HeadOf
          <5>3. SearchBySymbol(w.symbol[t], Home) = <<kept[t]>>
            BY <1>4, <5>1, <5>2
          <5> QED
            BY <3>2, <3>3, <4>2, <5>3 DEF StandsFor
        <4> QED
          BY <4>1, <4>2
      <3> QED
        BY <1>1, <3>1, <3>4 DEF Given
    <2> QED
      BY <2>1, <2>2
  <1>8. ASSUME NEW t \in Slot, Len(found[t]) > 1, r \in Ask(about(t), t),
               t = "to" => Len(found["from"]) <= 1,
               \A u \in Slot : w.symbol[u] # "" => found[u] # <<>>
        PROVE  SendResult(r)
    <2> DEFINE p == left(t)
               q == about(t)
    <2>1. /\ p \in [Slot -> Field]
          /\ t = "to" => p["from"] = kept["from"]
      BY <1>5, TextSays, Slots
    <2>2. q = [w EXCEPT !.stage = "disambig", !.awaiting = t, !.candidates = found, !.kept = p]
      BY Zenon
    <2> HIDE DEF p, q
    <2>3. /\ q \in State /\ SameSaid(q, w) /\ q.asked = w.asked
          /\ q.stage = "disambig" /\ q.awaiting = t /\ q.candidates = found /\ q.kept = p
      BY <1>1, <1>3, <2>1, <2>2 DEF State, SameSaid
    <2>4. /\ Asks(r) /\ r.state \in State /\ SameSaid(r.state, q)
          /\ r.state.stage = q.stage /\ r.state.awaiting = q.awaiting
          /\ r.state.candidates = q.candidates /\ r.state.kept = q.kept
          /\ r.state.asked[t] = q.asked[t] + 1
          /\ \A u \in ({"compile"} \cup Slot) \ {t} : r.state.asked[u] = q.asked[u]
      <3>1. t \in {"compile"} \cup Slot /\ r \in Ask(q, t)
        BY <1>8 DEF q
      <3>2. q \in State
        BY <2>3
      <3> QED
        BY <3>1, <3>2, AskCounts, Zenon
    <2>5. SameSaid(r.state, w)
      BY <2>3, <2>4 DEF SameSaid
    <2>6. r.state.asked["compile"] = w.asked["compile"]
      BY <2>3, <2>4 DEF Slot
    <2>7. Rounds(r.state)
      BY <1>1, <2>4, <2>5, <2>6, SaidKept
    <2>8. \A u \in Slot : w.picked[u] = NoToken /\ w.asked[u] = 0
      BY <1>1 DEF Compiling
    <2>9. AskedOnce(r.state)
      <3>1. ASSUME NEW u \in Slot PROVE r.state.asked[u] = IF u = t THEN 1 ELSE 0
        <4>1. CASE u = t
          BY <2>3, <2>4, <2>8, <4>1
        <4>2. CASE u # t
          <5>1. u \in ({"compile"} \cup Slot) \ {t}
            BY <4>2
          <5>2. r.state.asked[u] = q.asked[u]
            BY <2>4, <5>1
          <5> QED
            BY <2>3, <2>8, <4>2, <5>2
        <4> QED
          BY <4>1, <4>2
      <3>2. \A u \in Slot : r.state.asked[u] <= 1 /\ (u # t => r.state.asked[u] = 0)
        BY <3>1
      <3> QED
        BY <2>3, <2>4, <3>2 DEF AskedOnce
    <2>10. Listed(r.state)
      <3>1. /\ r.state.awaiting = t /\ r.state.picked = w.picked /\ r.state.said = w.said
            /\ r.state.fiat = w.fiat /\ r.state.candidates = found /\ r.state.kept = p
        BY <1>1, <2>3, <2>4, <2>5 DEF SameSaid
      <3>2. t = "to" /\ "USDC" \in Registry => Given(w, "from", p["from"])
        BY <1>8, <1>70, <2>1, Slots
      <3>3. t = "to" /\ "USDC" \in Registry => Given(r.state, "from", p["from"])
        BY <3>1, <3>2 DEF Given
      <3>4. IF w.said["to"] = NoField THEN found["to"] = <<>>
            ELSE /\ ~IsAddress(w.said["to"]) /\ found["to"] # <<>>
                 /\ found["to"] = SearchBySymbol(w.said["to"].symbol, Home)
        <4>1. w.said["to"] = Named(w.symbol["to"]) /\ ~IsAddress(w.said["to"])
          BY <1>1, Slots DEF Compiling, Spoken
        <4>2. w.symbol["to"] \in Texts \cup {""}
          BY <1>1, SlotType, Slots
        <4>3. /\ Named(w.symbol["to"]).symbol = w.symbol["to"]
              /\ (Named(w.symbol["to"]) = NoField <=> w.symbol["to"] = "")
          BY <4>2, TextSays
        <4>4. IF w.symbol["to"] = "" THEN found["to"] = <<>>
              ELSE found["to"] = SearchBySymbol(w.symbol["to"], Home)
          BY <1>2, Slots
        <4> QED
          BY <1>8, <4>1, <4>3, <4>4, Slots
      <3> QED
        BY <2>8, <3>1, <3>3, <3>4, Slots DEF Listed
    <2>11. SendState(r.state)
      BY <1>1, <2>3, <2>4, <2>5, <2>7, <2>9, <2>10 DEF SendState, SameSaid
    <2> QED
      BY <2>4, <2>11 DEF SendResult
  <1>9. ASSUME r \in Ok(w, kept["from"], kept["to"]),
               Len(found["from"]) <= 1, Len(found["to"]) <= 1,
               \A u \in Slot : w.symbol[u] # "" => found[u] # <<>>
        PROVE  SendResult(r)
    <2>1. /\ Goes(r)
          /\ r.params.token["from"] = kept["from"] /\ r.params.token["to"] = kept["to"]
          /\ r.params.paid = w.paid /\ r.params.notified = w.notified
          /\ r.params.extracted = w.extracted
          /\ r.params.picked = w.picked /\ r.params.fiat = w.fiat
          /\ r.params.said = w.said
      <3>1. w \in State /\ r \in Ok(w, kept["from"], kept["to"])
        BY <1>1, <1>9
      <3> QED
        BY <3>1, OkGives
    <2>2. \A u \in Slot : w.picked[u] = NoToken
      BY <1>1 DEF Compiling
    <2>3. "USDC" \in Registry => Given(w, "from", kept["from"]) /\ Given(w, "to", kept["to"])
      BY <1>9, <1>70, Slots
    <2>4. \A u \in Slot : \A token : Given(r.params, u, token) <=> Given(w, u, token)
      BY <2>1 DEF Given
    <2>5. Tells(r.params)
      BY <1>1, <2>1 DEF Rounds, Tells
    <2>6. SendParams(r.params)
      BY <2>1, <2>2, <2>3, <2>4, <2>5, Slots DEF SendParams
    <2> QED
      BY <2>1, <2>6 DEF SendResult
  <1> QED
    BY <1>6, <1>7, <1>8, <1>9, Slots

\* A round of the compile loop that may still ask.
Ready(st) == /\ st \in State /\ Rounds(st) /\ st.stage = "compile" /\ Compiling(st)
             /\ st.asked["compile"] + 1 <= st.turns

LEMMA CompilerAsks ==
    ASSUME NEW st, Ready(st), NEW r \in Ask(st, "compile")
    PROVE  /\ Asks(r) /\ r.state \in State /\ Rounds(r.state)
           /\ r.state.stage = "compile" /\ Compiling(r.state) /\ r.state.dual = st.dual
           /\ r.state.fiat = st.fiat
  <1>1. st \in State /\ "compile" \in {"compile"} \cup Slot
    BY DEF Ready
  <1>2. /\ Asks(r) /\ r.state \in State /\ SameSaid(r.state, st)
        /\ r.state.stage = st.stage
        /\ r.state.asked["compile"] = st.asked["compile"] + 1
        /\ \A q \in ({"compile"} \cup Slot) \ {"compile"} : r.state.asked[q] = st.asked[q]
    BY <1>1, AskCounts, Zenon
  <1>3. \A s \in Slot : r.state.asked[s] = st.asked[s]
    BY <1>2 DEF Slot
  <1>4. (Fits(st) => Fits(r.state)) /\ (Spoken(st) => Spoken(r.state))
    BY <1>1, <1>2, SaidKept
  <1>5. Compiling(r.state)
    BY <1>2, <1>3, <1>4 DEF Ready, Compiling, SameSaid
  <1> QED
    BY <1>2, <1>5 DEF Ready, Rounds, Tells, SameSaid

LEMMA SendFinishes ==
    ASSUME NEW st, Ready(st), NEW r \in SendFinishCompileOrResolve(st)
    PROVE  SendResult(r)
  <1>1. CASE ~st.filled
    <2>1. r \in Ask(st, "compile")
      BY <1>1 DEF SendFinishCompileOrResolve
    <2> QED
      BY <2>1, CompilerAsks DEF SendResult, SendState
  <1>2. CASE st.filled /\ st.dual
    <2>1. r \in SendRunResolutionPhase(st)
      BY <1>2 DEF SendFinishCompileOrResolve
    <2>2. Fits(st) /\ AskedBefore(st)
      BY <1>2 DEF Ready, Compiling, AskedBefore
    <2> QED
      BY <1>2, <2>1, <2>2, SendResolves DEF Ready
  <1>3. CASE st.filled /\ ~st.dual
    <2>1. r \in SendResolveTokensAndFinish(st)
      BY <1>3 DEF SendFinishCompileOrResolve
    <2> QED
      BY <1>3, <2>1, SendLists DEF Ready
  <1> QED
    BY <1>1, <1>2, <1>3

\* The recipient and the rounds are all that may change.
LEMMA StillReady ==
    ASSUME NEW st \in State, st.stage = "compile", Compiling(st),
           NEW t \in State, Rounds(t), t.stage = st.stage, t.asked["compile"] + 1 <= t.turns,
           t.asked = st.asked, t.picked = st.picked, t.dual = st.dual,
           t.field = st.field, t.symbol = st.symbol, t.said = st.said, st.fiat => t.fiat
    PROVE  Ready(t)
  <1>2. Spoken(t)
    BY DEF Compiling, Spoken
  <1>3. t.dual => Fits(t)
    BY DEF Compiling, Fits, FieldFits
  <1>4. Compiling(t)
    BY <1>2, <1>3 DEF Compiling
  <1> QED
    BY <1>4 DEF Ready

\* Whoever is to be paid is the one who is to be told.
LEMMA RecipientReady ==
    ASSUME NEW st, Ready(st), NEW handle \in Handle
    PROVE  Ready(WithRecipient(st, handle))
  <1>1. CASE handle = "" \/ st.notified # ""
    BY <1>1 DEF WithRecipient
  <1>2. CASE ~(handle = "" \/ st.notified # "")
    <2> DEFINE t == [st EXCEPT !.paid = handle, !.notified = handle, !.label = handle,
                               !.extracted = ""]
    <2>1. WithRecipient(st, handle) = t
      BY <1>2 DEF WithRecipient
    <2>0. "" \in Handle
      BY DEF Handle
    <2>2. /\ t \in State /\ t.paid = t.notified /\ t.extracted = ""
          /\ t.asked = st.asked /\ t.turns = st.turns
          /\ t.stage = st.stage /\ t.picked = st.picked /\ t.dual = st.dual
          /\ t.field = st.field /\ t.symbol = st.symbol /\ t.said = st.said
          /\ t.fiat = st.fiat
      BY <2>0 DEF Ready, State
    <2> HIDE DEF t
    <2>3. Rounds(t) /\ t.asked["compile"] + 1 <= t.turns
      BY <2>2 DEF Ready, Rounds, Tells
    <2>4. st \in State /\ st.stage = "compile" /\ Compiling(st)
      BY DEF Ready
    <2> QED
      BY <2>1, <2>2, <2>3, <2>4, StillReady
  <1> QED
    BY <1>1, <1>2

LEMMA SendGoesOn ==
    ASSUME NEW st, Ready(st), NEW reply \in CompileReplies, NEW r \in SendAfterCompile(st, reply)
    PROVE  SendResult(r)
  <1> DEFINE t == WithRecipient(st, reply.handle)
  <1>1. Ready(t)
    <2>1. reply.handle \in Handle
      BY DEF Handle
    <2> QED
      BY <2>1, RecipientReady
  <1>2. \/ r \in SilentAbort
        \/ r \in Ask(t, "compile")
        \/ r \in SendFinishCompileOrResolve(t)
    BY Zenon DEF SendAfterCompile
  <1> HIDE DEF t
  <1>3. CASE r \in SilentAbort
    BY <1>3, AbortEnds DEF SendResult
  <1>4. CASE r \in Ask(t, "compile")
    BY <1>1, <1>4, CompilerAsks DEF SendResult, SendState
  <1>5. CASE r \in SendFinishCompileOrResolve(t)
    BY <1>1, <1>5, SendFinishes
  <1> QED
    BY <1>2, <1>3, <1>4, <1>5

\* What the compiler extracts fits what is in the fields.
LEMMA AbsorbReady ==
    ASSUME NEW st, Ready(st), NEW reply \in CompileReplies, NEW usdcFirst \in BOOLEAN,
           usdcFirst => st.fiat
    PROVE  /\ Ready(Absorb(st, reply, usdcFirst))
           /\ Absorb(st, reply, usdcFirst).dual = st.dual
           /\ Absorb(st, reply, usdcFirst).fiat = st.fiat
  <1> DEFINE usdc(s) == s = "from" /\ usdcFirst
             says == [s \in Slot |-> Says(st.dual, reply, s)]
             symbol == [s \in Slot |-> IF usdc(s) THEN "USDC"
                                       ELSE IF reply.symbol[s] # "" THEN reply.symbol[s]
                                       ELSE st.symbol[s]]
             field == [s \in Slot |-> IF usdc(s) THEN UsdcAddress(Home)
                                      ELSE IF st.dual /\ says[s] # NoField THEN says[s]
                                      ELSE st.field[s]]
             said == [s \in Slot |-> IF says[s] # NoField THEN says[s] ELSE st.said[s]]
             chain == [s \in Slot |-> IF reply.chain[s] # Unsaid THEN reply.chain[s]
                                      ELSE st.chain[s]]
             filled == st.filled \/ reply.filled
             handle == IF reply.handle # "" THEN reply.handle ELSE st.handle
             paid == IF reply.recipient # "" THEN reply.recipient ELSE st.paid
             extracted == IF reply.recipient # "" THEN reply.recipient ELSE st.extracted
             t == Absorb(st, reply, usdcFirst)
  <1>1. /\ reply.symbol \in [Slot -> Texts \cup {""}] /\ reply.chain \in [Slot -> Int]
        /\ reply.address \in [Slot -> Addresses \cup {NoToken}]
        /\ reply.handle \in Handle /\ reply.recipient \in Handle
    BY RepliesAssumption DEF Handle
  <1>2. st \in State
    BY DEF Ready
  <1>3. t = [st EXCEPT !.symbol = symbol, !.field = field, !.said = said, !.chain = chain,
                       !.filled = filled, !.handle = handle, !.paid = paid,
                       !.extracted = extracted]
    BY DEF Absorb
  <1>4. ASSUME NEW s \in Slot
        PROVE  /\ says[s] \in Field
               /\ IsAddress(says[s]) => st.dual
               /\ ~IsAddress(says[s]) => says[s] = Named(reply.symbol[s])
               /\ says[s] = NoField => reply.symbol[s] = ""
    <2>1. /\ reply.symbol[s] \in Texts \cup {""}
          /\ reply.address[s] \in Addresses \cup {NoToken}
      BY <1>1
    <2>2. /\ Named(reply.symbol[s]) \in Field /\ ~IsAddress(Named(reply.symbol[s]))
          /\ Named(reply.symbol[s]) = NoField <=> reply.symbol[s] = ""
      BY <2>1, TextSays
    <2>3. reply.address[s] # NoToken =>
             reply.address[s] \in Field /\ IsAddress(reply.address[s])
             /\ reply.address[s] # NoField
      BY <2>1, TextSays
    <2>4. says[s] = IF st.dual /\ reply.address[s] # NoToken THEN reply.address[s]
                    ELSE Named(reply.symbol[s])
      BY DEF Says
    <2> HIDE DEF says
    <2> QED
      BY <2>2, <2>3, <2>4
  <1> HIDE DEF says
  <1>5. UsdcAddress(Home) \in Field
    BY UsdcIsAddress, TextSays, Slots
  <1>7. /\ symbol \in [Slot -> Texts \cup {""}] /\ field \in [Slot -> Field]
        /\ said \in [Slot -> Field]
    BY <1>1, <1>2, <1>4, <1>5, SlotType, MatchesAssumption
  <1>8. chain \in [Slot -> Int]
    BY <1>1, <1>2, SlotType
  <1>9. /\ filled \in BOOLEAN /\ handle \in Handle /\ paid \in Handle
        /\ extracted \in Handle
    BY <1>1, <1>2 DEF State
  <1>10. ASSUME NEW s \in Slot, st.dual
         PROVE  field[s] = said[s] \/ (s = "from" /\ st.fiat /\ field[s] = UsdcAddress(Home))
    <2>1. st.field[s] = st.said[s] \/ (s = "from" /\ st.fiat /\ st.field[s] = UsdcAddress(Home))
      BY <1>10 DEF Ready, Compiling, Fits, FieldFits
    <2> QED
      BY <1>10, <2>1
  <1>11. ASSUME NEW s \in Slot
         PROVE  /\ IsAddress(said[s]) => st.dual
                /\ ~IsAddress(said[s]) /\ ~(s = "from" /\ st.fiat) => said[s] = Named(symbol[s])
    <2>1. /\ IsAddress(st.said[s]) => st.dual
          /\ ~IsAddress(st.said[s]) /\ ~(s = "from" /\ st.fiat) =>
                st.said[s] = Named(st.symbol[s])
      BY DEF Ready, Compiling, Spoken
    <2>2. CASE says[s] = NoField
      <3>1. said[s] = st.said[s] /\ reply.symbol[s] = ""
        BY <1>4, <2>2
      <3>2. ~usdc(s) => symbol[s] = st.symbol[s]
        BY <3>1
      <3> QED
        BY <2>1, <3>1, <3>2
    <2>3. CASE says[s] # NoField
      <3>1. said[s] = says[s]
        BY <2>3
      <3>2. ~IsAddress(says[s]) => reply.symbol[s] # ""
        <4>1. reply.symbol[s] \in Texts \cup {""}
          BY <1>1
        <4> QED
          BY <1>4, <2>3, <4>1, TextSays
      <3>3. ~usdc(s) /\ reply.symbol[s] # "" => symbol[s] = reply.symbol[s]
        OBVIOUS
      <3> QED
        BY <1>4, <3>1, <3>2, <3>3
    <2> QED
      BY <2>2, <2>3
  <1>12. paid = IF extracted = "" THEN st.notified ELSE extracted
    BY DEF Ready, Rounds, Tells
  <1> HIDE DEF symbol, field, said, chain, filled, handle, paid, extracted, t
  <1>13. /\ t \in State /\ t.symbol = symbol /\ t.field = field /\ t.said = said
         /\ t.dual = st.dual /\ t.fiat = st.fiat
         /\ t.paid = paid /\ t.notified = st.notified /\ t.extracted = extracted
         /\ t.turns = st.turns
         /\ t.asked = st.asked /\ t.picked = st.picked /\ t.stage = st.stage
    BY <1>2, <1>3, <1>7, <1>8, <1>9 DEF State
  <1>14. Spoken(t)
    BY <1>11, <1>13 DEF Spoken
  <1>15. Compiling(t)
    BY <1>10, <1>13, <1>14 DEF Ready, Compiling, Fits, FieldFits
  <1>16. Tells(t)
    BY <1>12, <1>13 DEF Tells
  <1> QED
    BY <1>13, <1>15, <1>16 DEF t, Ready, Rounds

LEMMA NewReady ==
    ASSUME NEW dual \in BOOLEAN, NEW fiat \in BOOLEAN
    PROVE  /\ Ready(NewConversation(dual, fiat))
           /\ NewConversation(dual, fiat).dual = dual
           /\ NewConversation(dual, fiat).fiat = fiat
  <1> DEFINE t == NewConversation(dual, fiat)
             symbol == [s \in Slot |-> ""]
             field == [s \in Slot |-> NoField]
             chain == [s \in Slot |-> Unsaid]
             lists == [s \in Slot |-> <<>>]
             none == [s \in Slot |-> NoToken]
             asked == [q \in {"compile"} \cup Slot |-> 0]
  <1>1. /\ <<>> \in Seq(Addresses) /\ NoField \in Field /\ NoToken \in Field
        /\ Unsaid \in Int
    <2>1. NoField \in Field /\ NoToken \in Field
      BY AddressSays
    <2>2. <<>> \in Seq(Addresses) /\ Unsaid \in Int
      BY DEF Unsaid
    <2> QED
      BY <2>1, <2>2
  <1>2. /\ symbol \in [Slot -> Texts \cup {""}] /\ field \in [Slot -> Field]
        /\ chain \in [Slot -> Int] /\ none \in [Slot -> Field]
        /\ none \in [Slot -> Addresses \cup {NoToken}]
        /\ asked \in [{"compile"} \cup Slot -> Nat]
    BY <1>1
  <1>3. lists \in [Slot -> Seq(Addresses)]
    BY <1>1
  <1>4. /\ \A q \in {"compile"} \cup Slot : asked[q] = 0
        /\ \A s \in Slot : none[s] = NoToken /\ field[s] = NoField /\ symbol[s] = ""
    OBVIOUS
  <1>5. t = [stage |-> "compile", dual |-> dual, fiat |-> fiat, filled |-> FALSE,
             symbol |-> symbol, field |-> field, chain |-> chain,
             handle |-> "", paid |-> "", notified |-> "", label |-> "",
             turns |-> 1, disambigTurns |-> 0,
             awaiting |-> "from", candidates |-> lists, kept |-> none,
             asked |-> asked, picked |-> none, said |-> field, extracted |-> ""]
    BY Zenon DEF NewConversation
  <1> HIDE DEF t, symbol, field, chain, lists, none, asked
  <1>6. t \in State
    <2>1. /\ "compile" \in {"compile", "disambig"} /\ FALSE \in BOOLEAN /\ "" \in Handle
          /\ 0 \in Nat /\ 1 \in Nat /\ "from" \in Slot
      BY Slots DEF Handle
    <2> QED
      BY <1>1, <1>2, <1>3, <1>5, <2>1 DEF State
  <1>7. /\ t.dual = dual /\ t.fiat = fiat /\ t.stage = "compile" /\ t.turns = 1
        /\ t.paid = "" /\ t.notified = "" /\ t.extracted = ""
        /\ t.asked = asked /\ t.picked = none /\ t.field = field /\ t.said = field
        /\ t.symbol = symbol
    BY <1>5
  <1>8. ~IsAddress(NoField) /\ NoField = Named("")
    BY TextSays, Zenon
  <1>9. Spoken(t)
    BY <1>4, <1>7, <1>8 DEF Spoken
  <1>10. Compiling(t)
    BY <1>4, <1>7, <1>9 DEF Compiling, Fits, FieldFits
  <1>11. Rounds(t)
    <2>1. t.asked["compile"] = 0
      BY <1>4, <1>7
    <2>2. Tells(t)
      BY <1>7 DEF Tells
    <2>3. t.asked["compile"] <= t.turns
      <3>1. 0 <= 1
        OBVIOUS
      <3>2. t.turns = 1
        BY <1>7
      <3> QED
        BY <2>1, <3>1, <3>2, Zenon
    <2> QED
      BY <1>7, <2>2, <2>3, Zenon DEF Rounds
  <1>12. Ready(t)
    <2>1. t.asked["compile"] = 0
      BY <1>4, <1>7
    <2>2. t.asked["compile"] + 1 <= t.turns
      <3>1. 0 + 1 <= 1
        OBVIOUS
      <3>2. t.turns = 1
        BY <1>7
      <3> QED
        BY <2>1, <3>1, <3>2, Zenon
    <2> QED
      BY <1>6, <1>7, <1>10, <1>11, <2>2, Zenon DEF Ready
  <1> QED
    BY <1>7, <1>12 DEF t

LEMMA SendInits ==
    ASSUME NEW message, message.fiat \in BOOLEAN, NEW r \in SendInitSession(message)
    PROVE  SendResult(r)
  <1> DEFINE after(dual, reply) ==
               SendAfterCompile(Absorb(NewConversation(dual, message.fiat), reply, message.fiat),
                                reply)
             after2(dual, reply) ==
               IF message.fiat /\ Home \notin UsdcChains THEN Abort ELSE after(dual, reply)
  <1>1. r \in Abort \/ \E dual \in Manifests, reply \in CompileReplies : r \in after(dual, reply)
    <2>0. SendInitSession(message)
             = Abort \cup
               UNION {after2(dual, reply) : dual \in Manifests, reply \in CompileReplies}
      BY DEF SendInitSession, SelectTool, Compile
    <2> HIDE DEF after2
    <2>1. r \in Abort
          \/ r \in UNION {after2(dual, reply) : dual \in Manifests, reply \in CompileReplies}
      BY <2>0
    <2>2. r \in Abort
          \/ \E dual \in Manifests, reply \in CompileReplies : r \in after2(dual, reply)
      BY <2>1
    <2> HIDE DEF after
    <2> QED
      BY <2>2 DEF after2
  <1>2. CASE r \in Abort
    BY <1>2, AbortEnds DEF SendResult
  <1>3. ASSUME NEW dual \in Manifests, NEW reply \in CompileReplies,
               r \in SendAfterCompile(Absorb(NewConversation(dual, message.fiat), reply, message.fiat),
                                      reply)
        PROVE  SendResult(r)
    <2>1. dual \in BOOLEAN
      BY RepliesAssumption
    <2>2. /\ Ready(NewConversation(dual, message.fiat))
          /\ NewConversation(dual, message.fiat).fiat = message.fiat
      BY <2>1, NewReady
    <2>3. Ready(Absorb(NewConversation(dual, message.fiat), reply, message.fiat))
      BY <2>2, AbsorbReady
    <2> QED
      BY <1>3, <2>3, SendGoesOn
  <1> QED
    BY <1>1, <1>2, <1>3

LEMMA TurnsNat ==
    ASSUME NEW st \in State
    PROVE  /\ st.turns \in Nat /\ st.turns + 1 \in Nat
           /\ st.disambigTurns \in Nat /\ st.disambigTurns + 1 \in Nat
           /\ (st.turns < MaxCompileTurns \/ ~(st.turns >= MaxCompileTurns))
                 => st.turns < MaxCompileTurns /\ st.turns + 1 <= MaxCompileTurns
  <1> DEFINE turns == st.turns
             disambigTurns == st.disambigTurns
  <1>1. turns \in Nat
    BY DEF State
  <1>2. disambigTurns \in Nat
    BY DEF State
  <1> HIDE DEF turns, disambigTurns
  <1>3. /\ turns \in Nat /\ turns + 1 \in Nat
        /\ disambigTurns \in Nat /\ disambigTurns + 1 \in Nat
        /\ (turns < MaxCompileTurns \/ ~(turns >= MaxCompileTurns))
                 => turns < MaxCompileTurns /\ turns + 1 <= MaxCompileTurns
    BY <1>1, <1>2, TurnsAssumption
  <1> QED
    BY <1>3 DEF turns, disambigTurns

\* The next round of the compile loop.
LEMMA NextRoundReady ==
    ASSUME NEW st \in State, Rounds(st), st.stage = "compile", Compiling(st),
           NEW fiat \in BOOLEAN, st.fiat => fiat, st.turns < MaxCompileTurns
    PROVE  /\ Ready([st EXCEPT !.turns = @ + 1, !.fiat = fiat])
           /\ Ready([st EXCEPT !.turns = @ + 1])
  <1>1. st.turns \in Nat /\ st.turns + 1 \in Nat /\ st.turns + 1 <= MaxCompileTurns
    BY TurnsNat
  <1>2. ASSUME NEW t \in State, t.turns = st.turns + 1, t.asked = st.asked,
               t.paid = st.paid, t.notified = st.notified, t.extracted = st.extracted,
               t.stage = st.stage, t.said = st.said, st.fiat => t.fiat,
               t.picked = st.picked, t.dual = st.dual, t.field = st.field,
               t.symbol = st.symbol
        PROVE  Ready(t)
    <2>1. st.asked["compile"] \in Nat
      BY StateType
    <2>2. Rounds(t)
      <3>1. Tells(t)
        BY <1>2 DEF Rounds, Tells
      <3> QED
        BY <1>1, <1>2, <2>1, <3>1 DEF Rounds
    <2>3. t.asked["compile"] + 1 <= t.turns
      BY <1>1, <1>2, <2>1 DEF Rounds
    <2> QED
      BY <1>2, <2>2, <2>3, StillReady
  <1>3. Ready([st EXCEPT !.turns = @ + 1])
    <2> DEFINE turns == st.turns + 1
               t == [st EXCEPT !.turns = turns]
    <2>0. turns \in Nat
      BY <1>1
    <2> HIDE DEF turns
    <2>1. /\ t \in State /\ t.turns = turns /\ t.asked = st.asked
          /\ t.paid = st.paid /\ t.notified = st.notified /\ t.extracted = st.extracted
          /\ t.stage = st.stage /\ t.said = st.said /\ t.fiat = st.fiat
          /\ t.picked = st.picked /\ t.dual = st.dual
          /\ t.field = st.field /\ t.symbol = st.symbol
      BY <2>0 DEF State
    <2> HIDE DEF t
    <2>2. Ready(t)
      BY <1>2, <2>1 DEF turns
    <2> QED
      BY <2>2 DEF t, turns
  <1>4. Ready([st EXCEPT !.turns = @ + 1, !.fiat = fiat])
    <2> DEFINE turns == st.turns + 1
               t == [st EXCEPT !.turns = turns, !.fiat = fiat]
    <2>1. turns \in Nat
      BY <1>1
    <2> HIDE DEF turns
    <2>2. /\ t \in State /\ t.turns = turns /\ t.asked = st.asked
          /\ t.paid = st.paid /\ t.notified = st.notified /\ t.extracted = st.extracted
          /\ t.stage = st.stage /\ t.said = st.said /\ t.fiat = fiat
          /\ t.picked = st.picked /\ t.dual = st.dual
          /\ t.field = st.field /\ t.symbol = st.symbol
      BY <2>1 DEF State
    <2> HIDE DEF t
    <2>3. Ready(t)
      BY <1>2, <2>2 DEF turns
    <2> QED
      BY <2>3 DEF t, turns
  <1> QED
    BY <1>3, <1>4

LEMMA SendContinues ==
    ASSUME NEW st, SendState(st), st.stage = "compile", NEW message, message.fiat \in BOOLEAN,
           NEW r \in SendContinueCompileLoop(st, message)
    PROVE  SendResult(r)
  <1> DEFINE fiat == st.fiat \/ message.fiat
             usdcFirst == fiat /\ st.field["from"] = NoField
             t == [st EXCEPT !.turns = @ + 1, !.fiat = fiat]
  <1>1. \/ r \in Abort
        \/ /\ ~(st.turns >= MaxCompileTurns)
           /\ \E reply \in CompileReplies :
                 r \in SendAfterCompile(Absorb(t, reply, usdcFirst), reply)
    BY Zenon DEF SendContinueCompileLoop, Compile
  <1>2. CASE r \in Abort
    BY <1>2, AbortEnds DEF SendResult
  <1>3. ASSUME ~(st.turns >= MaxCompileTurns), NEW reply \in CompileReplies,
               r \in SendAfterCompile(Absorb(t, reply, usdcFirst), reply)
        PROVE  SendResult(r)
    <2>1. st \in State /\ Rounds(st) /\ Compiling(st)
      BY DEF SendState
    <2>2. fiat \in BOOLEAN
      BY Zenon
    <2>20. usdcFirst \in BOOLEAN /\ (usdcFirst => fiat) /\ (st.fiat => fiat)
      BY Zenon
    <2>3. st.turns < MaxCompileTurns
      BY <1>3, <2>1, TurnsNat
    <2> HIDE DEF fiat, usdcFirst
    <2>4. Ready(t) /\ t.fiat = fiat
      <3>1. Ready(t)
        BY <2>1, <2>2, <2>20, <2>3, NextRoundReady
      <3> QED
        BY <2>1, <3>1 DEF State
    <2> HIDE DEF t
    <2>5. Ready(Absorb(t, reply, usdcFirst))
      BY <2>20, <2>4, AbsorbReady
    <2> QED
      BY <1>3, <2>5, SendGoesOn
  <1> QED
    BY <1>1, <1>2, <1>3

\* An answer settles its slot and nothing else.
Settled(t, st, slot, token) ==
    /\ t \in State /\ t.dual = st.dual /\ t.fiat = st.fiat /\ t.filled = st.filled
    /\ t.symbol = st.symbol /\ t.chain = st.chain /\ t.paid = st.paid
    /\ t.notified = st.notified /\ t.extracted = st.extracted /\ t.said = st.said
    /\ t.turns = st.turns /\ t.asked = st.asked
    /\ t.awaiting = st.awaiting /\ t.candidates = st.candidates /\ t.stage = st.stage
    /\ t.picked = [st.picked EXCEPT ![slot] = token]
    /\ t.kept = [st.kept EXCEPT ![slot] = token]
    /\ t.field = IF st.dual THEN [st.field EXCEPT ![slot] = token] ELSE st.field

LEMMA AnswerSettles ==
    ASSUME NEW st \in State, NEW slot \in Slot, NEW token \in Addresses
    PROVE  Settled(Answered(st, slot, token), st, slot, token)
  <1> DEFINE t == Answered(st, slot, token)
             picked == [st.picked EXCEPT ![slot] = token]
             kept == [st.kept EXCEPT ![slot] = token]
             field == IF st.dual THEN [st.field EXCEPT ![slot] = token] ELSE st.field
             turns == st.disambigTurns + 1
  <1>10. /\ st.picked \in [Slot -> Addresses \cup {NoToken}] /\ st.kept \in [Slot -> Field]
         /\ st.field \in [Slot -> Field] /\ token \in Field
    BY StateType, TextSays
  <1>1. /\ picked \in [Slot -> Addresses \cup {NoToken}] /\ kept \in [Slot -> Field]
        /\ field \in [Slot -> Field]
    BY <1>10
  <1>2. turns \in Nat
    BY TurnsNat
  <1>3. t = [st EXCEPT !.disambigTurns = turns, !.picked = picked, !.kept = kept,
                       !.field = field]
    <2>1. t = [st EXCEPT !.disambigTurns = @ + 1, !.picked[slot] = token, !.kept[slot] = token,
                         !.field[slot] = IF st.dual THEN token ELSE @]
      BY DEF Answered
    <2>2. field = [st.field EXCEPT ![slot] = IF st.dual THEN token ELSE @]
      BY StateType
    <2> HIDE DEF field
    <2> QED
      BY <2>1, <2>2, Zenon
  <1> HIDE DEF t, picked, kept, field, turns
  <1>4. /\ t \in State /\ t.picked = picked /\ t.kept = kept /\ t.field = field
        /\ t.dual = st.dual /\ t.fiat = st.fiat /\ t.filled = st.filled
        /\ t.symbol = st.symbol /\ t.chain = st.chain /\ t.paid = st.paid
        /\ t.notified = st.notified /\ t.extracted = st.extracted /\ t.said = st.said
        /\ t.turns = st.turns /\ t.asked = st.asked
        /\ t.awaiting = st.awaiting /\ t.candidates = st.candidates /\ t.stage = st.stage
    BY <1>1, <1>2, <1>3 DEF State
  <1> QED
    BY <1>4 DEF t, picked, kept, field, Settled
LEMMA SendReplies ==
    ASSUME NEW st, SendState(st), st.stage = "disambig", NEW message,
           NEW r \in SendHandleDisambiguationReply(st, message)
    PROVE  SendResult(r)
  <1> DEFINE slot == st.awaiting
             token == PickCandidate(message, st.candidates[slot])
             s == Answered(st, slot, token)
             rest == st.candidates["to"]
             next == [s EXCEPT !.awaiting = "to"]
             none == [t \in Slot |-> <<>>]
             kept == [s.kept EXCEPT !["to"] = IF slot = "to" THEN @
                                              ELSE IF rest = <<>> THEN NoToken ELSE rest[1]]
             done == [s EXCEPT !.stage = "compile", !.candidates = none, !.kept = kept]
  <1>1. /\ st \in State /\ Rounds(st) /\ st.filled /\ AskedOnce(st)
        /\ st.dual => /\ Fits(st) /\ (st.fiat => IsAddress(st.field["from"]))
                      /\ st.awaiting = "from" => st.candidates["to"] = <<>>
        /\ ~st.dual => Listed(st)
    BY DEF SendState
  <1>2. /\ slot \in Slot /\ rest \in Seq(Addresses)
        /\ st.candidates[slot] \in Seq(Addresses)
    BY <1>1, SlotType, StateType, Slots
  <1>3. \/ r \in Abort
        \/ /\ token # NoToken
           /\ \/ slot = "from" /\ Len(rest) > 1 /\ r \in Ask(next, "to")
              \/ ~(slot = "from" /\ Len(rest) > 1) /\ st.dual /\ r \in SendRunResolutionPhase(done)
              \/ /\ ~(slot = "from" /\ Len(rest) > 1) /\ ~st.dual
                 /\ r \in Ok(done, done.kept["from"], done.kept["to"])
    <2>1. done = [s EXCEPT !.stage = "compile", !.candidates = [t \in Slot |-> <<>>],
                           !.kept["to"] = IF slot = "to" THEN @
                                          ELSE IF rest = <<>> THEN NoToken ELSE rest[1]]
      BY Zenon
    <2> QED
      BY <2>1, Zenon DEF SendHandleDisambiguationReply
  <1>4. CASE r \in Abort
    BY <1>4, AbortEnds DEF SendResult
  <1>5. SUFFICES ASSUME token # NoToken,
                     \/ slot = "from" /\ Len(rest) > 1 /\ r \in Ask(next, "to")
                     \/ /\ ~(slot = "from" /\ Len(rest) > 1) /\ st.dual
                        /\ r \in SendRunResolutionPhase(done)
                     \/ /\ ~(slot = "from" /\ Len(rest) > 1) /\ ~st.dual
                        /\ r \in Ok(done, done.kept["from"], done.kept["to"])
               PROVE  SendResult(r)
    BY <1>3, <1>4
  <1>6. token \in Addresses
    BY <1>2, <1>5, PickIsOffered
  <1> HIDE DEF token, slot
  <1>7. /\ s \in State /\ s.dual = st.dual /\ s.fiat = st.fiat /\ s.filled = st.filled
        /\ s.symbol = st.symbol /\ s.chain = st.chain /\ s.paid = st.paid
        /\ s.notified = st.notified /\ s.extracted = st.extracted /\ s.said = st.said
        /\ s.turns = st.turns /\ s.asked = st.asked
        /\ s.awaiting = st.awaiting /\ s.candidates = st.candidates /\ s.stage = st.stage
        /\ s.picked = [st.picked EXCEPT ![slot] = token]
        /\ s.kept = [st.kept EXCEPT ![slot] = token]
        /\ s.field = IF st.dual THEN [st.field EXCEPT ![slot] = token] ELSE st.field
    <2>1. Settled(s, st, slot, token)
      BY <1>1, <1>2, <1>6, AnswerSettles
    <2> HIDE DEF s
    <2> QED
      BY <2>1 DEF Settled
  <1> HIDE DEF s
  <1>8. /\ s.picked[slot] = token /\ token # NoToken /\ s.kept[slot] = token
        /\ \A u \in Slot \ {slot} : s.picked[u] = st.picked[u] /\ s.kept[u] = st.kept[u]
    <2>1. st.picked \in [Slot -> Addresses \cup {NoToken}] /\ st.kept \in [Slot -> Field]
      BY <1>1, StateType
    <2> HIDE DEF s
    <2> QED
      BY <1>2, <1>5, <1>7, <2>1
  <1>9. \A u \in Slot : s.asked[u] <= 1 /\ (s.picked[u] = NoToken => s.asked[u] = 0)
    BY <1>1, <1>7, <1>8 DEF AskedOnce, slot
  <1>10. ASSUME slot = "from", Len(rest) > 1, r \in Ask(next, "to")
         PROVE  SendResult(r)
    <2>1. /\ next \in State /\ SameSaid(next, s) /\ next.asked = s.asked
          /\ next.stage = s.stage /\ next.awaiting = "to"
          /\ next.candidates = s.candidates /\ next.kept = s.kept
      <3>1. "to" \in Slot /\ s \in State /\ next = [s EXCEPT !.awaiting = "to"]
        BY <1>7, Slots
      <3> HIDE DEF next, s
      <3> QED
        BY <3>1 DEF State, SameSaid
    <2> HIDE DEF next
    <2>2. /\ Asks(r) /\ r.state \in State /\ SameSaid(r.state, next)
          /\ r.state.stage = next.stage /\ r.state.awaiting = next.awaiting
          /\ r.state.candidates = next.candidates /\ r.state.kept = next.kept
          /\ r.state.asked["to"] = next.asked["to"] + 1
          /\ \A u \in ({"compile"} \cup Slot) \ {"to"} : r.state.asked[u] = next.asked[u]
      <3>1. "to" \in {"compile"} \cup Slot
        BY Slots
      <3> QED
        BY <1>10, <2>1, <3>1, AskCounts, Zenon
    <2>3. ~st.dual /\ Listed(st) /\ st.picked["to"] = NoToken /\ st.asked["to"] = 0
      <3>1. Len(<<>>) = 0
        OBVIOUS
      <3>2. ~st.dual
        BY <1>1, <1>10, <3>1 DEF slot
      <3>3. Listed(st) /\ st.picked["to"] = NoToken
        BY <1>1, <3>2 DEF Listed
      <3> QED
        BY <1>1, <1>10, <3>2, <3>3, Slots DEF AskedOnce, slot
    <2>4. /\ r.state.picked = s.picked /\ r.state.said = st.said
          /\ r.state.fiat = st.fiat /\ r.state.candidates = st.candidates
          /\ r.state.kept = s.kept /\ r.state.awaiting = "to" /\ ~r.state.dual
          /\ r.state.filled /\ r.state.stage = "disambig"
          /\ r.state.paid = st.paid /\ r.state.notified = st.notified
          /\ r.state.extracted = st.extracted /\ r.state.turns = st.turns
      BY <1>1, <1>7, <2>1, <2>2, <2>3 DEF SameSaid
    <2>5. /\ r.state.asked["from"] = st.asked["from"]
          /\ r.state.asked["compile"] = st.asked["compile"]
          /\ r.state.asked["to"] = 1
      BY <1>7, <2>1, <2>2, <2>3 DEF Slot
    <2>6. Rounds(r.state)
      BY <1>1, <2>4, <2>5 DEF Rounds, Tells
    <2>7. s.picked["from"] = token /\ s.kept["from"] = token /\ s.picked["to"] = NoToken
      BY <1>8, <1>10, <2>3, Slots
    <2>8. AskedOnce(r.state)
      BY <1>8, <1>9, <1>7, <2>4, <2>5, <2>7 DEF AskedOnce, Slot
    <2>9. Listed(r.state)
      BY <1>8, <1>10, <2>3, <2>4, <2>7 DEF Listed, slot
    <2>10. SendState(r.state)
      BY <2>2, <2>4, <2>6, <2>8, <2>9 DEF SendState
    <2> QED
      BY <2>2, <2>10 DEF SendResult
  <1>11. /\ done \in State /\ done.dual = s.dual /\ done.fiat = s.fiat /\ done.filled = s.filled
         /\ done.symbol = s.symbol /\ done.chain = s.chain /\ done.paid = s.paid
         /\ done.notified = s.notified /\ done.extracted = s.extracted
         /\ done.said = s.said /\ done.turns = s.turns /\ done.asked = s.asked
         /\ done.picked = s.picked /\ done.field = s.field /\ done.kept = kept
    <2>1. none \in [Slot -> Seq(Addresses)]
      OBVIOUS
    <2>2. kept \in [Slot -> Field]
      <3>1. rest # <<>> => rest[1] \in Field
        BY <1>2, HeadOf, AddressSays
      <3>2. s.kept \in [Slot -> Field]
        BY <1>7, StateType
      <3> QED
        BY <3>1, <3>2, AddressSays
    <2> HIDE DEF none, kept
    <2> QED
      BY <1>7, <2>1, <2>2 DEF State
  <1> HIDE DEF done
  <1>12. Rounds(done) /\ done.filled
    <2>1. /\ done.paid = st.paid /\ done.notified = st.notified /\ done.turns = st.turns
          /\ done.extracted = st.extracted
          /\ done.asked = st.asked /\ done.filled = st.filled
      BY <1>7, <1>11
    <2> QED
      BY <1>1, <2>1 DEF Rounds, Tells
  <1>13. ASSUME st.dual, r \in SendRunResolutionPhase(done)
         PROVE  SendResult(r)
    <2>1. /\ s.field[slot] = token
          /\ \A u \in Slot \ {slot} : s.field[u] = st.field[u]
      <3>1. st.field \in [Slot -> Field] /\ s.field = [st.field EXCEPT ![slot] = token]
        BY <1>1, <1>7, <1>13, StateType
      <3> QED
        BY <1>2, <3>1
    <2>2. Fits(done)
      <3>1. ASSUME NEW u \in Slot PROVE FieldFits(done, u)
        <4>1. CASE u = slot
          BY <1>8, <1>11, <2>1, <4>1 DEF FieldFits
        <4>2. CASE u # slot
          BY <1>1, <1>7, <1>8, <1>11, <1>13, <2>1, <4>2 DEF Fits, FieldFits
        <4> QED
          BY <4>1, <4>2
      <3> QED
        BY <3>1 DEF Fits
    <2>4. AskedBefore(done)
      BY <1>9, <1>11 DEF AskedBefore
    <2> QED
      BY <1>7, <1>11, <1>12, <1>13, <2>2, <2>4, SendResolves
  <1>14. ASSUME ~st.dual, ~(slot = "from" /\ Len(rest) > 1),
                r \in Ok(done, done.kept["from"], done.kept["to"])
         PROVE  SendResult(r)
    <2>1. /\ Goes(r)
          /\ r.params.token["from"] = kept["from"] /\ r.params.token["to"] = kept["to"]
          /\ r.params.paid = done.paid /\ r.params.notified = done.notified
          /\ r.params.extracted = done.extracted
          /\ r.params.picked = done.picked /\ r.params.fiat = done.fiat
          /\ r.params.said = done.said
      BY <1>11, <1>14, OkGives
    <2>2. Listed(st) /\ s.kept \in [Slot -> Field]
      BY <1>1, <1>7, <1>14, StateType
    <2>3. kept["from"] = s.kept["from"]
          /\ kept["to"] = IF slot = "to" THEN s.kept["to"]
                          ELSE IF rest = <<>> THEN NoToken ELSE rest[1]
      BY <2>2, Slots
    <2> HIDE DEF kept
    <2>30. \A u \in Slot : \A any : Given(r.params, u, any) <=> Given(st, u, any)
      BY <1>7, <1>11, <2>1 DEF Given
    <2>31. Tells(r.params)
      BY <1>12, <2>1 DEF Rounds, Tells
    <2>4. CASE slot = "to"
      <3>1. kept["to"] = token /\ done.picked["to"] = token
        BY <1>8, <1>11, <2>3, <2>4
      <3>2. done.picked["from"] = st.picked["from"] /\ kept["from"] = st.kept["from"]
        BY <1>8, <1>11, <2>3, <2>4, Slots
      <3>3. SendParams(r.params)
        BY <1>5, <2>1, <2>2, <2>30, <2>31, <2>4, <3>1, <3>2, Slots
           DEF SendParams, Listed, slot
      <3> QED
        BY <2>1, <3>3 DEF SendResult
    <2>5. CASE slot = "from"
      <3>1. kept["from"] = token /\ done.picked["from"] = token
        BY <1>8, <1>11, <2>3, <2>5
      <3>2. done.picked["to"] = NoToken
        BY <1>8, <1>11, <2>2, <2>5, Slots DEF Listed
      <3>3. StandsFor(st.said["to"], Home, kept["to"])
        <4>1. CASE st.said["to"] = NoField
          <5>1. rest = <<>>
            BY <2>2, <4>1 DEF Listed
          <5> QED
            BY <2>3, <2>5, <4>1, <5>1, TextSays DEF StandsFor
        <4>2. CASE st.said["to"] # NoField
          <5>1. /\ ~IsAddress(st.said["to"]) /\ rest # <<>>
                /\ rest = SearchBySymbol(st.said["to"].symbol, Home)
            BY <2>2, <4>2 DEF Listed
          <5>2. Len(rest) = 1 /\ rest = <<rest[1]>>
            <6>1. Len(rest) <= 1
              BY <1>14, <2>5, <1>2, HeadOf
            <6> QED
              BY <1>2, <5>1, <6>1, HeadOf
          <5>3. kept["to"] = rest[1]
            BY <2>3, <2>5, <5>1
          <5> QED
            BY <4>2, <5>1, <5>2, <5>3 DEF StandsFor
        <4> QED
          BY <4>1, <4>2
      <3>4. Given(st, "to", kept["to"])
        BY <3>3 DEF Given
      <3>5. SendParams(r.params)
        BY <1>5, <2>1, <2>30, <2>31, <3>1, <3>2, <3>4, Slots DEF SendParams
      <3> QED
        BY <2>1, <3>5 DEF SendResult
    <2> QED
      BY <1>2, <2>4, <2>5, Slots
  <1> QED
    BY <1>5, <1>10, <1>13, <1>14

\* Whatever SendCapability makes of a message, alone or as an answer to its question.
LEMMA SendCollects ==
    ASSUME NEW message, message.fiat \in BOOLEAN, NEW resuming,
           resuming.stage = "none" \/ SendState(resuming),
           NEW r \in SendCollect(message, resuming)
    PROVE  SendResult(r)
  <1>1. CASE resuming.stage = "none"
    <2>1. r \in SendInitSession(message)
      BY <1>1 DEF SendCollect
    <2> QED
      BY <2>1, SendInits
  <1>2. CASE SendState(resuming) /\ resuming.stage = "compile"
    <2>1. r \in SendContinueCompileLoop(resuming, message)
      BY <1>2 DEF SendCollect
    <2> QED
      BY <1>2, <2>1, SendContinues
  <1>3. CASE SendState(resuming) /\ resuming.stage = "disambig"
    <2>1. r \in SendHandleDisambiguationReply(resuming, message)
      BY <1>3 DEF SendCollect
    <2> QED
      BY <1>3, <2>1, SendReplies
  <1> QED
    BY <1>1, <1>2, <1>3, StateType DEF SendState
--------------------------------------------------------------------------------
(* SwapCapability                                                          *)

\* What the resolver is started with.
SwapReady(st) ==
    /\ st \in State /\ Rounds(st) /\ st.dual /\ ~st.fiat /\ SwapFits(st) /\ Spoken(st)
    /\ ~st.filled => Ready(st)
    /\ AskedBefore(st) \/ st.symbol["from"] = st.symbol["to"]

\* And what it sees of a slot about which nobody was asked.
PutIn(st) ==
    \A s \in Slot :
       IF st.picked[s] # NoToken THEN st.field[s] = st.picked[s]
       ELSE IF st.said[s] = Named("USDC")
       THEN st.field[s] = UsdcAddress(ResolveChainSymbol(st.chain[s]))
       ELSE st.field[s] = st.said[s]

LEMMA ChainInt == \A chain \in Int : ResolveChainSymbol(chain) \in Int
  BY Slots DEF ResolveChainSymbol

LEMMA UsdcPutIn ==
    ASSUME NEW st \in State, SwapFits(st), Spoken(st), ~st.fiat
    PROVE  /\ WithUsdc(st) \in State /\ PutIn(WithUsdc(st))
           /\ WithUsdc(st).filled = st.filled /\ WithUsdc(st).dual = st.dual
           /\ WithUsdc(st).symbol = st.symbol /\ WithUsdc(st).chain = st.chain
           /\ WithUsdc(st).paid = st.paid /\ WithUsdc(st).notified = st.notified
           /\ WithUsdc(st).extracted = st.extracted /\ WithUsdc(st).said = st.said
           /\ WithUsdc(st).turns = st.turns /\ WithUsdc(st).asked = st.asked
           /\ WithUsdc(st).picked = st.picked /\ WithUsdc(st).fiat = st.fiat
  <1> DEFINE t == WithUsdc(st)
             field == [s \in Slot |->
                          IF st.symbol[s] = "USDC" /\ ~IsAddress(st.field[s])
                          THEN UsdcAddress(ResolveChainSymbol(st.chain[s])) ELSE st.field[s]]
  <1>1. t = [st EXCEPT !.field = field]
    BY DEF WithUsdc
  <1>2. ASSUME NEW s \in Slot
        PROVE  /\ st.field[s] \in Field
               /\ UsdcAddress(ResolveChainSymbol(st.chain[s])) \in Field
               /\ IsAddress(UsdcAddress(ResolveChainSymbol(st.chain[s])))
    <2>1. st.field[s] \in Field /\ st.chain[s] \in Int
      BY SlotType
    <2>2. ResolveChainSymbol(st.chain[s]) \in Int
      BY <2>1, ChainInt
    <2> QED
      BY <2>1, <2>2, UsdcIsAddress, TextSays
  <1>3. field \in [Slot -> Field]
    BY <1>2
  <1>4. ASSUME NEW s \in Slot
        PROVE  IF st.picked[s] # NoToken THEN field[s] = st.picked[s]
               ELSE IF st.said[s] = Named("USDC")
               THEN field[s] = UsdcAddress(ResolveChainSymbol(st.chain[s]))
               ELSE field[s] = st.said[s]
    <2>1. /\ st.picked[s] \in Addresses \cup {NoToken} /\ st.said[s] \in Field
          /\ st.symbol[s] \in Texts \cup {""}
          /\ ~IsAddress(st.said[s]) => st.said[s] = Named(st.symbol[s])
      BY SlotType DEF Spoken
    <2>2. CASE st.picked[s] # NoToken
      <3>1. IsAddress(st.field[s]) /\ st.field[s] = st.picked[s]
        BY <2>1, <2>2, TextSays DEF SwapFits
      <3> QED
        BY <2>2, <3>1
    <2>3. CASE st.picked[s] = NoToken /\ st.said[s] = Named("USDC")
      <3>1. ~IsAddress(st.said[s]) /\ Named("USDC").symbol = "USDC"
        BY <2>3, TextSays, MatchesAssumption
      <3>2. Named(st.symbol[s]).symbol = st.symbol[s]
        BY <2>1, TextSays
      <3>3. st.symbol[s] = "USDC"
        BY <2>1, <2>3, <3>1, <3>2
      <3>4. \/ st.field[s] = st.said[s]
            \/ st.field[s] = UsdcAddress(ResolveChainSymbol(st.chain[s]))
        BY <2>3 DEF SwapFits
      <3>5. field[s] = UsdcAddress(ResolveChainSymbol(st.chain[s]))
        BY <1>2, <3>1, <3>3, <3>4
      <3> QED
        BY <2>3, <3>5
    <2>4. CASE st.picked[s] = NoToken /\ st.said[s] # Named("USDC")
      <3>1. st.field[s] = st.said[s]
        BY <2>4 DEF SwapFits
      <3>2. ~IsAddress(st.said[s]) => st.symbol[s] # "USDC"
        BY <2>1, <2>4
      <3>3. field[s] = st.said[s]
        BY <3>1, <3>2
      <3> QED
        BY <2>4, <3>3
    <2> QED
      BY <2>2, <2>3, <2>4
  <1> HIDE DEF t, field
  <1>5. /\ t \in State /\ t.field = field /\ t.filled = st.filled /\ t.dual = st.dual
        /\ t.symbol = st.symbol /\ t.chain = st.chain /\ t.fiat = st.fiat
        /\ t.paid = st.paid /\ t.notified = st.notified
        /\ t.extracted = st.extracted /\ t.said = st.said
        /\ t.turns = st.turns /\ t.asked = st.asked /\ t.picked = st.picked
    BY <1>1, <1>3 DEF State
  <1>6. PutIn(t)
    BY <1>4, <1>5 DEF PutIn
  <1> QED
    BY <1>5, <1>6 DEF t

LEMMA SwapAsksAbout ==
    ASSUME NEW st \in State, Rounds(st), st.filled, st.dual, ~st.fiat, PutIn(st), Spoken(st),
           AskedBefore(st) \/ st.symbol["from"] = st.symbol["to"],
           NEW slot \in Slot, ~IsAddress(st.field[slot]), NEW candidates \in Seq(Addresses),
           NEW r \in SwapEnterDisambiguation(st, slot, candidates)
    PROVE  SwapResult(r)
  <1> DEFINE about == IF st.field[slot].symbol = st.symbol["to"] THEN "to" ELSE "from"
  <1>1. r \in AskAbout(st, about, candidates)
    BY DEF SwapEnterDisambiguation
  <1>3. st.picked[slot] = NoToken /\ st.field[slot].symbol = st.symbol[slot]
    <2>1. /\ st.picked[slot] \in Addresses \cup {NoToken} /\ st.chain[slot] \in Int
          /\ st.symbol[slot] \in Texts \cup {""}
      BY SlotType
    <2>2. st.picked[slot] = NoToken
      BY <2>1, TextSays DEF PutIn
    <2>3. IsAddress(UsdcAddress(ResolveChainSymbol(st.chain[slot])))
      BY <2>1, ChainInt, UsdcIsAddress, TextSays
    <2>4. st.field[slot] = st.said[slot]
      BY <2>2, <2>3 DEF PutIn
    <2>5. st.said[slot] = Named(st.symbol[slot])
      BY <2>4 DEF Spoken
    <2>6. Named(st.symbol[slot]).symbol = st.symbol[slot]
      BY <2>1, TextSays, Zenon
    <2> QED
      BY <2>2, <2>4, <2>5, <2>6
  <1>2. about \in Slot /\ (about = slot \/ st.symbol["from"] = st.symbol["to"])
    BY <1>3 DEF Slot
  <1> HIDE DEF about
  <1>4. /\ Asks(r) /\ r.state \in State /\ SameSaid(r.state, st)
        /\ r.state.stage = "disambig"
        /\ r.state.asked[about] = st.asked[about] + 1
        /\ \A q \in ({"compile"} \cup Slot) \ {about} : r.state.asked[q] = st.asked[q]
    BY <1>1, <1>2, AskAboutCounts
  <1>5. r.state.asked["compile"] = st.asked["compile"]
    BY <1>2, <1>4 DEF Slot
  <1>6. Rounds(r.state) /\ SwapFits(r.state) /\ Spoken(r.state)
    <2>1. SwapFits(st)
      BY DEF PutIn, SwapFits
    <2> QED
      BY <1>4, <1>5, <2>1, SaidKept
  <1>7. AskedOnce(r.state) \/ r.state.symbol["from"] = r.state.symbol["to"]
    <2>1. CASE st.symbol["from"] = st.symbol["to"]
      BY <1>4, <2>1 DEF SameSaid
    <2>2. CASE st.symbol["from"] # st.symbol["to"]
      <3>1. AskedBefore(st) /\ about = slot
        BY <1>2, <2>2
      <3>2. r.state.awaiting = about
        BY <1>1, <1>2, AskAboutCounts
      <3>3. AskedOnce(r.state)
        <4>1. ASSUME NEW u \in Slot
              PROVE  /\ r.state.asked[u] <= 1
                     /\ r.state.picked[u] = NoToken /\ r.state.awaiting # u
                           => r.state.asked[u] = 0
          <5>1. st.asked[u] <= 1 /\ (st.picked[u] = NoToken => st.asked[u] = 0)
            BY <3>1 DEF AskedBefore
          <5>2. r.state.picked[u] = st.picked[u]
            BY <1>4 DEF SameSaid
          <5>3. CASE u = about
            BY <1>3, <1>4, <3>1, <3>2, <5>1, <5>3
          <5>4. CASE u # about
            <6>1. r.state.asked[u] = st.asked[u]
              BY <1>4, <5>4
            <6> QED
              BY <5>1, <5>2, <6>1
          <5> QED
            BY <5>3, <5>4
        <4> QED
          BY <4>1 DEF AskedOnce
      <3> QED
        BY <3>3
    <2> QED
      BY <2>1, <2>2
  <1>8. SwapState(r.state)
    BY <1>4, <1>6, <1>7 DEF SwapState, SameSaid
  <1> QED
    BY <1>4, <1>8 DEF SwapResult

LEMMA SwapFinishes ==
    ASSUME NEW st, SwapReady(st), NEW r \in SwapFinishCompileOrResolve(st)
    PROVE  SwapResult(r)
  <1> DEFINE chain == [s \in Slot |-> ResolveChainSymbol(st.chain[s])]
             t == WithUsdc(st)
             from == Lookup(t.field["from"], chain["from"])
             to == Lookup(t.field["to"], chain["to"])
  <1>1. CASE ~st.filled
    <2>1. r \in Ask(st, "compile")
      BY <1>1 DEF SwapFinishCompileOrResolve
    <2> QED
      BY <1>1, <2>1, CompilerAsks DEF SwapReady, SwapResult, SwapState
  <1>2. CASE st.filled
    <2>1. /\ t \in State /\ PutIn(t) /\ Spoken(t) /\ t.filled /\ t.dual /\ ~t.fiat
          /\ t.symbol = st.symbol /\ t.chain = st.chain /\ Rounds(t)
          /\ AskedBefore(t) \/ t.symbol["from"] = t.symbol["to"]
      <3>1. /\ t \in State /\ PutIn(t) /\ t.filled = st.filled /\ t.dual = st.dual
            /\ t.symbol = st.symbol /\ t.chain = st.chain /\ t.fiat = st.fiat
            /\ t.paid = st.paid /\ t.notified = st.notified
            /\ t.extracted = st.extracted /\ t.said = st.said
            /\ t.turns = st.turns /\ t.asked = st.asked /\ t.picked = st.picked
        BY UsdcPutIn DEF SwapReady
      <3> HIDE DEF t
      <3> QED
        BY <1>2, <3>1 DEF SwapReady, Rounds, Tells, Spoken, AskedBefore
    <2> HIDE DEF t
    <2>2. \A s \in Slot : chain[s] = ResolveChainSymbol(t.chain[s]) /\ chain[s] \in Int
      BY <2>1, SlotType, ChainInt
    <2> HIDE DEF chain
    <2>3. /\ from.kind \in {"token", "several", "error"}
          /\ to.kind \in {"token", "several", "error"}
      BY <2>1, <2>2, SlotType, LookupFinds, Slots
    <2>4. \/ r \in Abort
          \/ from.kind = "several" /\ r \in SwapEnterDisambiguation(t, "from", from.candidates)
          \/ to.kind = "several" /\ r \in SwapEnterDisambiguation(t, "to", to.candidates)
          \/ /\ from.kind = "token" /\ to.kind = "token"
             /\ from.token # NoToken /\ to.token # NoToken
             /\ r \in Ok(t, from.token, to.token)
      <3>1. \/ r \in Abort
            \/ r \in CASE from.kind = "several" ->
                            SwapEnterDisambiguation(t, "from", from.candidates)
                       [] from.kind = "token" /\ to.kind = "several" ->
                            SwapEnterDisambiguation(t, "to", to.candidates)
                       [] from.kind = "token" /\ to.kind = "token"
                            /\ from.token # NoToken /\ to.token # NoToken ->
                            Ok(t, from.token, to.token) \cup Abort
                       [] OTHER -> Abort
        BY <1>2, Zenon DEF SwapFinishCompileOrResolve, t, chain
      <3> HIDE DEF from, to
      <3> QED
        BY <2>3, <3>1
    <2>5. CASE r \in Abort
      BY <2>5, AbortEnds DEF SwapResult
    <2>6. ASSUME NEW slot \in Slot, Lookup(t.field[slot], chain[slot]).kind = "several",
                 r \in SwapEnterDisambiguation(t, slot,
                                               Lookup(t.field[slot], chain[slot]).candidates)
          PROVE  SwapResult(r)
      <3>1. t.field[slot] \in Field /\ chain[slot] \in Int
        BY <2>1, <2>2, SlotType
      <3>2. /\ ~IsAddress(t.field[slot])
            /\ Lookup(t.field[slot], chain[slot]).candidates \in Seq(Addresses)
        BY <2>6, <3>1, LookupFinds
      <3> QED
        BY <2>1, <2>6, <3>2, SwapAsksAbout
    <2>7. ASSUME from.kind = "token", to.kind = "token",
                 from.token # NoToken, to.token # NoToken, r \in Ok(t, from.token, to.token)
          PROVE  SwapResult(r)
      <3>1. /\ Goes(r)
            /\ r.params.token["from"] = from.token /\ r.params.token["to"] = to.token
            /\ r.params.picked = t.picked /\ r.params.said = t.said
            /\ r.params.chain = t.chain
        BY <2>1, <2>7, OkGives
      <3>2. ASSUME NEW slot \in Slot, Lookup(t.field[slot], chain[slot]).kind = "token",
                   Lookup(t.field[slot], chain[slot]).token # NoToken
            PROVE  /\ IF t.picked[slot] # NoToken
                      THEN Lookup(t.field[slot], chain[slot]).token = t.picked[slot]
                      ELSE IF t.said[slot] = Named("USDC")
                      THEN Lookup(t.field[slot], chain[slot]).token
                              = UsdcAddress(ResolveChainSymbol(t.chain[slot]))
                      ELSE StandsFor(t.said[slot], ResolveChainSymbol(t.chain[slot]),
                                     Lookup(t.field[slot], chain[slot]).token)
                   /\ Lookup(t.field[slot], chain[slot]).token.chain
                         = ResolveChainSymbol(t.chain[slot])
        <4> DEFINE token == Lookup(t.field[slot], chain[slot]).token
        <4>1. t.field[slot] \in Field /\ chain[slot] \in Int
              /\ chain[slot] = ResolveChainSymbol(t.chain[slot])
              /\ t.picked[slot] \in Addresses \cup {NoToken}
          BY <2>1, <2>2, SlotType
        <4>2. token.chain = chain[slot] /\ StandsFor(t.field[slot], chain[slot], token)
          BY <3>2, <4>1, LookupFinds
        <4>3. IsAddress(t.field[slot]) => token = t.field[slot]
          BY <4>2, TextSays DEF StandsFor
        <4> HIDE DEF token
        <4>4. CASE t.picked[slot] # NoToken
          <5>1. t.field[slot] = t.picked[slot] /\ IsAddress(t.field[slot])
            BY <2>1, <4>1, <4>4, TextSays DEF PutIn
          <5> QED
            BY <4>1, <4>2, <4>3, <4>4, <5>1 DEF token
        <4>5. CASE t.picked[slot] = NoToken /\ t.said[slot] = Named("USDC")
          <5>1. t.field[slot] = UsdcAddress(ResolveChainSymbol(t.chain[slot]))
            BY <2>1, <4>5 DEF PutIn
          <5>2. ResolveChainSymbol(t.chain[slot]) \in Int
            BY <4>1
          <5>3. IsAddress(t.field[slot])
            BY <5>1, <5>2, UsdcIsAddress, AddressSays
          <5> QED
            BY <4>1, <4>2, <4>3, <4>5, <5>1, <5>3 DEF token
        <4>6. CASE t.picked[slot] = NoToken /\ t.said[slot] # Named("USDC")
          <5>1. t.field[slot] = t.said[slot]
            BY <2>1, <4>6 DEF PutIn
          <5> QED
            BY <4>1, <4>2, <4>6, <5>1 DEF token
        <4> QED
          BY <4>4, <4>5, <4>6
      <3>3. SwapParams(r.params)
        <4>1. ASSUME NEW u \in Slot
              PROVE  /\ IF t.picked[u] # NoToken THEN r.params.token[u] = t.picked[u]
                        ELSE IF t.said[u] = Named("USDC")
                        THEN r.params.token[u] = UsdcAddress(ResolveChainSymbol(t.chain[u]))
                        ELSE StandsFor(t.said[u], ResolveChainSymbol(t.chain[u]),
                                       r.params.token[u])
                     /\ r.params.token[u].chain = ResolveChainSymbol(t.chain[u])
          <5>1. /\ r.params.token[u] = Lookup(t.field[u], chain[u]).token
                /\ Lookup(t.field[u], chain[u]).kind = "token"
                /\ Lookup(t.field[u], chain[u]).token # NoToken
            BY <2>7, <3>1, Slots
          <5> QED
            BY <3>2, <5>1
        <4> QED
          BY <3>1, <4>1 DEF SwapParams
      <3> QED
        BY <3>1, <3>3 DEF SwapResult
    <2> QED
      BY <2>4, <2>5, <2>6, <2>7, Slots
  <1>3. st.filled \in BOOLEAN
    BY StateType DEF SwapReady
  <1> QED
    BY <1>1, <1>2

LEMMA SwapGoesOn ==
    ASSUME NEW st, Ready(st), st.dual, ~st.fiat, NEW reply, NEW r \in SwapAfterCompile(st, reply)
    PROVE  SwapResult(r)
  <1>1. CASE r \in Ask(st, "compile")
    BY <1>1, CompilerAsks DEF SwapResult, SwapState
  <1>2. CASE r \in SwapFinishCompileOrResolve(st)
    <2>1. SwapReady(st)
      BY DEF Ready, Compiling, SwapReady, AskedBefore, Fits, FieldFits, SwapFits
    <2> QED
      BY <1>2, <2>1, SwapFinishes
  <1> QED
    BY <1>1, <1>2 DEF SwapAfterCompile

LEMMA SwapInits ==
    ASSUME NEW message, message.fiat \in BOOLEAN, NEW r \in SwapInitSession(message)
    PROVE  SwapResult(r)
  <1>1. PICK reply \in CompileReplies :
           r \in SwapAfterCompile(Absorb(NewConversation(TRUE, FALSE), reply, FALSE), reply)
    BY DEF SwapInitSession, Compile
  <1>2. /\ Ready(NewConversation(TRUE, FALSE)) /\ NewConversation(TRUE, FALSE).dual = TRUE
        /\ NewConversation(TRUE, FALSE).fiat = FALSE
    <2>1. \A dual, fiat \in BOOLEAN : /\ Ready(NewConversation(dual, fiat))
                                     /\ NewConversation(dual, fiat).dual = dual
                                     /\ NewConversation(dual, fiat).fiat = fiat
      BY NewReady
    <2>2. TRUE \in BOOLEAN /\ FALSE \in BOOLEAN
      OBVIOUS
    <2> QED
      BY <2>1, <2>2, Zenon
  <1>3. LET t == Absorb(NewConversation(TRUE, FALSE), reply, FALSE)
        IN  Ready(t) /\ t.dual /\ ~t.fiat
    BY <1>2, AbsorbReady
  <1> QED
    BY <1>1, <1>3, SwapGoesOn

LEMMA SwapContinues ==
    ASSUME NEW st, SwapState(st), st.stage = "compile", NEW message,
           NEW r \in SwapContinueCompileLoop(st, message)
    PROVE  SwapResult(r)
  <1> DEFINE t == [st EXCEPT !.turns = @ + 1]
  <1>1. \/ r \in Abort
        \/ /\ ~(st.turns >= MaxCompileTurns)
           /\ \E reply \in CompileReplies :
                 r \in SwapAfterCompile(Absorb(t, reply, FALSE), reply)
    BY Zenon DEF SwapContinueCompileLoop, Compile
  <1>2. CASE r \in Abort
    BY <1>2, AbortEnds DEF SwapResult
  <1>3. ASSUME ~(st.turns >= MaxCompileTurns), NEW reply \in CompileReplies,
               r \in SwapAfterCompile(Absorb(t, reply, FALSE), reply)
        PROVE  SwapResult(r)
    <2>1. st \in State /\ Rounds(st) /\ Compiling(st) /\ st.dual /\ ~st.fiat
      BY DEF SwapState
    <2>2. st.turns < MaxCompileTurns
      BY <1>3, <2>1, TurnsNat
    <2>3. Ready(t) /\ t.dual = st.dual /\ t.fiat = st.fiat
      BY <2>1, <2>2, NextRoundReady DEF State
    <2> HIDE DEF t
    <2>4. /\ Ready(Absorb(t, reply, FALSE)) /\ Absorb(t, reply, FALSE).dual
          /\ ~Absorb(t, reply, FALSE).fiat
      BY <2>1, <2>3, AbsorbReady
    <2> QED
      BY <1>3, <2>4, SwapGoesOn
  <1> QED
    BY <1>1, <1>2, <1>3

LEMMA SwapReplies ==
    ASSUME NEW st, SwapState(st), st.stage = "disambig", NEW message,
           NEW r \in SwapHandleDisambiguationReply(st, message)
    PROVE  SwapResult(r)
  <1> DEFINE slot == st.awaiting
             token == PickCandidate(message, st.candidates[slot])
             s == Answered(st, slot, token)
             none == [t \in Slot |-> <<>>]
             done == [s EXCEPT !.stage = "compile", !.candidates = none]
  <1>1. /\ st \in State /\ Rounds(st) /\ st.filled /\ st.dual /\ ~st.fiat
        /\ SwapFits(st) /\ Spoken(st)
        /\ AskedOnce(st) \/ st.symbol["from"] = st.symbol["to"]
    BY DEF SwapState
  <1>2. slot \in Slot /\ st.candidates[slot] \in Seq(Addresses)
    BY <1>1, SlotType, StateType
  <1>3. \/ r \in Abort
        \/ token # NoToken /\ r \in SwapFinishCompileOrResolve(done)
    BY Zenon DEF SwapHandleDisambiguationReply
  <1>4. CASE r \in Abort
    BY <1>4, AbortEnds DEF SwapResult
  <1>5. ASSUME token # NoToken, r \in SwapFinishCompileOrResolve(done)
        PROVE  SwapResult(r)
    <2>1. token \in Addresses
      BY <1>2, <1>5, PickIsOffered
    <2> HIDE DEF token, slot
    <2>2. Settled(s, st, slot, token)
      BY <1>1, <1>2, <2>1, AnswerSettles
    <2> HIDE DEF s
    <2>3. none \in [Slot -> Seq(Addresses)]
      OBVIOUS
    <2> HIDE DEF none
    <2>4. /\ done \in State /\ done.dual = st.dual /\ done.filled = st.filled
          /\ done.fiat = st.fiat /\ done.said = st.said /\ done.chain = st.chain
          /\ done.extracted = st.extracted
          /\ done.symbol = st.symbol /\ done.paid = st.paid /\ done.notified = st.notified
          /\ done.turns = st.turns /\ done.asked = st.asked
          /\ done.picked = s.picked /\ done.field = s.field
      <3>1. /\ s \in State /\ s.dual = st.dual /\ s.filled = st.filled
            /\ s.fiat = st.fiat /\ s.said = st.said /\ s.chain = st.chain
            /\ s.extracted = st.extracted
            /\ s.symbol = st.symbol /\ s.paid = st.paid /\ s.notified = st.notified
            /\ s.turns = st.turns /\ s.asked = st.asked
        BY <2>2 DEF Settled
      <3> QED
        BY <2>3, <3>1 DEF State
    <2> HIDE DEF done
    <2>5. /\ done.picked[slot] = token /\ done.field[slot] = token
          /\ \A u \in Slot \ {slot} : /\ done.picked[u] = st.picked[u]
                                      /\ done.field[u] = st.field[u]
      <3>1. /\ done.picked = [st.picked EXCEPT ![slot] = token]
            /\ done.field = [st.field EXCEPT ![slot] = token]
        BY <1>1, <2>2, <2>4 DEF Settled
      <3>2. st.picked \in [Slot -> Addresses \cup {NoToken}] /\ st.field \in [Slot -> Field]
        BY <1>1, StateType
      <3> QED
        BY <1>2, <3>1, <3>2
    <2>6. SwapFits(done) /\ Spoken(done)
      BY <1>1, <1>5, <2>4, <2>5 DEF SwapFits, Spoken
    <2>7. AskedBefore(done) \/ done.symbol["from"] = done.symbol["to"]
      BY <1>1, <1>5, <2>4, <2>5 DEF AskedBefore, AskedOnce, slot
    <2>8. SwapReady(done)
      BY <1>1, <2>4, <2>6, <2>7 DEF SwapReady, Rounds, Tells
    <2> QED
      BY <1>5, <2>8, SwapFinishes
  <1> QED
    BY <1>3, <1>4, <1>5

\* Whatever SwapCapability makes of a message, alone or as an answer to its question.
LEMMA SwapCollects ==
    ASSUME NEW message, message.fiat \in BOOLEAN, NEW resuming,
           resuming.stage = "none" \/ SwapState(resuming),
           NEW r \in SwapCollect(message, resuming)
    PROVE  SwapResult(r)
  <1>1. CASE resuming.stage = "none"
    <2>1. r \in SwapInitSession(message)
      BY <1>1 DEF SwapCollect
    <2> QED
      BY <2>1, SwapInits
  <1>2. CASE SwapState(resuming) /\ resuming.stage = "compile"
    <2>1. r \in SwapContinueCompileLoop(resuming, message)
      BY <1>2 DEF SwapCollect
    <2> QED
      BY <1>2, <2>1, SwapContinues
  <1>3. CASE SwapState(resuming) /\ resuming.stage = "disambig"
    <2>1. r \in SwapHandleDisambiguationReply(resuming, message)
      BY <1>3 DEF SwapCollect
    <2> QED
      BY <1>3, <2>1, SwapReplies
  <1> QED
    BY <1>1, <1>2, <1>3, StateType DEF SwapState

--------------------------------------------------------------------------------
(* The inductive invariant of the chat                                     *)

Caps == Commands \cup {"assistant_chat"}

\* The states of the capabilities that ask about one thing only.
Simple == [stage: Stages("buy") \cup Stages("yield")]
          \cup [stage: Stages("buy"), amount: Nat]

\* What a capability may be waiting for.
StateFits(cap, st) ==
    \/ cap = "send" /\ SendState(st)
    \/ cap = "swap" /\ SwapState(st)
    \/ cap \in {"buy", "yield"} /\ st \in Simple /\ st.stage \in Stages(cap)

\* And what it may return.
ParamsFit(cap, params) ==
    /\ cap = "send" => SendParams(params)
    /\ cap = "swap" => SwapParams(params)
ResultFits(cap, r) ==
    \/ Ended(r)
    \/ Asks(r) /\ StateFits(cap, r.state)
    \/ Goes(r) /\ ParamsFit(cap, r.params)

Seen == {Unseen, NoQuestion}
        \cup {Question(cap, st) : cap \in Commands, st \in State \cup Simple}
Item == [msg: Updates, seen: Seen]

IsPending(p) ==
    /\ p = [cap |-> p.cap, state |-> p.state, shown |-> p.shown]
    /\ StateFits(p.cap, p.state)

\* A step of a turn before its end.
Running == {"abandon", "collect", "commit", "render", "run"}

IsTurn(t) ==
    /\ t = [at |-> t.at, cap |-> t.cap, matched |-> t.matched, resuming |-> t.resuming,
            shown |-> t.shown, result |-> t.result, told |-> t.told, broke |-> t.broke]
    /\ t.at \in Running \cup {"end"}
    /\ t.resuming = NoResume \/ StateFits(t.cap, t.resuming)
    /\ t.at \in Running => t.cap \in Caps /\ t.broke = "none"

StateInv ==
    /\ pending = NoPending \/ IsPending(pending)
    /\ inbox \in Seq(Item) /\ Len(inbox) <= MaxInbox
    /\ handled \in Nat /\ batch \in Nat /\ handled <= batch /\ batch <= Len(inbox)
    /\ turn # NoTurn => IsTurn(turn) /\ handled < batch
    /\ screen \in Seen
    /\ faults \in Nat /\ faults <= MaxFaults

\* Only the next update was written in view of what is on the screen.
QueueInv ==
    /\ \A i \in 1..Len(inbox) : i > handled + 1 => inbox[i].seen = Unseen
    /\ handled < Len(inbox) /\ turn.at # "end" => Current.seen \in {Unseen, screen}

\* What is pending, and what is being resumed, has been shown last.
ShownInv ==
    /\ pending # NoPending /\ pending.shown =>
          screen = Question(pending.cap, pending.state)
    /\ turn.at = "collect" /\ turn.resuming # NoResume /\ turn.shown =>
          screen = Question(turn.cap, turn.resuming)

\* The result of the turn under way.
ResultInv ==
    /\ turn.at \in {"commit", "render", "run"} =>
          /\ ResultFits(turn.cap, turn.result) /\ turn.told = turn.result.told
          /\ turn.cap = "assistant_chat" =>
                Goes(turn.result) /\ turn.result.params.message = (Current.msg.kind = "text")
    /\ turn.at = "render" => turn.result.kind # "ok"
    /\ turn.at = "run" => turn.result.kind = "ok"

\* What was pending before the turn is gone.
Committed(t) ==
    \/ t.at \in {"render", "run"}
    \/ t.at = "end" /\ t.matched /\ t.broke # "abandon"

\* After a command nothing but its own question is pending.
CommandInv ==
    /\ turn.at \in {"collect", "commit"} /\ turn.matched => pending = NoPending
    /\ turn.at = "abandon" => turn.matched
    /\ turn.at \in Running /\ turn.matched => turn.resuming = NoResume
    /\ Committed(turn) /\ pending # NoPending =>
          /\ turn.result.kind = "ask"
          /\ pending.cap = turn.cap /\ pending.state = turn.result.state

IInv == /\ StateInv /\ QueueInv /\ ShownInv /\ ResultInv /\ CommandInv
        /\ EveryUpdateAnswered

--------------------------------------------------------------------------------
(* Lemmas about what is stored                                             *)

LEMMA StageOf ==
    ASSUME NEW cap, NEW st, StateFits(cap, st)
    PROVE  /\ st.stage \in Stages(cap) /\ st.stage # "none"
           /\ cap \in {"buy", "yield", "send", "swap"}
           /\ st \in State \cup Simple
           /\ st # NoResume
  <1>1. CASE cap = "send" /\ SendState(st)
    BY <1>1, StateType DEF SendState, Stages, NoResume
  <1>2. CASE cap = "swap" /\ SwapState(st)
    BY <1>2, StateType DEF SwapState, Stages, NoResume
  <1>3. CASE cap \in {"buy", "yield"} /\ st \in Simple /\ st.stage \in Stages(cap)
    BY <1>3 DEF Stages, NoResume
  <1> QED
    BY <1>1, <1>2, <1>3 DEF StateFits

LEMMA QuestionSeen ==
    ASSUME NEW cap, NEW st, StateFits(cap, st)
    PROVE  Question(cap, st) \in Seen
  BY StageOf DEF Seen, Commands

LEMMA PendingIs ==
    ASSUME NEW cap, NEW st, NEW shown, StateFits(cap, st)
    PROVE  LET p == [cap |-> cap, state |-> st, shown |-> shown]
           IN  IsPending(p) /\ p # NoPending
  BY StageOf DEF IsPending, NoPending

LEMMA NotIdle == ASSUME NEW t, IsTurn(t) PROVE t # NoTurn
  BY DEF IsTurn, NoTurn, Running

LEMMA UpdateType ==
    ASSUME NEW update \in Updates
    PROVE  /\ update.kind \in {"text", "callback"} /\ update.n \in Nat
           /\ update.fiat \in BOOLEAN
  BY UpdatesAssumption

--------------------------------------------------------------------------------
(* The collectors                                                          *)

LEMMA AskForAsks ==
    ASSUME NEW cap, NEW st, StateFits(cap, st), NEW r \in AskFor(st)
    PROVE  ResultFits(cap, r)
  BY DEF AskFor, ResultFits, Asks

LEMMA ParamsGo ==
    ASSUME NEW cap, cap \notin {"send", "swap"}, NEW params, NEW r \in Params(params)
    PROVE  ResultFits(cap, r) /\ Goes(r) /\ r.params = params
  BY DEF Params, ResultFits, Goes, ParamsFit

LEMMA BuyCollects ==
    ASSUME NEW update \in Updates, NEW resuming, NEW r \in BuyCollect(update, resuming)
    PROVE  ResultFits("buy", r)
  <1>1. update.n \in Nat /\ update.kind \in {"text", "callback"}
    BY UpdateType
  <1>2. /\ StateFits("buy", [stage |-> "awaiting_amount"])
        /\ \A n \in Nat : StateFits("buy", [stage |-> "awaiting_choice", amount |-> n])
    BY DEF StateFits, Simple, Stages
  <1>3. \/ \E params : r \in Params(params)
        \/ r \in AskFor([stage |-> "awaiting_amount"])
        \/ r \in AskFor([stage |-> "awaiting_choice", amount |-> update.n])
    BY <1>1, Zenon DEF BuyCollect, Restart, AskChoice
  <1> QED
    BY <1>1, <1>2, <1>3, AskForAsks, ParamsGo

LEMMA YieldCollects ==
    ASSUME NEW update \in Updates, NEW resuming,
           resuming = NoResume \/ StateFits("yield", resuming),
           NEW r \in YieldCollect(update, resuming)
    PROVE  ResultFits("yield", r)
  <1>1. update.kind \in {"text", "callback"}
    BY UpdateType
  <1>2. /\ StateFits("yield", [stage |-> "await_custom_pct"])
        /\ StateFits("yield", [stage |-> "idle"])
    BY DEF StateFits, Simple, Stages
  <1>3. resuming.stage = "await_custom_pct" => StateFits("yield", resuming)
    BY DEF NoResume
  <1>4. \/ \E params : r \in Params(params)
        \/ r \in Abort
        \/ r \in AskFor([stage |-> "await_custom_pct"])
        \/ r \in AskFor([stage |-> "idle"])
        \/ resuming.stage = "await_custom_pct" /\ r \in AskFor(resuming)
    BY <1>1, Zenon DEF YieldCollect, YieldHandleCallback
  <1>5. CASE r \in Abort
    BY <1>5, AbortEnds DEF ResultFits
  <1> QED
    BY <1>2, <1>3, <1>4, <1>5, AskForAsks, ParamsGo

\* Every result is one that can be shown, stored or run.
LEMMA CollectFits ==
    ASSUME NEW cap \in Caps, NEW update \in Updates, NEW resuming,
           resuming = NoResume \/ StateFits(cap, resuming),
           NEW r \in Collect(cap, update, resuming)
    PROVE  /\ ResultFits(cap, r)
           /\ cap = "assistant_chat" =>
                 Goes(r) /\ r.params.message = (update.kind = "text")
  <1>1. update.kind \in {"text", "callback"} /\ update.fiat \in BOOLEAN
    BY UpdateType
  <1>2. CASE cap = "buy"
    <2>1. r \in BuyCollect(update, resuming)
      BY <1>2 DEF Collect
    <2> QED
      BY <1>2, <2>1, BuyCollects
  <1>3. CASE cap = "yield"
    <2>1. r \in YieldCollect(update, resuming)
      BY <1>3 DEF Collect
    <2> QED
      BY <1>3, <2>1, YieldCollects
  <1>4. CASE cap = "loyalty"
    <2>1. r \in Params([message |-> TRUE])
      BY <1>4 DEF Collect
    <2> QED
      BY <1>4, <2>1, ParamsGo
  <1>5. CASE cap = "assistant_chat"
    <2>1. r \in Params([message |-> update.kind = "text"])
      BY <1>5, Zenon DEF Collect, AssistantCollect
    <2>2. ResultFits(cap, r) /\ Goes(r) /\ r.params = [message |-> update.kind = "text"]
      BY <1>5, <2>1, ParamsGo
    <2> QED
      BY <2>2
  <1>6. CASE cap \in {"send", "swap"} /\ update.kind = "callback"
    <2>1. r \in Abort
      BY <1>6 DEF Collect
    <2> QED
      BY <1>6, <2>1, AbortEnds DEF ResultFits
  <1>7. CASE cap = "send" /\ update.kind = "text"
    <2>1. r \in SendCollect(update, resuming)
      BY <1>7 DEF Collect
    <2>2. resuming.stage = "none" \/ SendState(resuming)
      BY <1>7 DEF NoResume, StateFits
    <2>3. SendResult(r)
      BY <1>1, <2>1, <2>2, SendCollects
    <2> QED
      BY <1>7, <2>3 DEF SendResult, ResultFits, StateFits, ParamsFit
  <1>8. CASE cap = "swap" /\ update.kind = "text"
    <2>1. r \in SwapCollect(update, resuming)
      BY <1>8 DEF Collect
    <2>2. resuming.stage = "none" \/ SwapState(resuming)
      BY <1>8 DEF NoResume, StateFits
    <2>3. SwapResult(r)
      BY <1>1, <2>1, <2>2, SwapCollects
    <2> QED
      BY <1>8, <2>3 DEF SwapResult, ResultFits, StateFits, ParamsFit
  <1> QED
    BY <1>1, <1>2, <1>3, <1>4, <1>5, <1>6, <1>7, <1>8 DEF Caps, Commands
--------------------------------------------------------------------------------
(* The invariant is inductive                                              *)

\* Between two turns nothing is claimed of one.
LEMMA IdleHolds ==
    turn.at = "idle" => ResultInv /\ CommandInv /\ EveryUpdateAnswered
  <1> SUFFICES ASSUME turn.at = "idle"
               PROVE  ResultInv /\ CommandInv /\ EveryUpdateAnswered
    OBVIOUS
  <1>1. /\ turn.at \notin {"commit", "render", "run"} /\ turn.at # "end"
        /\ turn.at \notin {"collect", "commit"} /\ turn.at \notin Running
        /\ turn.at \notin {"render", "run"} /\ turn.at # "render" /\ turn.at # "run"
        /\ turn.at # "abandon"
    BY DEF Running
  <1>2. ResultInv
    BY <1>1, Zenon DEF ResultInv
  <1>3. CommandInv
    <2>1. /\ turn.at \in {"collect", "commit"} /\ turn.matched => pending = NoPending
          /\ turn.at = "abandon" => turn.matched
          /\ turn.at \in Running /\ turn.matched => turn.resuming = NoResume
      BY <1>1, Zenon
    <2>2. ~Committed(turn)
      BY <1>1, Zenon DEF Committed
    <2> QED
      BY <2>1, <2>2, Zenon DEF CommandInv
  <1>4. EveryUpdateAnswered
    BY <1>1, Zenon DEF EveryUpdateAnswered
  <1> QED
    BY <1>2, <1>3, <1>4

LEMMA IdleHoldsNext ==
    turn'.at = "idle" => ResultInv' /\ CommandInv' /\ EveryUpdateAnswered'
  <1>1. (turn.at = "idle" => ResultInv /\ CommandInv /\ EveryUpdateAnswered)'
    BY IdleHolds, PTL
  <1> QED
    BY <1>1

LEMMA InitHolds == Init => IInv
  <1> SUFFICES ASSUME Init PROVE IInv
    OBVIOUS
  <1>1. inbox \in Seq(Item) /\ Len(inbox) = 0
    BY EmptySeq DEF Init
  <1>2. screen \in Seen
    BY DEF Init, Seen
  <1>3. turn.at = "idle" /\ turn = NoTurn /\ pending = NoPending
    BY DEF Init, NoTurn
  <1>4. StateInv
    BY <1>1, <1>2, <1>3, BoundAssumption DEF Init, StateInv
  <1>5. QueueInv
    BY <1>1 DEF Init, QueueInv
  <1> QED
    BY <1>3, <1>4, <1>5, IdleHolds DEF IInv, ShownInv

\* Whether a turn is under way.
LEMMA TurnAt ==
    ASSUME IInv
    PROVE  /\ turn = NoTurn => turn.at = "idle"
           /\ turn.at \in Running \cup {"end"} =>
                 turn # NoTurn /\ IsTurn(turn) /\ handled < batch /\ handled < Len(inbox)
           /\ turn # NoTurn => turn.at \in Running \cup {"end"}
  BY DEF IInv, StateInv, NoTurn, Running, IsTurn

LEMMA WriteKeeps == ASSUME IInv, NEW update \in Updates, Write(update) PROVE IInv'
  <1> DEFINE seen == IF handled < Len(inbox) \/ update.trigger # "" THEN Unseen ELSE screen
             item == [msg |-> update, seen |-> seen]
  <1>1. /\ inbox' = Append(inbox, item) /\ Len(inbox) < MaxInbox
        /\ UNCHANGED <<pending, batch, handled, turn, screen, faults>>
    BY DEF Write
  <1>2. item \in Item
    <2>1. seen \in Seen
      <3>1. Unseen \in Seen /\ screen \in Seen
        BY DEF IInv, StateInv, Seen
      <3> QED
        BY <3>1, Zenon
    <2> HIDE DEF seen
    <2> QED
      BY <2>1 DEF Item
  <1> HIDE DEF item
  <1>3. /\ inbox' \in Seq(Item) /\ Len(inbox') = Len(inbox) + 1 /\ inbox \in Seq(Item)
        /\ Len(inbox) \in Nat
        /\ \A i \in 1..Len(inbox) : inbox'[i] = inbox[i]
        /\ inbox'[Len(inbox) + 1] = item
    BY <1>1, <1>2, AppendProperties DEF IInv, StateInv
  <1>4. handled < Len(inbox) => Current' = Current
    <2>1. handled < Len(inbox) => handled + 1 \in 1..Len(inbox)
      BY <1>3 DEF IInv, StateInv
    <2> QED
      BY <1>1, <1>3, <2>1 DEF Current
  <1>5. StateInv'
    BY <1>1, <1>3, BoundAssumption DEF IInv, StateInv
  <1>6. QueueInv'
    <2>1. ASSUME NEW i \in 1..Len(inbox'), i > handled + 1
          PROVE  inbox'[i].seen = Unseen
      <3>1. CASE i \in 1..Len(inbox)
        BY <1>3, <2>1, <3>1 DEF IInv, QueueInv
      <3>2. CASE i = Len(inbox) + 1
        <4>1. handled < Len(inbox)
          BY <1>3, <2>1, <3>2 DEF IInv, StateInv
        <4>2. item.seen = Unseen
          BY <4>1 DEF item
        <4> QED
          BY <1>3, <3>2, <4>2
      <3> QED
        BY <1>3, <3>1, <3>2
    <2>2. ASSUME handled < Len(inbox'), turn.at # "end"
          PROVE  Current'.seen \in {Unseen, screen}
      <3>1. CASE handled < Len(inbox)
        BY <1>4, <2>2, <3>1 DEF IInv, QueueInv
      <3>2. CASE ~(handled < Len(inbox))
        <4>1. handled = Len(inbox)
          BY <1>3, <2>2, <3>2 DEF IInv, StateInv
        <4>2. Current' = item
          BY <1>1, <1>3, <4>1 DEF Current
        <4> QED
          BY <4>2 DEF item
      <3> QED
        BY <3>1, <3>2
    <2> QED
      BY <1>1, <2>1, <2>2 DEF QueueInv
  <1>7. ShownInv' /\ CommandInv'
    BY <1>1 DEF IInv, ShownInv, CommandInv
  <1>8. ResultInv' /\ EveryUpdateAnswered'
    BY <1>1, <1>4, TurnAt DEF IInv, ResultInv, EveryUpdateAnswered, Running
  <1> QED
    BY <1>5, <1>6, <1>7, <1>8 DEF IInv

LEMMA PollKeeps == ASSUME IInv, Poll PROVE IInv'
  <1>1. /\ turn = NoTurn /\ handled = batch /\ inbox # <<>>
        /\ inbox' = SubSeq(inbox, batch + 1, Len(inbox))
        /\ batch' = Len(inbox') /\ handled' = 0
        /\ UNCHANGED <<pending, turn, screen, faults>>
    BY DEF Poll
  <1>2. /\ inbox \in Seq(Item) /\ Len(inbox) \in Nat /\ batch \in Nat /\ batch <= Len(inbox)
        /\ \A i \in batch + 1..Len(inbox) : inbox[i] \in Item
    BY DEF IInv, StateInv
  <1>3. /\ inbox' \in Seq(Item)
        /\ Len(inbox') = Len(inbox) - batch
        /\ \A i \in 1..Len(inbox) - batch : inbox'[i] = inbox[batch + i]
    <2> DEFINE rest == SubSeq(inbox, batch + 1, Len(inbox))
    <2>1. /\ rest \in Seq(Item)
          /\ Len(rest) = IF batch + 1 <= Len(inbox) THEN Len(inbox) - (batch + 1) + 1 ELSE 0
          /\ \A i \in 1..Len(inbox) - (batch + 1) + 1 : rest[i] = inbox[batch + 1 + i - 1]
      BY <1>2, SubSeqProperties
    <2> HIDE DEF rest
    <2>2. /\ Len(rest) = Len(inbox) - batch
          /\ \A i \in 1..Len(inbox) - batch : rest[i] = inbox[batch + i]
      BY <1>2, <2>1
    <2> QED
      BY <1>1, <2>1, <2>2 DEF rest
  <1>4. StateInv'
    <2>1. /\ Len(inbox') <= MaxInbox /\ batch' \in Nat /\ batch' <= Len(inbox')
          /\ handled' \in Nat /\ handled' <= batch'
      BY <1>1, <1>2, <1>3, BoundAssumption DEF IInv, StateInv
    <2> QED
      BY <1>1, <1>3, <2>1 DEF IInv, StateInv
  <1>5. QueueInv'
    <2>1. ASSUME NEW i \in 1..Len(inbox'), i > 1 PROVE inbox'[i].seen = Unseen
      <3>1. batch + i \in 1..Len(inbox) /\ batch + i > handled + 1
        BY <1>1, <1>2, <1>3, <2>1
      <3> QED
        BY <1>3, <2>1, <3>1 DEF IInv, QueueInv
    <2>2. ASSUME 0 < Len(inbox') PROVE inbox'[1].seen \in {Unseen, screen}
      <3>1. handled < Len(inbox) /\ inbox'[1] = inbox[handled + 1]
        BY <1>1, <1>2, <1>3, <2>2
      <3> QED
        BY <1>1, <3>1 DEF IInv, QueueInv, Current, NoTurn
    <2>3. Current' = inbox'[1] /\ handled' + 1 = 1
      BY <1>1 DEF Current
    <2>4. /\ \A i \in 1..Len(inbox') : i > handled' + 1 => inbox'[i].seen = Unseen
          /\ handled' < Len(inbox') => Current'.seen \in {Unseen, screen'}
      BY <1>1, <2>1, <2>2, <2>3
    <2> QED
      BY <2>4 DEF QueueInv
  <1>6. turn.at = "idle"
    BY <1>1, TurnAt
  <1>7. ShownInv'
    BY <1>1, <1>6 DEF IInv, ShownInv
  <1> QED
    BY <1>1, <1>4, <1>5, <1>6, <1>7, IdleHoldsNext DEF IInv

LEMMA ExpiryKeeps == ASSUME IInv, PendingExpires PROVE IInv'
  <1>1. pending' = NoPending /\ UNCHANGED <<telegram, turn, screen, faults>>
    BY DEF PendingExpires
  <1>2. UNCHANGED <<inbox, batch, handled, Current>>
    BY <1>1 DEF telegram, Current
  <1> QED
    BY <1>1, <1>2 DEF IInv, StateInv, QueueInv, ShownInv, ResultInv, CommandInv,
                      EveryUpdateAnswered

LEMMA CrashKeeps == ASSUME IInv, Crash PROVE IInv'
  <1>1. /\ faults < MaxFaults /\ faults' = faults + 1 /\ turn' = NoTurn
        /\ inbox' = [i \in DOMAIN inbox |-> [inbox[i] EXCEPT !.seen = Unseen]]
        /\ batch' = 0 /\ handled' = 0 /\ UNCHANGED <<pending, screen>>
    BY DEF Crash
  <1>2. inbox \in Seq(Item) /\ Len(inbox) \in Nat /\ DOMAIN inbox = 1..Len(inbox)
    BY DEF IInv, StateInv
  <1>3. \A i \in 1..Len(inbox) : /\ [inbox[i] EXCEPT !.seen = Unseen] \in Item
                                 /\ [inbox[i] EXCEPT !.seen = Unseen].seen = Unseen
    <2>1. \A i \in 1..Len(inbox) : inbox[i] \in Item
      BY <1>2
    <2>2. Unseen \in Seen
      BY DEF Seen
    <2> QED
      BY <2>1, <2>2 DEF Item
  <1>4. /\ inbox' \in Seq(Item) /\ Len(inbox') = Len(inbox)
        /\ \A i \in 1..Len(inbox') : inbox'[i].seen = Unseen
    <2> DEFINE unseen == [i \in 1..Len(inbox) |-> [inbox[i] EXCEPT !.seen = Unseen]]
    <2>1. inbox' = unseen
      BY <1>1, <1>2
    <2>2. unseen \in Seq(Item) /\ Len(unseen) = Len(inbox)
      BY <1>2, <1>3
    <2>3. \A i \in 1..Len(inbox) : unseen[i].seen = Unseen
      BY <1>3
    <2> HIDE DEF unseen
    <2> QED
      BY <2>1, <2>2, <2>3
  <1>5. turn'.at = "idle"
    BY <1>1 DEF NoTurn
  <1>6. StateInv'
    BY <1>1, <1>2, <1>4, BoundAssumption DEF IInv, StateInv
  <1>7. QueueInv'
    BY <1>1, <1>2, <1>4 DEF QueueInv, Current
  <1>8. ShownInv'
    BY <1>1, <1>5 DEF IInv, ShownInv
  <1> QED
    BY <1>5, <1>6, <1>7, <1>8, IdleHoldsNext DEF IInv

LEMMA EndKeeps == ASSUME IInv, EndTurn PROVE IInv'
  <1>1. /\ turn.at = "end" /\ turn' = NoTurn /\ handled' = handled + 1
        /\ UNCHANGED <<pending, inbox, batch, screen, faults>>
    BY DEF EndTurn
  <1>2. handled < batch
    BY <1>1, TurnAt
  <1>3. turn'.at = "idle"
    BY <1>1 DEF NoTurn
  <1>4. StateInv'
    BY <1>1, <1>2 DEF IInv, StateInv
  <1>5. QueueInv'
    <2>1. Len(inbox) \in Nat /\ handled \in Nat
      BY DEF IInv, StateInv
    <2>2. ASSUME handled + 1 < Len(inbox) PROVE inbox[handled + 1 + 1].seen = Unseen
      <3>1. handled + 1 + 1 \in 1..Len(inbox) /\ handled + 1 + 1 > handled + 1
        BY <2>1, <2>2
      <3> QED
        BY <3>1 DEF IInv, QueueInv
    <2>3. \A i \in 1..Len(inbox) : i > handled + 1 + 1 => i > handled + 1
      BY <2>1
    <2> QED
      BY <1>1, <2>2, <2>3 DEF IInv, QueueInv, Current
  <1>6. ShownInv'
    BY <1>1, <1>3 DEF IInv, ShownInv
  <1> QED
    BY <1>3, <1>4, <1>5, <1>6, IdleHoldsNext DEF IInv
\* The update a turn is about.
LEMMA CurrentItem ==
    ASSUME IInv, handled < batch
    PROVE  handled < Len(inbox) /\ Current \in Item /\ Current.msg \in Updates
  <1>1. handled + 1 \in 1..Len(inbox) /\ inbox \in Seq(Item) /\ handled < Len(inbox)
    BY DEF IInv, StateInv
  <1>2. Current \in Item
    BY <1>1 DEF Current
  <1> QED
    BY <1>1, <1>2 DEF Item

\* A step that takes a turn from one step to the next, or to its end.
Move(t, at, result, told, broke) ==
    [t EXCEPT !.at = at, !.result = result, !.told = told, !.broke = broke]

Moved(u, t, at, result, told, broke) ==
    /\ IsTurn(u) /\ u.at = at /\ u.result = result /\ u.told = told /\ u.broke = broke
    /\ u.cap = t.cap /\ u.matched = t.matched /\ u.resuming = t.resuming
    /\ u.shown = t.shown

LEMMA TurnMoves ==
    ASSUME NEW t, IsTurn(t), NEW at, NEW result, NEW told, NEW broke,
           at \in Running \cup {"end"}, at \in Running => t.at \in Running /\ broke = "none"
    PROVE  Moved(Move(t, at, result, told, broke), t, at, result, told, broke)
  <1> DEFINE u == Move(t, at, result, told, broke)
  <1>1. t = [at |-> t.at, cap |-> t.cap, matched |-> t.matched, resuming |-> t.resuming,
             shown |-> t.shown, result |-> t.result, told |-> t.told, broke |-> t.broke]
    BY DEF IsTurn
  <1>2. u = [at |-> at, cap |-> t.cap, matched |-> t.matched, resuming |-> t.resuming,
             shown |-> t.shown, result |-> result, told |-> told, broke |-> broke]
    <2>1. u = [t EXCEPT !.at = at, !.result = result, !.told = told, !.broke = broke]
      BY DEF Move
    <2> HIDE DEF u
    <2> QED
      BY <1>1, <2>1
  <1> HIDE DEF u
  <1>3. Moved(u, t, at, result, told, broke)
    BY <1>2 DEF IsTurn, Moved
  <1> QED
    BY <1>3 DEF u

LEMMA ReceiveKeeps == ASSUME IInv, Receive PROVE IInv'
  <1> DEFINE match == Match(Current.msg)
             prior == pending # NoPending
             at == IF match # "none" /\ prior THEN "abandon" ELSE "collect"
             cap == IF match # "none" THEN match
                    ELSE IF prior THEN pending.cap ELSE "assistant_chat"
             matched == match # "none"
             resuming == IF match = "none" /\ prior THEN pending.state ELSE NoResume
             shown == prior => pending.shown
             ending == [at |-> "end", cap |-> "none", matched |-> FALSE, resuming |-> NoResume,
                        shown |-> TRUE, result |-> NoResult, told |-> TRUE, broke |-> "none"]
             begun == [at |-> at, cap |-> cap, matched |-> matched, resuming |-> resuming,
                       shown |-> shown, result |-> NoResult, told |-> FALSE, broke |-> "none"]
  <1>1. /\ turn = NoTurn /\ handled < batch
        /\ UNCHANGED <<pending, inbox, batch, handled, screen, faults>>
        /\ turn' = ending \/ turn' = begun
    BY Zenon DEF Receive, Reply, Dispatch, telegram
  <1>2. Current' = Current /\ turn.at = "idle"
    BY <1>1 DEF Current, NoTurn
  <1>3. QueueInv'
    BY <1>1, <1>2 DEF IInv, QueueInv
  <1>4. CASE turn' = ending
    <2>1. /\ turn'.at = "end" /\ turn'.matched = FALSE /\ turn'.told = TRUE /\ IsTurn(turn')
      BY <1>4 DEF IsTurn, Running
    <2>2. StateInv'
      BY <1>1, <2>1 DEF IInv, StateInv
    <2>3. ShownInv' /\ ResultInv' /\ EveryUpdateAnswered'
      BY <1>1, <2>1 DEF IInv, ShownInv, ResultInv, EveryUpdateAnswered
    <2>4. CommandInv'
      BY <2>1 DEF CommandInv, Committed, Running
    <2> QED
      BY <1>3, <2>2, <2>3, <2>4 DEF IInv
  <1>5. CASE turn' = begun
    <2>1. matched => match \in Commands
      BY DEF Match, Commands, CallbackPrefixes
    <2>2. prior => StateFits(pending.cap, pending.state)
      BY DEF IInv, StateInv, IsPending
    <2>3. cap \in Caps
      BY <2>1, <2>2, StageOf DEF Caps, Commands
    <2>4. resuming = NoResume \/ StateFits(cap, resuming)
      BY <2>2
    <2>5. at \in {"abandon", "collect"}
      OBVIOUS
    <2>6. /\ at = "collect" /\ matched => pending = NoPending
          /\ at = "abandon" => matched
          /\ matched => resuming = NoResume
      OBVIOUS
    <2>7. resuming # NoResume /\ shown => screen = Question(cap, resuming)
      <3>1. resuming # NoResume => match = "none" /\ prior
        OBVIOUS
      <3>2. match = "none" /\ prior => cap = pending.cap /\ resuming = pending.state
        OBVIOUS
      <3>3. prior /\ shown => screen = Question(pending.cap, pending.state)
        BY DEF IInv, ShownInv
      <3> HIDE DEF match, prior, cap, resuming, shown
      <3> QED
        BY <3>1, <3>2, <3>3
    <2> HIDE DEF match, prior, at, cap, matched, resuming, shown
    <2>8. /\ turn'.at = at /\ turn'.cap = cap /\ turn'.matched = matched
          /\ turn'.resuming = resuming /\ turn'.shown = shown /\ IsTurn(turn')
      BY <1>5, <2>3, <2>4, <2>5 DEF IsTurn, Running
    <2> HIDE DEF begun, ending
    <2>9. StateInv'
      BY <1>1, <2>8 DEF IInv, StateInv
    <2>10. ShownInv'
      BY <1>1, <2>7, <2>8 DEF IInv, ShownInv
    <2>11. ResultInv' /\ EveryUpdateAnswered'
      BY <2>5, <2>8 DEF ResultInv, EveryUpdateAnswered
    <2>12. CommandInv'
      <3>1. ~Committed(turn')
        BY <2>5, <2>8 DEF Committed
      <3> QED
        BY <1>1, <2>5, <2>6, <2>8, <3>1 DEF CommandInv
    <2> QED
      BY <1>3, <2>9, <2>10, <2>11, <2>12 DEF IInv
  <1> QED
    BY <1>1, <1>4, <1>5

LEMMA AbandonKeeps == ASSUME IInv, Abandon PROVE IInv'
  <1>1. /\ turn.at = "abandon" /\ pending' = NoPending /\ turn' = [turn EXCEPT !.at = "collect"]
        /\ UNCHANGED <<inbox, batch, handled, screen, faults>>
    BY DEF Abandon, telegram
  <1>2. IsTurn(turn) /\ turn # NoTurn /\ handled < batch
    BY <1>1, TurnAt DEF Running
  <1>3. /\ IsTurn(turn') /\ turn'.at = "collect" /\ turn'.matched = turn.matched
        /\ turn'.resuming = turn.resuming
    <2>1. turn' = Move(turn, "collect", turn.result, turn.told, turn.broke)
      BY <1>1, <1>2 DEF IsTurn, Move
    <2>4. turn.broke = "none"
      BY <1>1, <1>2 DEF IsTurn, Running
    <2>2. "collect" \in Running \cup {"end"}
          /\ ("collect" \in Running => turn.at \in Running /\ turn.broke = "none")
      BY <1>1, <1>2, <2>4 DEF Running
    <2>3. Moved(Move(turn, "collect", turn.result, turn.told, turn.broke),
                turn, "collect", turn.result, turn.told, turn.broke)
      BY <1>1, <1>2, <2>2, TurnMoves
    <2> QED
      BY <1>1, <1>2, <2>4, <2>1, <2>3 DEF Moved
  <1>4. StateInv'
    BY <1>1, <1>2, <1>3 DEF IInv, StateInv
  <1>5. QueueInv'
    BY <1>1, <1>3 DEF IInv, QueueInv, Current
  <1>6. turn.resuming = NoResume /\ turn.matched
    BY <1>1 DEF IInv, CommandInv, Running
  <1>7. ShownInv'
    BY <1>1, <1>3, <1>6 DEF ShownInv
  <1>8. ResultInv' /\ EveryUpdateAnswered'
    BY <1>3 DEF ResultInv, EveryUpdateAnswered
  <1>9. CommandInv'
    BY <1>1, <1>3, <1>6 DEF CommandInv, Committed
  <1> QED
    BY <1>4, <1>5, <1>7, <1>8, <1>9 DEF IInv

LEMMA CollectKeeps == ASSUME IInv, RunCollect PROVE IInv'
  <1>1. PICK r \in Collect(turn.cap, Current.msg, turn.resuming) :
           turn' = [turn EXCEPT !.at = "commit", !.result = r, !.told = r.told]
    BY DEF RunCollect
  <1>2. /\ turn.at = "collect" /\ UNCHANGED <<pending, inbox, batch, handled, screen, faults>>
    BY DEF RunCollect, telegram
  <1>3. IsTurn(turn) /\ turn # NoTurn /\ handled < batch
    BY <1>2, TurnAt DEF Running
  <1>4. turn.cap \in Caps /\ turn.broke = "none"
        /\ (turn.resuming = NoResume \/ StateFits(turn.cap, turn.resuming))
    BY <1>2, <1>3 DEF IsTurn, Running
  <1>5. /\ IsTurn(turn') /\ turn'.at = "commit" /\ turn'.matched = turn.matched
        /\ turn'.cap = turn.cap /\ turn'.resuming = turn.resuming
        /\ turn'.result = r /\ turn'.told = r.told
    <2>1. turn' = Move(turn, "commit", r, r.told, turn.broke)
      BY <1>1, <1>3 DEF IsTurn, Move
    <2>2. "commit" \in Running \cup {"end"}
          /\ ("commit" \in Running => turn.at \in Running /\ turn.broke = "none")
      BY <1>2, <1>3, <1>4 DEF Running
    <2>3. Moved(Move(turn, "commit", r, r.told, turn.broke),
                turn, "commit", r, r.told, turn.broke)
      BY <1>1, <1>3, <2>2, TurnMoves
    <2> QED
      BY <1>2, <1>3, <1>4, <2>1, <2>3 DEF Moved
  <1>6. /\ ResultFits(turn.cap, r)
        /\ turn.cap = "assistant_chat" =>
              Goes(r) /\ r.params.message = (Current.msg.kind = "text")
    BY <1>1, <1>3, <1>4, CurrentItem, CollectFits
  <1>7. StateInv'
    BY <1>2, <1>3, <1>5 DEF IInv, StateInv
  <1>8. QueueInv'
    BY <1>2, <1>5 DEF IInv, QueueInv, Current
  <1>9. ShownInv'
    BY <1>2, <1>5 DEF IInv, ShownInv
  <1>10. ResultInv'
    <2>1. Current' = Current
      BY <1>2 DEF Current
    <2> QED
      BY <1>5, <1>6, <2>1 DEF ResultInv
  <1>11. EveryUpdateAnswered'
    BY <1>5 DEF EveryUpdateAnswered
  <1>12. CommandInv'
    <2>1. ~Committed(turn')
      BY <1>5 DEF Committed
    <2>2. turn.matched => pending = NoPending /\ turn.resuming = NoResume
      BY <1>2 DEF IInv, CommandInv, Running
    <2> QED
      BY <1>2, <1>5, <2>1, <2>2 DEF CommandInv
  <1> QED
    BY <1>7, <1>8, <1>9, <1>10, <1>11, <1>12 DEF IInv

LEMMA CommitKeeps == ASSUME IInv, Commit PROVE IInv'
  <1> DEFINE r == turn.result
             at == IF r.kind = "ok" THEN "run" ELSE "render"
  <1>1. /\ turn.at = "commit" /\ pending' = PendingAfter(turn.cap, r)
        /\ turn' = [turn EXCEPT !.at = at]
        /\ UNCHANGED <<inbox, batch, handled, screen, faults>>
    BY DEF Commit, telegram
  <1>2. IsTurn(turn) /\ turn # NoTurn /\ handled < batch
    BY <1>1, TurnAt DEF Running
  <1>3. at \in {"run", "render"} /\ (at = "run" <=> r.kind = "ok")
    OBVIOUS
  <1>4. /\ ResultFits(turn.cap, r) /\ turn.told = r.told
        /\ turn.cap = "assistant_chat" =>
              Goes(r) /\ r.params.message = (Current.msg.kind = "text")
    BY <1>1 DEF IInv, ResultInv
  <1>5. turn.broke = "none" /\ (turn.matched => turn.resuming = NoResume)
    BY <1>1, <1>2 DEF IsTurn, Running, IInv, CommandInv
  <1> HIDE DEF at
  <1>6. /\ IsTurn(turn') /\ turn'.at = at /\ turn'.matched = turn.matched
        /\ turn'.cap = turn.cap /\ turn'.resuming = turn.resuming
        /\ turn'.result = r /\ turn'.told = turn.told
    <2>1. turn' = Move(turn, at, turn.result, turn.told, turn.broke)
      BY <1>1, <1>2 DEF IsTurn, Move
    <2>2. at \in Running \cup {"end"}
          /\ (at \in Running => turn.at \in Running /\ turn.broke = "none")
      BY <1>1, <1>2, <1>3, <1>5 DEF Running
    <2>3. Moved(Move(turn, at, turn.result, turn.told, turn.broke),
                turn, at, turn.result, turn.told, turn.broke)
      BY <1>1, <1>2, <2>2, TurnMoves
    <2> QED
      BY <1>1, <1>2, <1>3, <1>5, <2>1, <2>3 DEF Moved
  <1>7. \/ pending' = NoPending
        \/ /\ r.kind = "ask" /\ IsPending(pending') /\ pending'.cap = turn.cap
           /\ pending'.state = r.state /\ pending'.shown = FALSE
    <2>1. CASE r.kind = "ask"
      <3>1. StateFits(turn.cap, r.state)
        BY <1>4, <2>1 DEF ResultFits, Ended, Goes
      <3>2. pending' = [cap |-> turn.cap, state |-> r.state, shown |-> FALSE]
        BY <1>1, <2>1 DEF PendingAfter
      <3>3. IsPending(pending')
        BY <3>1, <3>2 DEF IsPending
      <3> QED
        BY <2>1, <3>2, <3>3
    <2>2. CASE r.kind # "ask"
      BY <1>1, <2>2 DEF PendingAfter
    <2> QED
      BY <2>1, <2>2
  <1> HIDE DEF r
  <1>8. StateInv'
    BY <1>1, <1>2, <1>6, <1>7 DEF IInv, StateInv
  <1>9. QueueInv'
    BY <1>1, <1>3, <1>6 DEF IInv, QueueInv, Current
  <1>10. ShownInv'
    BY <1>3, <1>6, <1>7 DEF ShownInv
  <1>11. ResultInv'
    <2>1. Current' = Current
      BY <1>1 DEF Current
    <2> QED
      BY <1>3, <1>4, <1>6, <2>1 DEF ResultInv
  <1>12. EveryUpdateAnswered'
    BY <1>3, <1>6 DEF EveryUpdateAnswered
  <1>13. CommandInv'
    BY <1>3, <1>5, <1>6, <1>7 DEF CommandInv
  <1> QED
    BY <1>8, <1>9, <1>10, <1>11, <1>12, <1>13 DEF IInv

LEMMA RenderKeeps == ASSUME IInv, Render PROVE IInv'
  <1> DEFINE r == turn.result
             told == turn.told \/ r.artifact
  <1>1. /\ turn.at = "render" /\ turn' = [turn EXCEPT !.at = "end", !.told = told]
        /\ UNCHANGED <<inbox, batch, handled, faults>>
    BY DEF Render, telegram
  <1>2. \/ /\ r.kind = "ask" /\ screen' = Question(turn.cap, r.state)
           /\ pending' = IF pending = NoPending THEN pending ELSE [pending EXCEPT !.shown = TRUE]
        \/ r.kind # "ask" /\ UNCHANGED <<screen, pending>>
    BY DEF Render
  <1>3. IsTurn(turn) /\ turn # NoTurn /\ handled < batch
    BY <1>1, TurnAt DEF Running
  <1>4. ResultFits(turn.cap, r) /\ turn.told = r.told /\ r.kind # "ok"
    BY <1>1 DEF IInv, ResultInv
  <1>5. told = TRUE
    BY <1>4 DEF ResultFits, Ended, Asks, Goes
  <1> HIDE DEF told
  <1>6. /\ IsTurn(turn') /\ turn'.at = "end" /\ turn'.matched = turn.matched
        /\ turn'.cap = turn.cap /\ turn'.resuming = turn.resuming
        /\ turn'.result = r /\ turn'.told = TRUE
    <2>1. turn' = Move(turn, "end", turn.result, told, turn.broke)
      BY <1>1, <1>3 DEF IsTurn, Move
    <2>2. "end" \in Running \cup {"end"}
          /\ ("end" \in Running => turn.at \in Running /\ turn.broke = "none")
      BY <1>1, <1>3, <1>5 DEF Running
    <2>3. Moved(Move(turn, "end", turn.result, told, turn.broke),
                turn, "end", turn.result, told, turn.broke)
      BY <1>1, <1>3, <2>2, TurnMoves
    <2> QED
      BY <1>1, <1>3, <1>5, <2>1, <2>3 DEF Moved
  <1>7. pending # NoPending =>
           r.kind = "ask" /\ pending.cap = turn.cap /\ pending.state = r.state
    BY <1>1 DEF IInv, CommandInv, Committed
  <1>8. r.kind = "ask" => StateFits(turn.cap, r.state)
    BY <1>4 DEF ResultFits, Ended, Goes
  <1>9. \/ pending' = NoPending
        \/ /\ r.kind = "ask" /\ IsPending(pending') /\ pending'.cap = turn.cap
           /\ pending'.state = r.state /\ screen' = Question(turn.cap, r.state)
    <2>1. CASE pending = NoPending
      BY <1>2, <2>1
    <2>2. CASE pending # NoPending
      <3>1. /\ pending = [cap |-> pending.cap, state |-> pending.state, shown |-> pending.shown]
            /\ StateFits(pending.cap, pending.state)
        BY <2>2 DEF IInv, StateInv, IsPending
      <3>2. pending' = [cap |-> pending.cap, state |-> pending.state, shown |-> TRUE]
        BY <1>2, <1>7, <2>2, <3>1
      <3>3. IsPending(pending')
        BY <3>1, <3>2 DEF IsPending
      <3> QED
        BY <1>2, <1>7, <2>2, <3>2, <3>3
    <2> QED
      BY <2>1, <2>2
  <1>10. screen' \in Seen
    BY <1>2, <1>8, QuestionSeen DEF IInv, StateInv
  <1> HIDE DEF r
  <1>11. StateInv'
    BY <1>1, <1>3, <1>6, <1>9, <1>10 DEF IInv, StateInv
  <1>12. QueueInv'
    BY <1>1, <1>6 DEF IInv, QueueInv
  <1>13. ShownInv'
    BY <1>6, <1>9 DEF ShownInv
  <1>14. ResultInv' /\ EveryUpdateAnswered'
    BY <1>6 DEF ResultInv, EveryUpdateAnswered
  <1>15. CommandInv'
    BY <1>6, <1>9 DEF CommandInv, Running
  <1> QED
    BY <1>11, <1>12, <1>13, <1>14, <1>15 DEF IInv

LEMMA RunKeeps == ASSUME IInv, RunCapability PROVE IInv'
  <1> DEFINE r == turn.result
             told == RunTells(turn.cap, r.params)
  <1>1. /\ turn.at = "run" /\ turn' = [turn EXCEPT !.at = "end", !.told = told]
        /\ UNCHANGED <<pending, inbox, batch, handled, screen, faults>>
    BY DEF RunCapability, telegram
  <1>2. IsTurn(turn) /\ turn # NoTurn /\ handled < batch
    BY <1>1, TurnAt DEF Running
  <1>3. told \/ (turn.cap = "assistant_chat" /\ Current.msg.kind = "callback")
    <2>1. turn.cap = "assistant_chat" => r.params.message = (Current.msg.kind = "text")
      BY <1>1 DEF IInv, ResultInv
    <2>2. Current.msg.kind \in {"text", "callback"}
      BY <1>2, CurrentItem, UpdateType
    <2>3. CASE Current.msg.kind = "text"
      BY <2>1, <2>3 DEF RunTells
    <2>4. CASE Current.msg.kind = "callback"
      BY <2>4 DEF RunTells
    <2> QED
      BY <2>2, <2>3, <2>4
  <1> HIDE DEF told
  <1>4. /\ IsTurn(turn') /\ turn'.at = "end" /\ turn'.matched = turn.matched
        /\ turn'.cap = turn.cap /\ turn'.resuming = turn.resuming
        /\ turn'.result = r /\ turn'.told = told
    <2>1. turn' = Move(turn, "end", turn.result, told, turn.broke)
      BY <1>1, <1>2 DEF IsTurn, Move
    <2>2. "end" \in Running \cup {"end"}
          /\ ("end" \in Running => turn.at \in Running /\ turn.broke = "none")
      BY <1>1, <1>2 DEF Running
    <2>3. Moved(Move(turn, "end", turn.result, told, turn.broke),
                turn, "end", turn.result, told, turn.broke)
      BY <1>1, <1>2, <2>2, TurnMoves
    <2> QED
      BY <1>1, <1>2, <2>1, <2>3 DEF Moved
  <1>5. Committed(turn)
    BY <1>1 DEF Committed
  <1> HIDE DEF r
  <1>6. StateInv'
    BY <1>1, <1>2, <1>4 DEF IInv, StateInv
  <1>7. QueueInv'
    BY <1>1, <1>4 DEF IInv, QueueInv
  <1>8. ShownInv'
    BY <1>1, <1>4 DEF IInv, ShownInv
  <1>9. ResultInv'
    BY <1>4 DEF ResultInv
  <1>10. EveryUpdateAnswered'
    <2>1. Current' = Current
      BY <1>1 DEF Current
    <2> QED
      BY <1>3, <1>4, <2>1 DEF EveryUpdateAnswered
  <1>11. CommandInv'
    BY <1>1, <1>4, <1>5 DEF IInv, CommandInv, Running, r
  <1> QED
    BY <1>6, <1>7, <1>8, <1>9, <1>10, <1>11 DEF IInv

LEMMA FailKeeps == ASSUME IInv, Fail PROVE IInv'
  <1>1. PICK told \in BOOLEAN :
           turn' = [turn EXCEPT !.at = "end", !.told = told, !.broke = turn.at]
    BY DEF Fail
  <1>2. /\ faults < MaxFaults /\ faults' = faults + 1 /\ turn.at \in Running
        /\ UNCHANGED <<pending, inbox, batch, handled, screen>>
    BY DEF Fail, telegram, Running
  <1>3. IsTurn(turn) /\ turn # NoTurn /\ handled < batch
    BY <1>2, TurnAt
  <1>4. /\ IsTurn(turn') /\ turn'.at = "end" /\ turn'.matched = turn.matched
        /\ turn'.cap = turn.cap /\ turn'.resuming = turn.resuming
        /\ turn'.result = turn.result /\ turn'.broke = turn.at
    <2>1. turn' = Move(turn, "end", turn.result, told, turn.at)
      BY <1>1, <1>3 DEF IsTurn, Move
    <2>2. "end" \in Running \cup {"end"}
          /\ ("end" \in Running => turn.at \in Running /\ turn.at = "none")
      BY <1>3 DEF Running
    <2>3. Moved(Move(turn, "end", turn.result, told, turn.at),
                turn, "end", turn.result, told, turn.at)
      BY <1>1, <1>3, <2>2, TurnMoves
    <2> QED
      BY <1>3, <2>1, <2>3 DEF Moved
  <1>5. StateInv'
    BY <1>2, <1>3, <1>4, BoundAssumption DEF IInv, StateInv
  <1>6. QueueInv'
    BY <1>2, <1>4 DEF IInv, QueueInv
  <1>7. ShownInv'
    BY <1>2, <1>4 DEF IInv, ShownInv
  <1>8. ResultInv'
    BY <1>4 DEF ResultInv
  <1>9. EveryUpdateAnswered'
    BY <1>2, <1>4 DEF EveryUpdateAnswered, Running
  <1>10. CommandInv'
    <2>1. Committed(turn') /\ pending # NoPending =>
             /\ turn.result.kind = "ask"
             /\ pending.cap = turn.cap /\ pending.state = turn.result.state
      <3>1. Committed(turn') => turn.matched /\ turn.at # "abandon"
        BY <1>4 DEF Committed
      <3>2. CASE turn.at \in {"collect", "commit"}
        BY <3>1, <3>2 DEF IInv, CommandInv
      <3>3. CASE turn.at \in {"render", "run"}
        BY <3>3 DEF IInv, CommandInv, Committed
      <3>4. CASE turn.at = "abandon"
        BY <3>1, <3>4
      <3> QED
        BY <1>2, <3>2, <3>3, <3>4 DEF Running
    <2> QED
      BY <1>2, <1>4, <2>1 DEF CommandInv, Running
  <1> QED
    BY <1>5, <1>6, <1>7, <1>8, <1>9, <1>10 DEF IInv
LEMMA StepHolds == IInv /\ [Next]_vars => IInv'
  <1> SUFFICES ASSUME IInv, [Next]_vars PROVE IInv'
    OBVIOUS
  <1>1. CASE UNCHANGED vars
    <2>1. UNCHANGED <<pending, inbox, batch, handled, turn, screen, faults>>
      BY <1>1 DEF vars
    <2>2. UNCHANGED Current
      BY <2>1 DEF Current
    <2> QED
      BY <2>1, <2>2 DEF IInv, StateInv, QueueInv, ShownInv, ResultInv, CommandInv,
                        EveryUpdateAnswered
  <1> QED
    BY <1>1, WriteKeeps, PollKeeps, ExpiryKeeps, ReceiveKeeps, AbandonKeeps, CollectKeeps,
       CommitKeeps, RenderKeeps, RunKeeps, EndKeeps, FailKeeps, CrashKeeps DEF Next, Bot

LEMMA Invariant == Spec => []IInv
  BY InitHolds, StepHolds, PTL DEF Spec

--------------------------------------------------------------------------------
(***************************************************************************)
(* What is pending or resumed is always at a stage of its own capability,  *)
(* and a turn always has an update that is not confirmed yet               *)
(* (capabilityDispatcher.usecase.ts:38-60).                                *)
(***************************************************************************)
THEOREM TypeCorrect == Spec => []TypeOK
  <1>1. IInv => TypeOK
    <2> SUFFICES ASSUME IInv PROVE TypeOK
      OBVIOUS
    <2>1. pending # NoPending => pending.state.stage \in Stages(pending.cap)
      BY StageOf DEF IInv, StateInv, IsPending
    <2>2. /\ handled \in 0..batch /\ batch \in 0..Len(inbox) /\ Len(inbox) <= MaxInbox
          /\ faults \in 0..MaxFaults
      BY BoundAssumption DEF IInv, StateInv
    <2>3. turn # NoTurn =>
             handled < batch
             /\ (turn.resuming # NoResume => turn.resuming.stage \in Stages(turn.cap))
      BY StageOf DEF IInv, StateInv, IsTurn
    <2> QED
      BY <2>1, <2>2, <2>3 DEF TypeOK
  <1> QED
    BY <1>1, Invariant, PTL

(***************************************************************************)
(* A text answers the question that was on the screen when it was written, *)
(* however the updates, the expiry of the key, failures and crashes        *)
(* interleave: only the update that is dealt with next was written in view *)
(* of the screen, and the screen changes at the end of a turn only         *)
(* (capabilityDispatcher.usecase.ts:38-60 and 86-100).                     *)
(***************************************************************************)
THEOREM AnswersSeen == Spec => []AnswersSeenQuestion
  <1>1. IInv => AnswersSeenQuestion
    <2> SUFFICES ASSUME IInv, turn.at = "collect", turn.resuming # NoResume, turn.shown,
                        Current.seen # Unseen
                 PROVE  Current.seen = Question(turn.cap, turn.resuming)
      BY DEF AnswersSeenQuestion
    <2>1. handled < Len(inbox)
      BY TurnAt DEF Running
    <2>2. Current.seen = screen
      BY <2>1 DEF IInv, QueueInv
    <2> QED
      BY <2>2 DEF IInv, ShownInv
  <1> QED
    BY <1>1, Invariant, PTL

(***************************************************************************)
(* After a command its own question is pending or none is, whatever fails  *)
(* later than the removal of the old one                                   *)
(* (capabilityDispatcher.usecase.ts:62-68).                                *)
(***************************************************************************)
THEOREM AbandonedStays == Spec => []AbandonedStaysAbandoned
  <1>1. IInv => AbandonedStaysAbandoned
    BY DEF IInv, CommandInv, Committed, AbandonedStaysAbandoned
  <1> QED
    BY <1>1, Invariant, PTL

(***************************************************************************)
(* A transfer is of the tokens that were picked or that what was said last *)
(* stands for, through any number of questions, for all tokens, chains and *)
(* extractions of the model, if USDC is registered: /send falls back to a  *)
(* search for what was said where it is not, and there is no USDC to send  *)
(* (sendCapability.ts:358-675, swapCapability.ts:441-717).                 *)
(***************************************************************************)
THEOREM TokensRight == ASSUME "USDC" \in Registry PROVE Spec => []TokensAsAsked
  <1>1. IInv => TokensAsAsked
    <2> SUFFICES ASSUME IInv, turn.at = "run", turn.cap \in {"send", "swap"}
                 PROVE  TokensAsAsked
      BY DEF TokensAsAsked
    <2> DEFINE p == turn.result.params
    <2>1. ResultFits(turn.cap, turn.result) /\ turn.result.kind = "ok"
      BY DEF IInv, ResultInv
    <2>2. ParamsFit(turn.cap, p)
      BY <2>1 DEF ResultFits, Ended, Asks
    <2>3. CASE turn.cap = "send"
      <3>1. SendParams(p)
        BY <2>2, <2>3 DEF ParamsFit
      <3> HIDE DEF p
      <3>2. ASSUME NEW s \in Slot
            PROVE  IF p.picked[s] # NoToken THEN p.token[s] = p.picked[s]
                   ELSE IF p.fiat /\ s = "from"
                   THEN \/ p.token[s] = UsdcAddress(Home)
                        \/ IsAddress(p.said[s]) /\ p.token[s] = p.said[s]
                   ELSE StandsFor(p.said[s], Home, p.token[s])
        BY <3>1 DEF SendParams, Given
      <3> QED
        BY <2>3, <3>2 DEF TokensAsAsked, p
    <2>4. CASE turn.cap = "swap"
      <3>1. SwapParams(p)
        BY <2>2, <2>4 DEF ParamsFit
      <3> HIDE DEF p
      <3>2. ASSUME NEW s \in Slot
            PROVE  /\ IF p.picked[s] # NoToken THEN p.token[s] = p.picked[s]
                      ELSE IF p.said[s] = Named("USDC")
                      THEN \/ p.token[s] = UsdcAddress(ResolveChainSymbol(p.chain[s]))
                           \/ IsAddress(p.said[s]) /\ p.token[s] = p.said[s]
                      ELSE StandsFor(p.said[s], ResolveChainSymbol(p.chain[s]), p.token[s])
                   /\ p.token[s].chain = ResolveChainSymbol(p.chain[s])
        BY <3>1 DEF SwapParams
      <3> QED
        BY <2>4, <3>2 DEF TokensAsAsked, p
    <2> QED
      BY <2>3, <2>4
  <1> QED
    BY <1>1, Invariant, PTL

(***************************************************************************)
(* The recipient who is told is the one who is paid, also after more names *)
(* in later messages, unless the compiler has extracted a recipient since  *)
(* the handle was resolved: then that one is paid                          *)
(* (sendCapability.ts:354-495 and 687-747).                                *)
(***************************************************************************)
THEOREM PaidIsTold == Spec => []PaidIsNotified
  <1>1. IInv => PaidIsNotified
    <2> SUFFICES ASSUME IInv, turn.at = "run", turn.cap = "send"
                 PROVE  Tells(turn.result.params)
      BY DEF PaidIsNotified, Tells
    <2>1. ResultFits(turn.cap, turn.result) /\ turn.result.kind = "ok"
      BY DEF IInv, ResultInv
    <2> QED
      BY <2>1 DEF ResultFits, Ended, Asks, ParamsFit, SendParams
  <1> QED
    BY <1>1, Invariant, PTL

(***************************************************************************)
(* The compile loop asks at most MaxCompileTurns times and nobody is asked *)
(* twice about a slot, unless both have the same symbol.  The first round  *)
(* may always ask, so the bound has to be at least 1                       *)
(* (sendCapability.ts:358-432 and 518-572, swapCapability.ts:441-717).     *)
(***************************************************************************)
THEOREM QuestionsEnd == ASSUME MaxCompileTurns > 0 PROVE Spec => []QuestionsBounded
  <1>1. IInv => QuestionsBounded
    <2> SUFFICES ASSUME IInv, pending # NoPending, pending.cap \in {"send", "swap"}
                 PROVE  /\ pending.state.asked["compile"] <= MaxCompileTurns
                        /\ \A s \in Slot : \/ pending.state.asked[s] <= 1
                                           \/ pending.state.symbol["from"] = pending.state.symbol["to"]
      BY DEF QuestionsBounded
    <2> DEFINE st == pending.state
    <2>1. SendState(st) \/ SwapState(st)
      BY DEF IInv, StateInv, IsPending, StateFits
    <2>2. st \in State /\ Rounds(st)
          /\ (st.stage = "compile" => Compiling(st))
          /\ (st.stage = "disambig" => AskedOnce(st) \/ st.symbol["from"] = st.symbol["to"])
      BY <2>1 DEF SendState, SwapState
    <2> HIDE DEF st
    <2>3. st.asked["compile"] <= MaxCompileTurns
      <3> DEFINE turns == st.turns
                 asked == st.asked["compile"]
      <3>1. turns \in Nat /\ asked \in Nat
        BY <2>2, TurnsNat, StateType
      <3>2. asked <= turns /\ (turns = 1 \/ turns <= MaxCompileTurns)
        BY <2>2 DEF Rounds
      <3> HIDE DEF turns, asked
      <3>3. asked <= MaxCompileTurns
        BY <3>1, <3>2, TurnsAssumption
      <3> QED
        BY <3>3 DEF asked
    <2>4. ASSUME NEW s \in Slot PROVE st.asked[s] <= 1 \/ st.symbol["from"] = st.symbol["to"]
      <3>1. CASE st.stage = "compile"
        BY <2>2, <3>1 DEF Compiling
      <3>2. CASE st.stage = "disambig"
        BY <2>2, <3>2 DEF AskedOnce
      <3> QED
        BY <2>2, <3>1, <3>2, StateType
    <2> QED
      BY <2>3, <2>4 DEF st
  <1> QED
    BY <1>1, Invariant, PTL

(***************************************************************************)
(* Every update is answered, unless a step failed or it is a tap that no   *)
(* capability serves (handler.ts:74-134,                                   *)
(* capabilityDispatcher.usecase.ts:79-114).                                *)
(***************************************************************************)
THEOREM AllAnswered == Spec => []EveryUpdateAnswered
  <1>1. IInv => EveryUpdateAnswered
    BY DEF IInv
  <1> QED
    BY <1>1, Invariant, PTL
================================================================================
