----------------------------- MODULE MCConversation -----------------------------
(***************************************************************************)
(* Instances of Conversation.                                              *)
(***************************************************************************)
EXTENDS Conversation

\* Two symbols of two hits each, one that only finds another token, one without a hit.
MCMatches == [USDC |-> <<"USDC", "USDCE">>, AAA |-> <<"AAA", "AAAX">>, BBB |-> <<"BBBX">>,
              CCC |-> <<"CCC", "CCCX">>, DDD |-> <<>>,
              USDCE |-> <<"USDCE">>, AAAX |-> <<"AAAX">>, BBBX |-> <<"BBBX">>,
              CCCX |-> <<"CCCX">>]

Both(from, to) == [s \in Slot |-> IF s = "from" THEN from ELSE to]
Reply0 == [symbol |-> Both("", ""), address |-> Both(NoToken, NoToken),
           chain |-> Both(Unsaid, Unsaid), filled |-> FALSE, question |-> FALSE,
           handle |-> "", recipient |-> ""]
Extracts(from, to, fromChain, toChain, handle) ==
    [Reply0 EXCEPT !.symbol = Both(from, to), !.chain = Both(fromChain, toChain),
                   !.filled = TRUE, !.handle = handle]

\* Nothing extracted, with and without a question of the model; both symbols ambiguous;
\* the same symbol twice; USDC and a handle; another chain and a lone hit; no hit; a handle
\* and a question; an address and a recipient.
MCCompileReplies ==
    {Reply0, [Reply0 EXCEPT !.question = TRUE],
     Extracts("AAA", "CCC", Unsaid, Unsaid, ""), Extracts("AAA", "AAA", Unsaid, 2, ""),
     Extracts("AAA", "USDC", Unsaid, Unsaid, "bob"), Extracts("BBB", "AAA", 2, Unsaid, "carol"),
     Extracts("BBB", "DDD", Unsaid, Unsaid, ""),
     [Reply0 EXCEPT !.question = TRUE, !.handle = "carol"],
     [Extracts("", "BBB", Unsaid, Unsaid, "") EXCEPT
         !.address = Both(Token("CCC", Home), NoToken), !.recipient = "0xdan"]}

Message(kind, trigger, n, fiat, word) ==
    [kind |-> kind, trigger |-> trigger, n |-> n, fiat |-> fiat, word |-> word]
Text(n) == Message("text", "", n, FALSE, "")
Symbol(word) == Message("text", "", 0, FALSE, word)
Command(c) == Message("text", c, 0, FALSE, "")
Tap(prefix, n, word) == Message("callback", prefix, n, FALSE, word)

MCUpdates ==
    {Symbol("AAAX"), Text(2), Message("text", "", 0, TRUE, ""), Command("start"),
     Command("buy"), Message("text", "buy", 1, FALSE, ""), Tap("buy", 1, "y"), Tap("buy", 0, "y"),
     Command("send"), Message("text", "send", 0, TRUE, ""), Command("swap"),
     Command("withdraw"), Command("loyalty"),
     Command("yield"), Tap("yield", 0, "custom"), Tap("yield", 1, "opt"), Tap("yield", 0, "skip"),
     Tap("other", 0, "")}
MCHasty == {Text(2), Command("buy")}
================================================================================
