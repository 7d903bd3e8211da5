------------------------------ MODULE MCAssistant ------------------------------
(***************************************************************************)
(* One tool, which asks a service with the amount and passes its call on,  *)
(* and intents that are complete, lack the amount, name a bad recipient or *)
(* no known action.                                                        *)
(***************************************************************************)
EXTENDS Assistant, TLC

MCManifest ==
    "vault" :> [category |-> "contract_interaction",
                steps |-> <<[name |-> "quote", kind |-> "http_get", extract |-> {"data"},
                             templates |-> {[path |-> <<"intent", "amountHuman">>,
                                             spaced |-> FALSE]}],
                            [name |-> "call", kind |-> "calldata_passthrough", extract |-> {},
                             templates |-> {[path |-> <<"steps", "quote", "data">>,
                                             spaced |-> FALSE]}]>>]

IntentOf(action, amount, recipient) ==
    [action |-> action, params |-> {}, confident |-> TRUE,
     fields |-> [f \in UserProvidableFields |->
                   CASE f = "amountHuman" -> amount
                     [] f = "recipient" -> recipient
                     [] OTHER -> "none"]]

MCIntents ==
    {NoIntent, IntentOf("unknown", "none", "none"), IntentOf("claim_rewards", "none", "none")}
      \cup {IntentOf("vault", amount, recipient) :
              amount \in {"none", "good"}, recipient \in {"none", "bad"}}
================================================================================
