---------------------------- MODULE IntentExecution ----------------------------
(***************************************************************************)
(* What becomes of a trading intent that the language model reads out of   *)
(* the messages: parseAndExecute validates it, finds a solver, builds its  *)
(* calldata step by step, and answers.  Pure operators; Assistant runs     *)
(* them inside the tool execute_intent.                                    *)
(*                                                                         *)
(* Of a field it matters whether the intent gives it, and whether what it  *)
(* gives can be used.  Environment: the intent, which manifests the search *)
(* finds, and whether a step fails for reasons of its own: an HTTP answer, *)
(* a value that cannot be encoded, an empty address.                       *)
(***************************************************************************)
EXTENDS Integers, Sequences

CONSTANTS Tools,        \* ids of the tools of the catalog
          Manifest,     \* tool id -> its category and steps
          ParamNames,   \* names of params of an intent
          WINDOW_SIZE   \* user messages an intent may take

ASSUME WindowAssumption == WINDOW_SIZE \in Nat

BuiltInActions == {"swap", "stake", "unstake", "claim_rewards", "transfer", "unknown"}
UserProvidableFields ==
    {"fromTokenSymbol", "toTokenSymbol", "amountHuman", "slippageBps", "recipient"}

\* What parse returns.
Intent == [action: BuiltInActions \cup Tools,
           fields: [UserProvidableFields -> {"none", "bad", "good"}],
           params: SUBSET ParamNames, confident: BOOLEAN]
NoIntent == [action |-> "none"]

Given(i) == {f \in UserProvidableFields : i.fields[f] # "none"}

-----------------------------------------------------------------------------
(* The manifest of a tool: its category and its steps.  A step has a name, a    *)
(* kind, the templates that its executor fills in, and the keys it extracts     *)
(* from an HTTP answer.  A template has the path it stands for, and may be      *)
(* written with spaces inside its braces.                                       *)

\* What erc20_transfer needs without any template.
Erc20Paths ==
    {<<"intent", "params", "tokenAddress">>, <<"intent", "params", "amountRaw">>,
     <<"intent", "recipient">>}

\* The paths that a step must find.
Paths(step) == IF step.kind = "erc20_transfer" THEN Erc20Paths
               ELSE {r.path : r \in step.templates}

Yields(step) == IF step.kind \in {"http_get", "http_post"} THEN step.extract
                ELSE {"to", "data", "value"}

\* The output of a step is stored under its name: a later step of the same name
\* replaces it.
OutputsBefore(steps, n) ==
    {k \in 1..(n - 1) : \A j \in (k + 1)..(n - 1) : steps[j].name # steps[k].name}

\* The user's address is there even if it is empty.
Context(i, steps, n) ==
    {<<"intent", f>> : f \in Given(i) \cup {"action", "confidence", "rawInput"}}
      \cup {<<"intent", "params", p>> : p \in i.params}
      \cup {<<"user", "scaAddress">>}
      \cup UNION {{<<"steps", steps[k].name, key>> : key \in Yields(steps[k])} :
                    k \in OutputsBefore(steps, n)}

\* Every template is resolved, and the last step leaves a call.
BuildCalldata(i, steps) ==
    /\ \A n \in 1..Len(steps) : Paths(steps[n]) \subseteq Context(i, steps, n)
    /\ {"to", "data"} \subseteq Yields(steps[Len(steps)])

-----------------------------------------------------------------------------
(* validateIntent *)

RequiredFields(c) ==
    CASE c = "swap" -> {"fromTokenSymbol", "toTokenSymbol", "amountHuman"}
      [] c \in {"transfer", "erc20_transfer"} -> {"fromTokenSymbol", "amountHuman", "recipient"}
      [] c \in {"stake", "unstake"} -> {"fromTokenSymbol", "amountHuman"}
      [] OTHER -> {}

\* The fields that templates name, as far as the pattern recognises them.
ManifestRequiredFields(steps) ==
    {f \in UserProvidableFields :
       \E n \in 1..Len(steps) : \E r \in steps[n].templates :
         r.path = <<"intent", f>> /\ ~r.spaced}

\* Only the manifests that the search found are known here, and a built-in action
\* has none.
Required(i, relevant) ==
    IF i.action \in relevant \ BuiltInActions
    THEN RequiredFields(Manifest[i.action].category)
           \cup ManifestRequiredFields(Manifest[i.action].steps)
    ELSE RequiredFields(i.action)

Missing(i, relevant) == Required(i, relevant) \ (Given(i) \cup i.params)

ValidateIntent(i, count, relevant) ==
    IF Missing(i, relevant) # {}
    THEN IF count >= WINDOW_SIZE THEN "limit" ELSE "missing"
    ELSE IF i.fields["recipient"] = "bad" \/ i.fields["amountHuman"] = "bad" THEN "invalid"
    ELSE "valid"

-----------------------------------------------------------------------------
(* parseAndExecute *)

\* getSolverAsync: a built-in solver, or the tool of that id if it is active.
HasSolver(action, active) == action = "claim_rewards" \/ action \in active

\* claim_rewards encodes the user's address only.
SolverBuilds(i, breaks) ==
    ~breaks /\ (i.action # "claim_rewards" => BuildCalldata(i, Manifest[i.action].steps))

\* status of the answer; saved: a row of table intents says so; reset: the messages
\* of the conversation are deleted.
Rejected(saved, reset) == [status |-> "rejected", saved |-> saved, reset |-> reset]
Awaiting == [status |-> "awaiting_confirmation", saved |-> TRUE, reset |-> FALSE]

\* count: the messages read, the new one included; relevant: the tools found before
\* the intent is parsed; active: those of the catalog afterwards; breaks: the solver
\* fails for a reason of its own.
ParseAndExecute(i, count, relevant, active, breaks) ==
    LET verdict == ValidateIntent(i, count, relevant) IN
    IF i = NoIntent \/ verdict \in {"missing", "invalid"} THEN Rejected(FALSE, FALSE)
    ELSE IF verdict = "limit" THEN Rejected(FALSE, TRUE)
    ELSE IF \/ ~i.confident \/ i.action = "unknown"
            \/ ~HasSolver(i.action, active) \/ ~SolverBuilds(i, breaks)
         THEN Rejected(TRUE, FALSE)
    ELSE Awaiting

\* buildRequestBody: a command hands its params to the same solver; of the fields only
\* the recipient stands outside of them.
RequestPackage(t, params, recipient) ==
    [action |-> t, params |-> params, confident |-> TRUE,
     fields |-> [f \in UserProvidableFields |->
                   IF f = "recipient" /\ recipient THEN "good" ELSE "none"]]
================================================================================
