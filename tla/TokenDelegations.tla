--------------------------- MODULE TokenDelegations ----------------------------
(***************************************************************************)
(* Postgres table token_delegations and the Aegis Guard that reads it.     *)
(* One row per user: the rows of a user's other tokens behave alike and    *)
(* never meet.  Amounts are natural numbers (BigInt in the code, so they   *)
(* do not overflow).                                                       *)
(***************************************************************************)
EXTENDS AgentDomain, Integers

CONSTANTS Limits,      \* the values of limit_raw a user may grant
          GrantTicks   \* how long a grant is valid: validUntil - now

ASSUME LimitsAssumption == Limits \subseteq Nat
ASSUME GrantTicksAssumption == GrantTicks \in Nat

VARIABLE delegation

Delegation == [limit: Limits, spent: Nat, left: 0..GrantTicks]

ASSUME NoDelegationAssumption == NoRecord \notin Delegation

DelegationsTypeOK == delegation \in [Users -> Delegation \cup {NoRecord}]

DelegationsInit == delegation = [u \in Users |-> NoRecord]

\* upsertMany for one delegation: INSERT, or on conflict take the new limit and
\* validity and keep spent_raw when the limit is the same, else reset it.
Upsert(u, limit) ==
    delegation' = [delegation EXCEPT ![u] =
        [limit |-> limit,
         spent |-> IF @ # NoRecord /\ @.limit = limit THEN @.spent ELSE 0,
         left  |-> GrantTicks]]

\* checkTokenDelegation answers ok: findActiveByUserId finds a row that is still
\* valid, and what remains of its limit covers the amount it is asked about.
GuardPasses(u, amount) ==
    /\ delegation[u] # NoRecord
    /\ delegation[u].left > 0
    /\ delegation[u].limit - delegation[u].spent >= amount

\* Mutant of WriteSpent: the statement adds the sum, which has the old value in
\* it already, to the row.
WriteSpentTwice(u, read, amount) ==
    delegation' = [delegation EXCEPT ![u] = [@ EXCEPT !.spent = @ + read + amount]]

\* The second half of addSpent: UPDATE spent_raw with the sum computed from the
\* row that the first half read.  Neither half looks at the limit or the validity.
WriteSpent(u, read, amount) ==
    delegation' = [delegation EXCEPT ![u] = [@ EXCEPT !.spent = read + amount]]

DelegationsTick ==
    delegation' = [u \in Users |->
        IF delegation[u] = NoRecord \/ delegation[u].left = 0 THEN delegation[u]
        ELSE [delegation[u] EXCEPT !.left = @ - 1]]
================================================================================
