---------------------------- MODULE StepwiseConsent ----------------------------
(***************************************************************************)
(* What the signing flow promises, with caches, handlers, time and         *)
(* failures left out: the transactions of a command are put to the user    *)
(* one at a time, the next one is asked for only after the user has        *)
(* consented to the one before, and one command runs at a time.            *)
(***************************************************************************)
EXTENDS Integers

CONSTANTS Requests, NoRecord

VARIABLES current,    \* [steps, done] of the command that is running, or NoRecord
          waiting,    \* the request its current step waits for, or NoRecord
          asked,      \* the requests put to users so far
          consented,  \* those the user has agreed to
          passed      \* those on which a command has moved on

vars == <<current, waiting, asked, consented, passed>>

Init == /\ current = NoRecord
        /\ waiting = NoRecord
        /\ asked = {} /\ consented = {} /\ passed = {}

Begin ==
    /\ current = NoRecord
    /\ current' \in [steps: Nat \ {0}, done: {0}]
    /\ UNCHANGED <<waiting, asked, consented, passed>>

Ask(r) ==
    /\ current # NoRecord /\ waiting = NoRecord
    /\ r \notin asked
    /\ asked' = asked \cup {r}
    /\ waiting' = r
    /\ UNCHANGED <<current, consented, passed>>

Consent(r) ==
    /\ r \in asked
    /\ consented' = consented \cup {r}
    /\ UNCHANGED <<current, waiting, asked, passed>>

\* The command moves on to its next step, or ends after its last one (or because
\* it cannot use the consent it got).
Advance ==
    /\ current # NoRecord
    /\ waiting \in consented
    /\ passed' = passed \cup {waiting}
    /\ waiting' = NoRecord
    /\ \/ current.done + 1 < current.steps /\ current' = [current EXCEPT !.done = @ + 1]
       \/ current' = NoRecord
    /\ UNCHANGED <<asked, consented>>

Stop ==
    /\ current # NoRecord
    /\ current' = NoRecord /\ waiting' = NoRecord
    /\ UNCHANGED <<asked, consented, passed>>

Next == \/ Begin
        \/ \E r \in Requests : Ask(r) \/ Consent(r)
        \/ Advance
        \/ Stop

Spec == Init /\ [][Next]_vars
================================================================================
