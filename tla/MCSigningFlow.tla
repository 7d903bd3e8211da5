----------------------------- MODULE MCSigningFlow -----------------------------
(***************************************************************************)
(* Instances of SigningFlow for TLC.  Which commands the users give is the *)
(* bound that matters; each .cfg picks one of the sets below.              *)
(***************************************************************************)
EXTENDS SigningFlowInv

Swap(n) == [kind |-> "swap", steps |-> n, amount |-> 1, checked |-> 1]
\* /send through a manifest with resolver fields: the guard sees the amount.
Send == [kind |-> "send", steps |-> 1, amount |-> 1, checked |-> 1]
\* /send through a manifest without them: the guard is asked about "0".
PlainSend == [Send EXCEPT !.checked = 0]

SwapAndPlainSend == {Swap(2), PlainSend}
OverLimitSend == {[PlainSend EXCEPT !.amount = 2]}
SwapAndSend == {Swap(2), Send}
================================================================================
