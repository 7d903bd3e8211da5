---------------------------- MODULE MCLoyaltyLedger ----------------------------
(* Instances of LoyaltyLedger. *)
EXTENDS LoyaltyLedger, TLC

CONSTANTS u1, u2, yield_deposit, e1, s0, s1

\* An award without a value earns 5 (6, cut by perActionCap) of a daily cap of 8; one
\* of value 1 is below the minimum of s0 and earns 1.5 points in s1, rounded to 2.
MCConfig == [s \in {s0, s1} |->
    [base |-> (yield_deposit :> 2), multiplier |-> (yield_deposit :> 3),
     minUsd |-> (yield_deposit :> IF s = s0 THEN 2 ELSE 1), volume |-> <<1>>,
     perActionCap |-> 5, dailyUserCap |-> IF s = s0 THEN 8 ELSE NoCap]]

Call(u, usd, exec) == [user |-> u, action |-> yield_deposit, usd |-> usd, exec |-> exec]

MCCalls == {Call(u1, NoRecord, NoRecord), Call(u1, NoRecord, e1), Call(u2, 1, NoRecord)}
================================================================================
