------------------------------ MODULE MCAccounts ------------------------------
(* A small instance: one Privy identity whose e-mail may become that of the   *)
(* other, and two chats.                                                      *)
EXTENDS Accounts, TLC

CONSTANTS a, b, d, e

MCEmailsOf == (d :> {a, b}) @@ (e :> {b})

\* Neither the calls nor the chats are ordered or named by any definition.
MCSymmetry == Permutations(Calls) \cup Permutations(Chats)
=============================================================================
