---------------------------- MODULE SigningFlowInv -----------------------------
(***************************************************************************)
(* The inductive invariant of SigningFlow: what has to be true of requests *)
(* in flight for the safety properties to be preserved by every step.      *)
(***************************************************************************)
EXTENDS SigningFlow

IsIssued(r) == issued[r] # NoRecord

\* What is left of a request's validity, by its signing record.
LeftOf(r) == IF signReq[r] = NoRecord THEN 0 ELSE signReq[r].left

\* An approved step leads to the next; the request of the current step exists from
\* the moment its record is written, nobody can have answered it before it is
\* published, and its verdict is open until the loop has one.
BotInv ==
    bot # NoRecord =>
        /\ bot.step <= bot.plan.steps
        /\ bot.prev # NoRecord => verdict[bot.prev] = "approved"
        /\ bot.pc = "create" => bot.req = NoRecord
        /\ bot.pc # "create" =>
              /\ bot.req # NoRecord /\ verdict[bot.req] = "none"
              /\ IsIssued(bot.req) /\ issued[bot.req].user = bot.user
        /\ bot.pc = "publish" =>
              /\ replied[bot.req] = {} /\ miniReq[bot.req] = NoRecord
              /\ \A p \in Posts : post[p] # NoRecord => post[p].req # bot.req

\* What is true of an id before its request is created, and of its history after.
IssueInv ==
    \A r \in Requests :
        /\ ~IsIssued(r) => /\ miniReq[r] = NoRecord /\ signReq[r] = NoRecord
                           /\ replied[r] = {} /\ verdict[r] = "none"
        /\ IsIssued(r) /\ issued[r].prev # NoRecord =>
              verdict[issued[r].prev] = "approved"

\* The two keys agree: the mini-app entry is not valid for longer than the record,
\* the record does not go before its validity, both are the issuer's, the record's amount
\* is the one of its step, and its status is one the user gave.
CacheInv ==
    \A r \in Requests :
        /\ miniReq[r] # NoRecord =>
              miniReq[r].left <= LeftOf(r) /\ miniReq[r].user = issued[r].user
        /\ signReq[r] # NoRecord =>
              /\ signReq[r].ttl = NoTtl \/ signReq[r].ttl > signReq[r].left
              /\ signReq[r].user = issued[r].user
              /\ signReq[r].amount = Attributed(issued[r].plan, issued[r].step)
              /\ signReq[r].status # "pending" => signReq[r].status \in accepted[r]

\* A handler holds a copy of the record of a request that was issued; past its
\* checks it acts on an answer it accepted, and a request it refused is not valid any
\* more.
PostInv ==
    \A p \in Posts : post[p] # NoRecord =>
        /\ IsIssued(post[p].req) /\ post[p].user = issued[post[p].req].user
        /\ post[p].pc \in {"resolve", "write", "charge", "update"} =>
              /\ post[p].rec # NoRecord /\ post[p].rec.user = issued[post[p].req].user
              /\ post[p].rec.amount =
                    Attributed(issued[post[p].req].plan, issued[post[p].req].step)
              /\ Resolution(post[p].answer) \in accepted[post[p].req]
        /\ post[p].pc = "write" => post[p].rec.left = LeftOf(post[p].req)
        /\ post[p].refused => LeftOf(post[p].req) = 0
        /\ post[p].pc = "dequeue" => miniReq[post[p].req] = NoRecord
        /\ post[p].pc = "update" => post[p].answer # "rejected" /\ post[p].rec.amount > 0

\* A sum that a handler is about to write was computed from a row that is backed.
LedgerInv ==
    /\ SpentIsBacked
    /\ \A p \in Posts : At(p, "update") =>
          /\ delegation[post[p].user] # NoRecord
          /\ post[p].read <= credited[post[p].user]

IInv ==
    /\ TypeOK /\ BotInv /\ IssueInv /\ CacheInv /\ PostInv /\ LedgerInv
    /\ RepliedNotServed /\ VerdictWasAnswered
================================================================================
