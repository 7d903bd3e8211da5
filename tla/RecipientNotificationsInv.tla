----------------------- MODULE RecipientNotificationsInv -----------------------
(***************************************************************************)
(* The inductive invariant of RecipientNotifications.                      *)
(***************************************************************************)
EXTENDS RecipientNotifications

\* A handler past "insert" has its row, and the flush works on rows that are there.
RowInv ==
    /\ \A n \in Notices :
          /\ notice[n] = NoRecord => told[n] = 0
          /\ dispatch[n] # NoRecord /\ dispatch[n].pc \in {"lookup", "send", "mark", "fail"} =>
                notice[n] # NoRecord
          /\ dispatch[n] = NoRecord \/ dispatch[n].pc = "insert" => notice[n] = NoRecord
    /\ flush # NoRecord =>
          /\ flush.left \subseteq flush.batch
          /\ flush.pc = "send" => flush.left = flush.batch
          /\ \A n \in flush.batch : notice[n] # NoRecord

\* Whoever is about to mark a row as delivered has sent its notice.
MarkInv ==
    /\ \A n \in Notices : Dispatching(n, "mark") => told[n] > 0
    /\ flush # NoRecord /\ flush.pc = "mark" => \A n \in flush.batch : told[n] > 0

\* How often the handler of a notice may have told it: it sends once.
ByDispatch(n) ==
    IF dispatch[n] = NoRecord \/ dispatch[n].pc \in {"insert", "lookup", "send"} THEN 0 ELSE 1

\* The flush that is running has sent n and has yet to mark it.
IsBeingMarked(n) == flush # NoRecord /\ flush.pc \in {"mark", "fail"} /\ n \in flush.left

\* The flush that is running has found n and has yet to send it.
IsBeingSent(n) == flush # NoRecord /\ flush.pc = "send" /\ n \in flush.batch

\* Until a flush has sent n and not been stopped, n was told by its handler alone;
\* once a flush has, n is no longer pending, or about to be marked.
ToldInv ==
    \A n \in Notices :
        /\ told[n] <= ByDispatch(n) + 1 + faults
        /\ (IsPending(n) /\ ~IsBeingMarked(n)) \/ IsBeingSent(n) =>
              told[n] <= ByDispatch(n) + faults

IInv == TypeOK /\ RowInv /\ MarkInv /\ ToldInv /\ DeliveredWasTold
================================================================================
