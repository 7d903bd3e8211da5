------------------------- MODULE RecipientNotifications ------------------------
(***************************************************************************)
(* "Someone sent you money": table recipient_notifications and the two     *)
(* parties that work on it, RecipientNotificationUseCase.                  *)
(*                                                                         *)
(* dispatchP2PSend runs when the signature of a /send to another Telegram  *)
(* user has been resolved, in the HTTP handler that resolved it, several   *)
(* at once.  It inserts a row and, if the recipient has a session, sends   *)
(* the notice and marks the row.  A replica that only serves HTTP is wired *)
(* without the use case and does nothing.                                  *)
(*                                                                         *)
(* flushPendingForTelegramUser runs in the bot loop, one at a time, after  *)
(* /start or a sign-in through the chat: it finds the rows that are still  *)
(* pending, sends them, and marks them one after the other.                *)
(*                                                                         *)
(* The user's side of Telegram, the clock and everything that may fail is  *)
(* the environment.  Only private chats, whose chat id is the user's id.   *)
(***************************************************************************)
EXTENDS AgentDomain, FiniteSets, Integers

CONSTANTS Notices,      \* notices, numbered in the order of createdAtEpoch
          Roles,        \* roles of the processes that serve POST /response
          DigestLimit,  \* rows that one flush takes at most (50)
          MaxFaults     \* bound: handlers and flushes that stop half-way

ASSUME NoticesAssumption == Notices \subseteq Nat
ASSUME RolesAssumption == Roles \subseteq {"worker", "http"}
ASSUME DigestLimitAssumption == DigestLimit \in Nat \ {0}
ASSUME MaxFaultsAssumption == MaxFaults \in Nat

VARIABLES notice,     \* the table's rows
          session,    \* telegram_sessions, by chat
          dispatch,   \* the dispatchP2PSend calls, one per notice
          flush,      \* the flush the bot loop is executing, or NoRecord
          told,       \* history: how often the recipient got the notice
          faults      \* the number of stops so far

vars == <<notice, session, dispatch, flush, told, faults>>

Row == [to: Users, status: {"pending", "delivered", "failed"}]

Dispatch == [pc: {"insert", "lookup", "send", "mark", "fail", "done"}, to: Users]

\* batch are the rows it found, left those that it has not marked yet.
Flush == [pc: {"find", "send", "mark", "fail"}, user: Users,
          batch: SUBSET Notices, left: SUBSET Notices]

ASSUME AbsentAssumption == NoRecord \notin Row \cup Dispatch \cup Flush

IsPending(n) == notice[n] # NoRecord /\ notice[n].status = "pending"
Pending(u) == {n \in Notices : IsPending(n) /\ notice[n].to = u}

Mark(n, status) == notice' = [notice EXCEPT ![n] = [@ EXCEPT !.status = status]]

--------------------------------------------------------------------------------
(* dispatchP2PSend.                                                        *)

Dispatching(n, pc) == dispatch[n] # NoRecord /\ dispatch[n].pc = pc
Goto(n, pc) == dispatch' = [dispatch EXCEPT ![n] = [@ EXCEPT !.pc = pc]]

\* A /send to u is resolved as approved.  The time stamp of the notice is taken
\* here, before the row is written.
Resolved(n, u, role) ==
    /\ dispatch[n] = NoRecord
    /\ \A m \in Notices : m < n => dispatch[m] # NoRecord
    /\ dispatch' = [dispatch EXCEPT ![n] =
           [pc |-> IF role = "worker" THEN "insert" ELSE "done", to |-> u]]
    /\ UNCHANGED <<notice, session, flush, told, faults>>

Insert(n) ==
    /\ Dispatching(n, "insert")
    /\ notice' = [notice EXCEPT ![n] = [to |-> dispatch[n].to, status |-> "pending"]]
    /\ Goto(n, "lookup")
    /\ UNCHANGED <<session, flush, told, faults>>

\* Any session will do, an expired one too.  Without one the row is left to a flush.
LookupSession(n) ==
    /\ Dispatching(n, "lookup")
    /\ Goto(n, IF session[dispatch[n].to] = "none" THEN "done" ELSE "send")
    /\ UNCHANGED <<notice, session, flush, told, faults>>

\* Telegram takes the notice, or it does not; when the call fails the recipient may
\* have got the notice all the same.
SendNotice(n) ==
    /\ Dispatching(n, "send")
    /\ \/ Goto(n, "mark") /\ told' = [told EXCEPT ![n] = @ + 1]
       \/ Goto(n, "fail") /\ told' \in {told, [told EXCEPT ![n] = @ + 1]}
    /\ UNCHANGED <<notice, session, flush, faults>>

\* Mutant of MarkNotice: when the row cannot be marked, the notice is sent again.
MarkNoticeRetries(n) ==
    /\ Dispatching(n, "mark")
    /\ \/ Mark(n, "delivered") /\ Goto(n, "done")
       \/ Goto(n, "send") /\ UNCHANGED notice
    /\ UNCHANGED <<session, flush, told, faults>>

\* An error of markDelivered is caught together with one of the send.
MarkNotice(n) ==
    /\ Dispatching(n, "mark")
    /\ \/ Mark(n, "delivered") /\ Goto(n, "done")
       \/ Goto(n, "fail") /\ UNCHANGED notice
    /\ UNCHANGED <<session, flush, told, faults>>

MarkNoticeFailed(n) ==
    /\ Dispatching(n, "fail")
    /\ Mark(n, "failed")
    /\ Goto(n, "done")
    /\ UNCHANGED <<session, flush, told, faults>>

\* The process stops, or Postgres fails outside of the try.
DispatchStops(n) ==
    /\ dispatch[n] # NoRecord /\ dispatch[n].pc # "done"
    /\ faults < MaxFaults
    /\ faults' = faults + 1
    /\ Goto(n, "done")
    /\ UNCHANGED <<notice, session, flush, told>>

DispatchStep(n) == \/ Insert(n) \/ LookupSession(n) \/ SendNotice(n)
                   \/ MarkNotice(n) \/ MarkNoticeFailed(n)

--------------------------------------------------------------------------------
(* The bot loop: sessions and flushes.                                     *)

StartFlush(u) ==
    flush' = [pc |-> "find", user |-> u, batch |-> {}, left |-> {}]

\* /start of a user who is signed in.
Start(u) ==
    /\ flush = NoRecord
    /\ session[u] = "live"
    /\ StartFlush(u)
    /\ UNCHANGED <<notice, session, dispatch, told, faults>>

\* ensureAuthenticated deletes a session that has expired; /logout deletes any.
EndSession(u) ==
    /\ flush = NoRecord
    /\ session[u] # "none"
    /\ session' = [session EXCEPT ![u] = "none"]
    /\ UNCHANGED <<notice, dispatch, flush, told, faults>>

\* The mini app signs in through the chat (web_app_data).
ChatLogin(u) ==
    /\ flush = NoRecord
    /\ session' = [session EXCEPT ![u] = "live"]
    /\ StartFlush(u)
    /\ UNCHANGED <<notice, dispatch, told, faults>>

\* Mutant of FirstPending: rows that have failed are tried again.
FirstUndelivered(u, batch) ==
    LET undelivered == {n \in Notices : /\ notice[n] # NoRecord /\ notice[n].to = u
                                        /\ notice[n].status # "delivered"}
    IN /\ batch \subseteq undelivered
       /\ \A n \in batch, m \in undelivered \ batch : n < m
       /\ Cardinality(batch) <= DigestLimit
       /\ batch # undelivered => Cardinality(batch) = DigestLimit

\* The rows of a flush: pending ones, the oldest first, as many as the limit allows.
FirstPending(u, batch) ==
    /\ batch \subseteq Pending(u)
    /\ \A n \in batch, m \in Pending(u) \ batch : n < m
    /\ Cardinality(batch) <= DigestLimit
    /\ batch # Pending(u) => Cardinality(batch) = DigestLimit

Find ==
    /\ flush # NoRecord /\ flush.pc = "find"
    /\ \E batch \in SUBSET Notices :
          /\ FirstPending(flush.user, batch)
          /\ flush' = IF batch = {} THEN NoRecord
                      ELSE [flush EXCEPT !.pc = "send", !.batch = batch, !.left = batch]
    /\ UNCHANGED <<notice, session, dispatch, told, faults>>

ToldAll(batch) == told' = [n \in Notices |-> IF n \in batch THEN told[n] + 1 ELSE told[n]]

\* One message for the whole batch, with the outcomes of SendNotice.
SendBatch ==
    /\ flush # NoRecord /\ flush.pc = "send"
    /\ \/ flush' = [flush EXCEPT !.pc = "mark"] /\ ToldAll(flush.batch)
       \/ /\ flush' = [flush EXCEPT !.pc = "fail"]
          /\ told' = told \/ ToldAll(flush.batch)
    /\ UNCHANGED <<notice, session, dispatch, faults>>

\* The oldest row that is left to mark.
IsNextLeft(n) == n \in flush.left /\ \A m \in flush.left : n <= m
MarkedOne(n) ==
    flush' = IF flush.left = {n} THEN NoRecord ELSE [flush EXCEPT !.left = @ \ {n}]

\* Mutant of MarkBatch: one UPDATE for all the pending rows of the recipient.
MarkAllPending(n) ==
    /\ flush # NoRecord /\ flush.pc = "mark" /\ IsNextLeft(n)
    /\ notice' = [m \in Notices |-> IF m \in Pending(flush.user)
                                    THEN [notice[m] EXCEPT !.status = "delivered"]
                                    ELSE notice[m]]
    /\ flush' = NoRecord
    /\ UNCHANGED <<session, dispatch, told, faults>>

\* When a row cannot be marked as delivered, every row of the batch is to be marked
\* as failed.
MarkBatch(n) ==
    /\ flush # NoRecord /\ flush.pc = "mark" /\ IsNextLeft(n)
    /\ \/ Mark(n, "delivered") /\ MarkedOne(n)
       \/ /\ flush' = [flush EXCEPT !.pc = "fail", !.left = flush.batch]
          /\ UNCHANGED notice
    /\ UNCHANGED <<session, dispatch, told, faults>>

\* Mutant of MarkBatchFailed: the row remains pending.
MarkBatchPending(n) ==
    /\ flush # NoRecord /\ flush.pc = "fail" /\ IsNextLeft(n)
    /\ Mark(n, "pending")
    /\ MarkedOne(n)
    /\ UNCHANGED <<session, dispatch, told, faults>>

MarkBatchFailed(n) ==
    /\ flush # NoRecord /\ flush.pc = "fail" /\ IsNextLeft(n)
    /\ Mark(n, "failed")
    /\ MarkedOne(n)
    /\ UNCHANGED <<session, dispatch, told, faults>>

\* The worker stops, or Postgres or Telegram fails outside of the try.
FlushStops ==
    /\ flush # NoRecord
    /\ faults < MaxFaults
    /\ faults' = faults + 1
    /\ flush' = NoRecord
    /\ UNCHANGED <<notice, session, dispatch, told>>

FlushStep == \/ Find
             \/ SendBatch
             \/ \E n \in Notices : MarkBatch(n) \/ MarkBatchFailed(n)

--------------------------------------------------------------------------------
(* The other processes, and time.                                          *)

\* POST /auth/privy and the answer to a request of type "auth", on any replica: the
\* session is written, nothing is flushed.
HttpLogin(u) ==
    /\ session' = [session EXCEPT ![u] = "live"]
    /\ UNCHANGED <<notice, dispatch, flush, told, faults>>

Expire(u) ==
    /\ session[u] = "live"
    /\ session' = [session EXCEPT ![u] = "expired"]
    /\ UNCHANGED <<notice, dispatch, flush, told, faults>>

Init ==
    /\ notice = [n \in Notices |-> NoRecord]
    /\ session = [u \in Users |-> "none"]
    /\ dispatch = [n \in Notices |-> NoRecord]
    /\ flush = NoRecord
    /\ told = [n \in Notices |-> 0]
    /\ faults = 0

Next ==
    \/ \E n \in Notices, u \in Users, role \in Roles : Resolved(n, u, role)
    \/ \E n \in Notices : DispatchStep(n) \/ DispatchStops(n)
    \/ \E u \in Users : \/ Start(u) \/ EndSession(u) \/ ChatLogin(u)
                        \/ HttpLogin(u) \/ Expire(u)
    \/ FlushStep
    \/ FlushStops

Spec == Init /\ [][Next]_vars

\* The event loop of a process goes on with the calls it has begun.
FairSpec == Spec /\ WF_vars(FlushStep) /\ \A n \in Notices : WF_vars(DispatchStep(n))

--------------------------------------------------------------------------------
(* Properties.                                                             *)

\* Every variable has its type: rows, sessions, and the locals of each dispatch and flush.
TypeOK ==
    /\ notice \in [Notices -> Row \cup {NoRecord}]
    /\ session \in [Users -> {"none", "live", "expired"}]
    /\ dispatch \in [Notices -> Dispatch \cup {NoRecord}]
    /\ flush \in Flush \cup {NoRecord}
    /\ told \in [Notices -> Nat]
    /\ faults \in 0..MaxFaults

\* A row is marked as delivered only if its recipient has got the notice: a flush
\* marks what it sent, not what has been inserted since, and a handler and a flush
\* that work on the same row do not mark it on each other's behalf.
DeliveredWasTold ==
    \A n \in Notices :
        notice[n] # NoRecord /\ notice[n].status = "delivered" => told[n] > 0

\* A recipient reads of a transfer twice at most, when its own dispatch and a flush
\* race for the row, and once more for every stop that came between a message and
\* its mark.  However many flushes run, they do not repeat themselves otherwise.
TellingsBounded == \A n \in Notices : told[n] <= 2 + faults

\* A recipient who keeps coming back with a session is told of everything that is
\* pending or has it marked as failed: no row waits behind the others for good.
NoticesDrain ==
    \A u \in Users :
        []<><<Start(u)>>_vars => \A n \in Notices : n \in Pending(u) ~> n \notin Pending(u)

\* recipientNotification.useCase.ts: "delivery failed - will remain pending".
UndeliveredStaysPending ==
    \A n \in Notices : notice[n] # NoRecord /\ told[n] = 0 => IsPending(n)
================================================================================
