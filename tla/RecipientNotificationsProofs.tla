---------------------- MODULE RecipientNotificationsProofs ---------------------
(***************************************************************************)
(* Proofs about RecipientNotifications: for any number of users, notices,  *)
(* faults and any limit, a row that says "delivered" was delivered, and a  *)
(* recipient is told of a transfer twice at most, plus once per fault.     *)
(***************************************************************************)
EXTENDS RecipientNotificationsInv, TLAPS

--------------------------------------------------------------------------------
(* Type correctness.                                                       *)

\* Moving a handler on keeps the type of the handlers, and moves no other one.
LEMMA GotoType ==
    ASSUME TypeOK, NEW n \in Notices, dispatch[n] # NoRecord,
           NEW pc \in {"insert", "lookup", "send", "mark", "fail", "done"}, Goto(n, pc)
    PROVE  /\ dispatch' \in [Notices -> Dispatch \cup {NoRecord}]
           /\ dispatch'[n] # NoRecord /\ dispatch'[n].pc = pc
           /\ \A m \in Notices \ {n} : dispatch'[m] = dispatch[m]
<1>1. dispatch[n] \in Dispatch
  BY DEF TypeOK
<1>2. [dispatch[n] EXCEPT !.pc = pc] \in Dispatch
  BY <1>1 DEF Dispatch
<1>3. dispatch' = [dispatch EXCEPT ![n] = [dispatch[n] EXCEPT !.pc = pc]]
  BY DEF Goto
<1>4. [dispatch[n] EXCEPT !.pc = pc].pc = pc
  BY <1>1 DEF Dispatch
<1>5. [dispatch[n] EXCEPT !.pc = pc] # NoRecord
  BY <1>2, AbsentAssumption
<1> QED
  BY <1>2, <1>3, <1>4, <1>5 DEF TypeOK

\* Marking a row keeps the type of the table, and touches no other row.
LEMMA MarkType ==
    ASSUME TypeOK, NEW n \in Notices, notice[n] # NoRecord,
           NEW status \in {"pending", "delivered", "failed"}, Mark(n, status)
    PROVE  /\ notice' \in [Notices -> Row \cup {NoRecord}]
           /\ notice'[n] # NoRecord /\ notice'[n].status = status
           /\ \A m \in Notices \ {n} : notice'[m] = notice[m]
<1>1. notice[n] \in Row
  BY DEF TypeOK
<1>2. [notice[n] EXCEPT !.status = status] \in Row
  BY <1>1 DEF Row
<1>3. notice' = [notice EXCEPT ![n] = [notice[n] EXCEPT !.status = status]]
  BY DEF Mark
<1>4. [notice[n] EXCEPT !.status = status].status = status
  BY <1>1 DEF Row
<1>5. [notice[n] EXCEPT !.status = status] # NoRecord
  BY <1>2, AbsentAssumption
<1> QED
  BY <1>2, <1>3, <1>4, <1>5 DEF TypeOK

\* What the three steps of a flush that go on make of it.
LEMMA FlushType ==
    ASSUME TypeOK, flush # NoRecord
    PROVE  /\ flush \in Flush
           /\ \A n \in Notices :
                 MarkedOne(n) =>
                    /\ flush' \in Flush \cup {NoRecord}
                    /\ flush' # NoRecord =>
                          /\ flush'.pc = flush.pc /\ flush'.batch = flush.batch
                          /\ flush'.left = flush.left \ {n}
           /\ \A pc \in {"find", "send", "mark", "fail"} :
                 LET f == [flush EXCEPT !.pc = pc] IN
                 /\ f \in Flush /\ f # NoRecord
                 /\ f.pc = pc /\ f.batch = flush.batch /\ f.left = flush.left
<1>1. flush \in Flush
  BY DEF TypeOK
<1>2. ASSUME NEW n \in Notices, MarkedOne(n)
      PROVE  /\ flush' \in Flush \cup {NoRecord}
             /\ flush' # NoRecord =>
                   /\ flush'.pc = flush.pc /\ flush'.batch = flush.batch
                   /\ flush'.left = flush.left \ {n}
  BY <1>1, <1>2 DEF MarkedOne, Flush
<1>3. ASSUME NEW pc \in {"find", "send", "mark", "fail"}
      PROVE  LET f == [flush EXCEPT !.pc = pc] IN
             /\ f \in Flush
             /\ f.pc = pc /\ f.batch = flush.batch /\ f.left = flush.left
  BY <1>1 DEF Flush
<1> QED
  BY <1>1, <1>2, <1>3, AbsentAssumption

\* A flush that has found its batch.
LEMMA FoundType ==
    ASSUME TypeOK, flush # NoRecord, NEW batch \in SUBSET Notices
    PROVE  LET f == [flush EXCEPT !.pc = "send", !.batch = batch, !.left = batch] IN
           /\ f \in Flush /\ f # NoRecord
           /\ f.pc = "send" /\ f.batch = batch /\ f.left = batch
<1>1. flush \in Flush
  BY DEF TypeOK
<1> QED
  BY <1>1, AbsentAssumption DEF Flush

\* The new row is pending.
LEMMA InsertType ==
    ASSUME TypeOK, NEW n \in Notices, Insert(n)
    PROVE  /\ notice' \in [Notices -> Row \cup {NoRecord}]
           /\ notice'[n] # NoRecord /\ notice'[n].status = "pending"
           /\ \A m \in Notices \ {n} : notice'[m] = notice[m]
<1>1. dispatch[n] \in Dispatch
  BY DEF TypeOK, Insert, Dispatching
<1> DEFINE row == [to |-> dispatch[n].to, status |-> "pending"]
<1>2. row \in Row
  BY <1>1 DEF Dispatch, Row
<1>3. row # NoRecord /\ row.status = "pending"
  BY <1>2, AbsentAssumption
<1>4. notice' = [notice EXCEPT ![n] = row]
  BY DEF Insert
<1> QED
  BY <1>2, <1>3, <1>4 DEF TypeOK

\* A new handler and a new flush.
LEMMA FreshType ==
    ASSUME TypeOK
    PROVE  /\ \A n \in Notices, u \in Users, role \in Roles : Resolved(n, u, role) =>
                 /\ dispatch' \in [Notices -> Dispatch \cup {NoRecord}]
                 /\ dispatch'[n] # NoRecord /\ dispatch'[n].pc \in {"insert", "done"}
                 /\ \A m \in Notices \ {n} : dispatch'[m] = dispatch[m]
           /\ \A u \in Users : StartFlush(u) =>
                 /\ flush' \in Flush /\ flush'.pc = "find"
                 /\ flush'.batch = {} /\ flush'.left = {}
<1>1. ASSUME NEW n \in Notices, NEW u \in Users, NEW role \in Roles, Resolved(n, u, role)
      PROVE  /\ dispatch' \in [Notices -> Dispatch \cup {NoRecord}]
             /\ dispatch'[n] # NoRecord /\ dispatch'[n].pc \in {"insert", "done"}
             /\ \A m \in Notices \ {n} : dispatch'[m] = dispatch[m]
  <2> DEFINE d == [pc |-> IF role = "worker" THEN "insert" ELSE "done", to |-> u]
  <2>1. d \in Dispatch /\ d.pc \in {"insert", "done"}
    BY DEF Dispatch
  <2>2. d # NoRecord
    BY <2>1, AbsentAssumption
  <2>3. dispatch' = [dispatch EXCEPT ![n] = d]
    BY <1>1 DEF Resolved
  <2> HIDE DEF d
  <2> QED
    BY <2>1, <2>2, <2>3 DEF TypeOK
<1>2. ASSUME NEW u \in Users, StartFlush(u)
      PROVE  /\ flush' \in Flush /\ flush'.pc = "find"
             /\ flush'.batch = {} /\ flush'.left = {}
  BY <1>2 DEF StartFlush, Flush
<1> QED
  BY <1>1, <1>2

\* A handler past "insert" has its row, and so has a flush for what it works on.
LEMMA HasRow ==
    ASSUME TypeOK, RowInv, NEW n \in Notices
    PROVE  /\ \A pc \in {"lookup", "send", "mark", "fail"} :
                 Dispatching(n, pc) => notice[n] # NoRecord
           /\ flush # NoRecord /\ (n \in flush.batch \/ n \in flush.left) =>
                 notice[n] # NoRecord
BY DEF RowInv, Dispatching

\* The steps of one handler, as far as a proof needs them.
LEMMA HandlerSteps ==
    ASSUME TypeOK, RowInv, NEW n \in Notices, DispatchStep(n) \/ DispatchStops(n)
    PROVE  /\ notice' \in [Notices -> Row \cup {NoRecord}]
           /\ dispatch' \in [Notices -> Dispatch \cup {NoRecord}]
           /\ told' \in [Notices -> Nat]
           /\ dispatch[n] # NoRecord /\ dispatch'[n] # NoRecord
           /\ \A m \in Notices \ {n} :
                 /\ notice'[m] = notice[m] /\ dispatch'[m] = dispatch[m] /\ told'[m] = told[m]
           /\ UNCHANGED flush
<1>1. CASE Insert(n)
  BY <1>1, InsertType, GotoType DEF Insert, Dispatching, TypeOK
<1>2. CASE LookupSession(n)
  BY <1>2, GotoType DEF LookupSession, Dispatching, TypeOK
<1>3. CASE SendNotice(n)
  <2>1. dispatch[n] # NoRecord /\ (Goto(n, "mark") \/ Goto(n, "fail"))
    BY <1>3 DEF SendNotice, Dispatching
  <2>2. told' = told \/ told' = [told EXCEPT ![n] = @ + 1]
    BY <1>3 DEF SendNotice
  <2>3. told' \in [Notices -> Nat] /\ \A m \in Notices \ {n} : told'[m] = told[m]
    BY <2>2 DEF TypeOK
  <2> QED
    BY <1>3, <2>1, <2>3, GotoType DEF SendNotice, TypeOK
<1>4. CASE MarkNotice(n)
  BY <1>4, HasRow, GotoType, MarkType DEF MarkNotice, Dispatching, TypeOK
<1>5. CASE MarkNoticeFailed(n)
  BY <1>5, HasRow, GotoType, MarkType DEF MarkNoticeFailed, Dispatching, TypeOK
<1>6. CASE DispatchStops(n)
  BY <1>6, GotoType DEF DispatchStops, TypeOK
<1> QED
  BY <1>1, <1>2, <1>3, <1>4, <1>5, <1>6 DEF DispatchStep

\* Every step keeps the variables in their types.  It takes RowInv: an UPDATE is of
\* a row that is there.
THEOREM NextType == TypeOK /\ RowInv /\ [Next]_vars => TypeOK'
<1> SUFFICES ASSUME TypeOK, RowInv, [Next]_vars
             PROVE  TypeOK'
  OBVIOUS
<1>1. ASSUME NEW n \in Notices, NEW u \in Users, NEW role \in Roles, Resolved(n, u, role)
      PROVE  TypeOK'
  BY <1>1, FreshType DEF Resolved, TypeOK
<1>2. ASSUME NEW n \in Notices, DispatchStep(n) \/ DispatchStops(n)
      PROVE  TypeOK'
  <2>1. session' = session
    BY <1>2 DEF DispatchStep, Insert, LookupSession, SendNotice, MarkNotice,
                MarkNoticeFailed, DispatchStops
  <2>2. faults' \in 0..MaxFaults
    BY <1>2, MaxFaultsAssumption
       DEF DispatchStep, Insert, LookupSession, SendNotice, MarkNotice,
           MarkNoticeFailed, DispatchStops, TypeOK
  <2> QED
    BY <1>2, <2>1, <2>2, HandlerSteps DEF TypeOK
<1>3. ASSUME NEW u \in Users,
             Start(u) \/ EndSession(u) \/ ChatLogin(u) \/ HttpLogin(u) \/ Expire(u)
      PROVE  TypeOK'
  BY <1>3, FreshType DEF Start, EndSession, ChatLogin, HttpLogin, Expire, TypeOK
<1>4. ASSUME Find
      PROVE  TypeOK'
  BY <1>4, FoundType DEF Find, TypeOK
<1>5. ASSUME SendBatch
      PROVE  TypeOK'
  <2>1. told' \in [Notices -> Nat]
    BY <1>5 DEF SendBatch, ToldAll, TypeOK
  <2>2. flush' \in Flush
    BY <1>5, FlushType DEF SendBatch
  <2> QED
    BY <1>5, <2>1, <2>2 DEF SendBatch, TypeOK
<1>6. ASSUME NEW n \in Notices, MarkBatch(n)
      PROVE  TypeOK'
  <2>1. flush # NoRecord /\ n \in flush.left /\ notice[n] # NoRecord
    BY <1>6, HasRow DEF MarkBatch, IsNextLeft
  <2>2. CASE Mark(n, "delivered") /\ MarkedOne(n)
    BY <1>6, <2>1, <2>2, FlushType, MarkType DEF MarkBatch, TypeOK
  <2>3. CASE /\ flush' = [flush EXCEPT !.pc = "fail", !.left = flush.batch]
             /\ UNCHANGED notice
    <3>1. flush' \in Flush
      BY <2>1, <2>3, FlushType DEF Flush
    <3> QED
      BY <1>6, <2>3, <3>1 DEF MarkBatch, TypeOK
  <2> QED
    BY <1>6, <2>2, <2>3 DEF MarkBatch
<1>7. ASSUME NEW n \in Notices, MarkBatchFailed(n)
      PROVE  TypeOK'
  BY <1>7, HasRow, FlushType, MarkType DEF MarkBatchFailed, IsNextLeft, TypeOK
<1>8. ASSUME FlushStops
      PROVE  TypeOK'
  BY <1>8, MaxFaultsAssumption DEF FlushStops, TypeOK
<1>9. ASSUME UNCHANGED vars
      PROVE  TypeOK'
  BY <1>9 DEF vars, TypeOK
<1> QED
  BY <1>1, <1>2, <1>3, <1>4, <1>5, <1>6, <1>7, <1>8, <1>9 DEF Next, FlushStep

--------------------------------------------------------------------------------
(* What the flush's steps do, as far as a proof needs them.                *)

\* A flush goes on from one batch to the rows of it that are left; it does not touch
\* rows that are not its own, nor the handlers.
LEMMA FlushMoves ==
    ASSUME TypeOK, RowInv, FlushStep \/ FlushStops
    PROVE  /\ flush # NoRecord
           /\ dispatch' = dispatch
           /\ \A n \in Notices : n \notin flush.left => notice'[n] = notice[n]
           /\ \A n \in Notices : (notice'[n] = NoRecord) <=> (notice[n] = NoRecord)
           /\ ~SendBatch => told' = told
<1>1. CASE Find
  BY <1>1 DEF Find, SendBatch
<1>2. CASE SendBatch
  BY <1>2 DEF SendBatch
<1>3. ASSUME NEW n \in Notices, MarkBatch(n)
      PROVE  /\ flush # NoRecord /\ dispatch' = dispatch /\ told' = told
             /\ \A m \in Notices : m \notin flush.left => notice'[m] = notice[m]
             /\ \A m \in Notices : (notice'[m] = NoRecord) <=> (notice[m] = NoRecord)
  <2>1. flush # NoRecord /\ n \in flush.left /\ notice[n] # NoRecord
    BY <1>3, HasRow DEF MarkBatch, IsNextLeft
  <2>2. notice' = notice \/ Mark(n, "delivered")
    BY <1>3 DEF MarkBatch
  <2> QED
    BY <1>3, <2>1, <2>2, MarkType DEF MarkBatch
<1>4. ASSUME NEW n \in Notices, MarkBatchFailed(n)
      PROVE  /\ flush # NoRecord /\ dispatch' = dispatch /\ told' = told
             /\ \A m \in Notices : m \notin flush.left => notice'[m] = notice[m]
             /\ \A m \in Notices : (notice'[m] = NoRecord) <=> (notice[m] = NoRecord)
  <2>1. flush # NoRecord /\ n \in flush.left /\ notice[n] # NoRecord
    BY <1>4, HasRow DEF MarkBatchFailed, IsNextLeft
  <2> QED
    BY <1>4, <2>1, MarkType DEF MarkBatchFailed
<1>5. CASE FlushStops
  BY <1>5 DEF FlushStops, SendBatch
<1> QED
  BY <1>1, <1>2, <1>3, <1>4, <1>5 DEF FlushStep

\* How a flush's step changes the flush itself.
LEMMA FlushNext ==
    ASSUME TypeOK, RowInv, FlushStep \/ FlushStops, flush' # NoRecord
    PROVE  \/ /\ Find /\ flush'.pc = "send" /\ flush'.left = flush'.batch
              /\ flush'.batch \subseteq Pending(flush.user)
           \/ /\ SendBatch /\ flush'.batch = flush.batch /\ flush'.left = flush.left
              /\ flush'.pc = "mark" => ToldAll(flush.batch)
              /\ flush.pc = "send" /\ flush'.pc \in {"mark", "fail"}
           \/ /\ flush.pc \in {"mark", "fail"} /\ flush'.pc \in {flush.pc, "fail"}
              /\ flush'.batch = flush.batch /\ ~SendBatch
              /\ \/ \E n \in flush.left :
                       /\ flush'.left = flush.left \ {n} /\ flush'.pc = flush.pc
                       /\ notice'[n] # NoRecord /\ notice'[n].status # "pending"
                       /\ notice'[n].status = "delivered" => flush.pc = "mark"
                 \/ /\ flush'.left = flush.batch /\ flush'.pc = "fail" /\ notice' = notice
                    /\ flush.pc = "mark"
<1>1. CASE Find
  <2>1. PICK batch \in SUBSET Notices :
           /\ FirstPending(flush.user, batch)
           /\ flush' = IF batch = {} THEN NoRecord
                       ELSE [flush EXCEPT !.pc = "send", !.batch = batch, !.left = batch]
    BY <1>1 DEF Find
  <2>2. flush # NoRecord /\ batch \subseteq Pending(flush.user) /\ batch # {}
    BY <1>1, <2>1 DEF Find, FirstPending
  <2>3. flush \in Flush
    BY <2>2 DEF TypeOK
  <2>4. flush' = [flush EXCEPT !.pc = "send", !.batch = batch, !.left = batch]
    BY <2>1, <2>2
  <2>5. flush'.pc = "send" /\ flush'.batch = batch /\ flush'.left = batch
    BY <2>3, <2>4 DEF Flush
  <2> QED
    BY <1>1, <2>2, <2>5
<1>2. CASE SendBatch
  BY <1>2, FlushType DEF SendBatch
<1>3. ASSUME NEW n \in Notices, MarkBatch(n)
      PROVE  /\ flush.pc = "mark" /\ flush'.pc \in {flush.pc, "fail"}
             /\ flush'.batch = flush.batch /\ ~SendBatch
             /\ \/ /\ n \in flush.left
                   /\ flush'.left = flush.left \ {n} /\ flush'.pc = flush.pc
                   /\ notice'[n] # NoRecord /\ notice'[n].status # "pending"
                \/ /\ flush'.left = flush.batch /\ flush'.pc = "fail" /\ notice' = notice
  <2>1. flush # NoRecord /\ n \in flush.left /\ notice[n] # NoRecord /\ flush.pc = "mark"
    BY <1>3, HasRow DEF MarkBatch, IsNextLeft
  <2>2. CASE Mark(n, "delivered") /\ MarkedOne(n)
    BY <2>1, <2>2, FlushType, MarkType DEF SendBatch
  <2>3. CASE /\ flush' = [flush EXCEPT !.pc = "fail", !.left = flush.batch]
             /\ UNCHANGED notice
    <3>1. flush'.pc = "fail" /\ flush'.left = flush.batch /\ flush'.batch = flush.batch
      BY <2>1, <2>3, FlushType DEF Flush
    <3> QED
      BY <2>1, <2>3, <3>1 DEF SendBatch
  <2> QED
    BY <1>3, <2>2, <2>3 DEF MarkBatch
<1>4. ASSUME NEW n \in Notices, MarkBatchFailed(n)
      PROVE  /\ flush.pc = "fail" /\ flush'.pc = "fail" /\ flush'.batch = flush.batch
             /\ n \in flush.left /\ flush'.left = flush.left \ {n} /\ ~SendBatch
             /\ notice'[n] # NoRecord /\ notice'[n].status = "failed"
  <2>1. flush # NoRecord /\ n \in flush.left /\ notice[n] # NoRecord /\ flush.pc = "fail"
    BY <1>4, HasRow DEF MarkBatchFailed, IsNextLeft
  <2> QED
    BY <1>4, <2>1, FlushType, MarkType DEF MarkBatchFailed, SendBatch
<1>5. CASE FlushStops
  BY <1>5 DEF FlushStops
<1> QED
  BY <1>1, <1>2, <1>3, <1>4, <1>5 DEF FlushStep

\* A row that a flush's step changes is one that the flush had left to mark.
LEMMA FlushMarks ==
    ASSUME TypeOK, RowInv, FlushStep \/ FlushStops, NEW n \in Notices, notice'[n] # notice[n]
    PROVE  /\ n \in flush.left /\ flush.pc \in {"mark", "fail"}
           /\ notice'[n] # NoRecord /\ notice'[n].status # "pending"
           /\ notice'[n].status = "delivered" => flush.pc = "mark"
<1>1. PICK m \in Notices : MarkBatch(m) \/ MarkBatchFailed(m)
  BY DEF FlushStep, FlushStops, Find, SendBatch
<1>2. flush # NoRecord /\ m \in flush.left /\ notice[m] # NoRecord
  BY <1>1, HasRow DEF MarkBatch, MarkBatchFailed, IsNextLeft
<1>3. CASE flush.pc = "mark" /\ Mark(m, "delivered")
  BY <1>2, <1>3, MarkType
<1>4. CASE flush.pc = "fail" /\ Mark(m, "failed")
  BY <1>2, <1>4, MarkType
<1> QED
  BY <1>1, <1>3, <1>4 DEF MarkBatch, MarkBatchFailed

\* How a flush ends.
LEMMA FlushEnd ==
    ASSUME TypeOK, RowInv, FlushStep \/ FlushStops, flush' = NoRecord
    PROVE  \/ Find
           \/ FlushStops
           \/ \E n \in Notices : /\ flush.left = {n} /\ flush.pc \in {"mark", "fail"}
                                 /\ notice'[n] # NoRecord /\ notice'[n].status # "pending"
<1>1. CASE SendBatch
  BY <1>1, FlushType DEF SendBatch
<1>2. ASSUME NEW n \in Notices, MarkBatch(n) \/ MarkBatchFailed(n)
      PROVE  /\ flush.left = {n} /\ flush.pc \in {"mark", "fail"}
             /\ notice'[n] # NoRecord /\ notice'[n].status # "pending"
  <2>1. flush # NoRecord /\ n \in flush.left /\ notice[n] # NoRecord
    BY <1>2, HasRow DEF MarkBatch, MarkBatchFailed, IsNextLeft
  <2>2. [flush EXCEPT !.left = @ \ {n}] # NoRecord
    BY <2>1, AbsentAssumption DEF TypeOK, Flush
  <2>3. [flush EXCEPT !.pc = "fail", !.left = flush.batch] # NoRecord
    BY <2>1, AbsentAssumption DEF TypeOK, Flush
  <2>4. /\ flush.left = {n}
        /\ \/ flush.pc = "mark" /\ Mark(n, "delivered")
           \/ flush.pc = "fail" /\ Mark(n, "failed")
    BY <1>2, <2>2, <2>3 DEF MarkBatch, MarkBatchFailed, MarkedOne
  <2> QED
    BY <2>1, <2>4, MarkType
<1> QED
  BY <1>1, <1>2 DEF FlushStep

--------------------------------------------------------------------------------
(* The parts of the inductive invariant.                                   *)

\* A row is there before anyone works on it, and it is never deleted.
LEMMA NextRowInv == IInv /\ [Next]_vars => RowInv'
<1> SUFFICES ASSUME IInv, [Next]_vars
             PROVE  RowInv'
  OBVIOUS
<1> USE DEF IInv
<1> DEFINE FlushRowsInv ==
        flush # NoRecord =>
          /\ flush.left \subseteq flush.batch
          /\ flush.pc = "send" => flush.left = flush.batch
          /\ \A n \in flush.batch : notice[n] # NoRecord
<1>1. ASSUME NEW n \in Notices, NEW u \in Users, NEW role \in Roles, Resolved(n, u, role)
      PROVE  RowInv'
  <2>1. UNCHANGED <<notice, flush, told>> /\ dispatch[n] = NoRecord
    BY <1>1 DEF Resolved
  <2> QED
    BY <1>1, <2>1, FreshType DEF RowInv
<1>2. ASSUME NEW n \in Notices, DispatchStep(n) \/ DispatchStops(n)
      PROVE  RowInv'
  <2>1. \A m \in Notices \ {n} :
           notice'[m] = notice[m] /\ dispatch'[m] = dispatch[m] /\ told'[m] = told[m]
    BY <1>2, HandlerSteps
  <2>7. flush # NoRecord => flush.batch \subseteq Notices
    BY DEF TypeOK, Flush
  <2>2. CASE Insert(n)
    <3>1. dispatch[n] # NoRecord /\ Goto(n, "lookup") /\ UNCHANGED <<flush, told>>
      BY <2>2 DEF Insert, Dispatching
    <3>2. dispatch'[n] # NoRecord /\ dispatch'[n].pc = "lookup" /\ notice'[n] # NoRecord
      BY <2>2, <3>1, InsertType, GotoType
    <3> QED
      BY <2>1, <2>7, <3>1, <3>2 DEF RowInv
  <2>3. CASE LookupSession(n)
    BY <2>1, <2>3, GotoType DEF RowInv, LookupSession, Dispatching
  <2>4. CASE SendNotice(n)
    <3>1. /\ dispatch[n] # NoRecord /\ notice[n] # NoRecord
          /\ Goto(n, "mark") \/ Goto(n, "fail")
      BY <2>4, HasRow DEF SendNotice, Dispatching
    <3>2. UNCHANGED <<notice, flush>>
      BY <2>4 DEF SendNotice
    <3> QED
      BY <2>1, <3>1, <3>2, GotoType DEF RowInv
  <2>5. CASE MarkNotice(n) \/ MarkNoticeFailed(n)
    <3>1. dispatch[n] # NoRecord /\ notice[n] # NoRecord
      BY <2>5, HasRow DEF MarkNotice, MarkNoticeFailed, Dispatching
    <3>2. notice' = notice \/ Mark(n, "delivered") \/ Mark(n, "failed")
      BY <2>5 DEF MarkNotice, MarkNoticeFailed
    <3>3. notice'[n] # NoRecord
      BY <3>1, <3>2, MarkType
    <3>4. dispatch'[n].pc # "insert" /\ dispatch'[n] # NoRecord
      BY <2>5, <3>1, GotoType DEF MarkNotice, MarkNoticeFailed
    <3>5. UNCHANGED <<flush, told>>
      BY <2>5 DEF MarkNotice, MarkNoticeFailed
    <3> QED
      BY <2>1, <2>7, <3>1, <3>3, <3>4, <3>5 DEF RowInv
  <2>6. CASE DispatchStops(n)
    BY <2>1, <2>6, GotoType DEF RowInv, DispatchStops
  <2> QED
    BY <1>2, <2>2, <2>3, <2>4, <2>5, <2>6 DEF DispatchStep
<1>3. ASSUME NEW u \in Users,
             Start(u) \/ EndSession(u) \/ ChatLogin(u) \/ HttpLogin(u) \/ Expire(u)
      PROVE  RowInv'
  <2>1. UNCHANGED <<notice, dispatch, told>> /\ (flush' = flush \/ StartFlush(u))
    BY <1>3 DEF Start, EndSession, ChatLogin, HttpLogin, Expire
  <2> QED
    BY <2>1, FreshType DEF RowInv
<1>4. ASSUME FlushStep \/ FlushStops
      PROVE  RowInv'
  <2>1. dispatch' = dispatch /\ \A n \in Notices : (notice'[n] = NoRecord) <=> (notice[n] = NoRecord)
    BY <1>4, FlushMoves
  <2>2. \A n \in Notices : notice[n] = NoRecord => told'[n] = 0
    <3>1. CASE SendBatch
      <4>1. \A n \in Notices : notice[n] = NoRecord => n \notin flush.batch
        BY <3>1 DEF SendBatch, RowInv
      <4> QED
        BY <3>1, <4>1 DEF SendBatch, ToldAll, RowInv
    <3>2. CASE ~SendBatch
      BY <1>4, <3>2, FlushMoves DEF RowInv
    <3> QED
      BY <3>1, <3>2
  <2>3. FlushRowsInv'
    <3> SUFFICES ASSUME flush' # NoRecord
                 PROVE  /\ flush'.left \subseteq flush'.batch
                        /\ flush'.pc = "send" => flush'.left = flush'.batch
                        /\ \A n \in flush'.batch : notice'[n] # NoRecord
      OBVIOUS
    <3>1. flush # NoRecord /\ flush \in Flush
      BY <1>4, FlushMoves DEF TypeOK
    <3>2. flush'.batch = flush.batch \/ flush'.batch \subseteq Pending(flush.user)
      BY <1>4, FlushNext
    <3>3. \A n \in flush'.batch : n \in Notices /\ notice[n] # NoRecord
      BY <3>1, <3>2 DEF Pending, IsPending, RowInv, Flush
    <3>4. flush'.left \subseteq flush'.batch
      BY <1>4, <3>1, FlushNext DEF RowInv
    <3>5. flush'.pc = "send" => flush'.left = flush'.batch
      BY <1>4, FlushNext
    <3> QED
      BY <2>1, <3>3, <3>4, <3>5
  <2> QED
    BY <2>1, <2>2, <2>3 DEF RowInv
<1>5. ASSUME UNCHANGED vars
      PROVE  RowInv'
  BY <1>5 DEF vars, RowInv
<1> QED
  BY <1>1, <1>2, <1>3, <1>4, <1>5 DEF Next

\* Between a message and its mark nobody forgets that the message was sent.
LEMMA NextMarkInv == IInv /\ [Next]_vars => MarkInv'
<1> SUFFICES ASSUME IInv, [Next]_vars
             PROVE  MarkInv'
  OBVIOUS
<1> USE DEF IInv
<1>1. ASSUME NEW n \in Notices, NEW u \in Users, NEW role \in Roles, Resolved(n, u, role)
      PROVE  MarkInv'
  <2>1. UNCHANGED <<flush, told>>
    BY <1>1 DEF Resolved
  <2> QED
    BY <1>1, <2>1, FreshType DEF MarkInv, Dispatching
<1>2. ASSUME NEW n \in Notices, DispatchStep(n) \/ DispatchStops(n)
      PROVE  MarkInv'
  <2>1. /\ \A m \in Notices \ {n} : dispatch'[m] = dispatch[m] /\ told'[m] = told[m]
        /\ flush' = flush /\ told' \in [Notices -> Nat]
    BY <1>2, HandlerSteps
  <2>2. told'[n] >= told[n]
    BY <1>2 DEF DispatchStep, Insert, LookupSession, SendNotice, MarkNotice,
                MarkNoticeFailed, DispatchStops, TypeOK
  <2>3. dispatch'[n].pc = "mark" => told'[n] > 0
    <3>1. CASE SendNotice(n)
      BY <3>1, GotoType DEF SendNotice, Dispatching, TypeOK
    <3>2. CASE ~SendNotice(n)
      BY <1>2, <3>2, GotoType
         DEF DispatchStep, Insert, LookupSession, MarkNotice, MarkNoticeFailed,
             DispatchStops, Dispatching
    <3> QED
      BY <3>1, <3>2
  <2>4. \A m \in Notices : told[m] > 0 => told'[m] > 0
    BY <2>1, <2>2 DEF TypeOK
  <2>5. flush # NoRecord => flush.batch \subseteq Notices
    BY DEF TypeOK, Flush
  <2> QED
    BY <2>1, <2>3, <2>4, <2>5 DEF MarkInv, Dispatching
<1>3. ASSUME NEW u \in Users,
             Start(u) \/ EndSession(u) \/ ChatLogin(u) \/ HttpLogin(u) \/ Expire(u)
      PROVE  MarkInv'
  <2>1. UNCHANGED <<dispatch, told>> /\ (flush' = flush \/ StartFlush(u))
    BY <1>3 DEF Start, EndSession, ChatLogin, HttpLogin, Expire
  <2> QED
    BY <2>1, FreshType DEF MarkInv, Dispatching
<1>4. ASSUME FlushStep \/ FlushStops
      PROVE  MarkInv'
  <2>1. dispatch' = dispatch /\ flush \in Flush /\ flush # NoRecord
    BY <1>4, FlushMoves DEF TypeOK
  <2>2. \A n \in Notices : told[n] > 0 => told'[n] > 0
    <3>1. CASE SendBatch
      BY <3>1 DEF SendBatch, ToldAll, TypeOK
    <3>2. CASE ~SendBatch
      BY <1>4, <3>2, FlushMoves
    <3> QED
      BY <3>1, <3>2
  <2>3. ASSUME flush' # NoRecord, flush'.pc = "mark", NEW n \in flush'.batch
        PROVE  told'[n] > 0
    <3>1. flush'.batch = flush.batch /\ n \in Notices
      BY <1>4, <2>1, <2>3, FlushNext DEF Flush
    <3>2. CASE ToldAll(flush.batch)
      BY <3>1, <3>2 DEF ToldAll, TypeOK
    <3>3. CASE flush.pc = "mark"
      BY <2>1, <2>2, <3>1, <3>3 DEF MarkInv
    <3> QED
      BY <1>4, <2>3, <3>2, <3>3, FlushNext
  <2> QED
    BY <2>1, <2>2, <2>3 DEF MarkInv, Dispatching
<1>5. ASSUME UNCHANGED vars
      PROVE  MarkInv'
  BY <1>5 DEF vars, MarkInv, Dispatching
<1> QED
  BY <1>1, <1>2, <1>3, <1>4, <1>5 DEF Next

\* What a step of a handler adds to the count of its notice is covered by ByDispatch,
\* and no row becomes pending again.
LEMMA HandlerTells ==
    ASSUME IInv, NEW n \in Notices, DispatchStep(n) \/ DispatchStops(n)
    PROVE  /\ told'[n] - told[n] <= ByDispatch(n)' - ByDispatch(n)
           /\ IsPending(n)' => IsPending(n) \/ (told[n] = 0 /\ told'[n] = 0)
           /\ faults' \in Nat /\ faults <= faults'
<1> USE DEF IInv
<1>1. told[n] \in Nat /\ faults \in Nat
  BY MaxFaultsAssumption DEF TypeOK
<1>2. CASE Insert(n)
  <2>1. dispatch[n] # NoRecord /\ dispatch[n].pc = "insert" /\ told[n] = 0
    BY <1>2 DEF Insert, Dispatching, RowInv
  <2> QED
    BY <1>1, <1>2, <2>1, GotoType DEF Insert, ByDispatch
<1>3. CASE LookupSession(n)
  BY <1>1, <1>3, GotoType DEF LookupSession, Dispatching, ByDispatch, IsPending
<1>4. CASE SendNotice(n)
  <2>1. /\ dispatch[n] # NoRecord /\ dispatch[n].pc = "send"
        /\ Goto(n, "mark") \/ Goto(n, "fail")
    BY <1>4 DEF SendNotice, Dispatching
  <2>2. ByDispatch(n) = 0 /\ ByDispatch(n)' = 1
    BY <2>1, GotoType DEF ByDispatch
  <2>3. told'[n] <= told[n] + 1
    BY <1>1, <1>4 DEF SendNotice, TypeOK
  <2>4. notice' = notice /\ faults' = faults /\ told'[n] \in Nat
    BY <1>1, <1>4, HandlerSteps DEF SendNotice, DispatchStep
  <2> QED
    BY <1>1, <2>2, <2>3, <2>4 DEF IsPending
<1>5. CASE MarkNotice(n) \/ MarkNoticeFailed(n)
  <2>1. dispatch[n] # NoRecord /\ notice[n] # NoRecord /\ dispatch[n].pc \in {"mark", "fail"}
    BY <1>5, HasRow DEF MarkNotice, MarkNoticeFailed, Dispatching
  <2>2. notice' = notice \/ Mark(n, "delivered") \/ Mark(n, "failed")
    BY <1>5 DEF MarkNotice, MarkNoticeFailed
  <2>3. Goto(n, "fail") \/ Goto(n, "done")
    BY <1>5 DEF MarkNotice, MarkNoticeFailed
  <2>4. ByDispatch(n) = 1 /\ ByDispatch(n)' = 1
    BY <2>1, <2>3, GotoType DEF ByDispatch
  <2>5. IsPending(n)' => IsPending(n)
    BY <2>1, <2>2, MarkType DEF IsPending
  <2>6. told' = told /\ faults' = faults
    BY <1>5 DEF MarkNotice, MarkNoticeFailed
  <2> QED
    BY <1>1, <2>4, <2>5, <2>6
<1>6. CASE DispatchStops(n)
  BY <1>1, <1>6, GotoType DEF DispatchStops, ByDispatch, IsPending
<1> QED
  BY <1>2, <1>3, <1>4, <1>5, <1>6 DEF DispatchStep

\* A flush sends a row that was told by its handler alone, and leaves none that it has
\* sent and that could be sent again, unless it is stopped.
LEMMA NextToldInv == IInv /\ [Next]_vars => ToldInv'
<1> SUFFICES ASSUME IInv, [Next]_vars
             PROVE  ToldInv'
  OBVIOUS
<1> USE DEF IInv
<1>0. /\ \A n \in Notices : told[n] \in Nat /\ ByDispatch(n) \in {0, 1} /\ ByDispatch(n)' \in {0, 1}
      /\ faults \in Nat
  BY MaxFaultsAssumption DEF TypeOK, ByDispatch
<1>1. ASSUME NEW n \in Notices, NEW u \in Users, NEW role \in Roles, Resolved(n, u, role)
      PROVE  ToldInv'
  <2>1. UNCHANGED <<notice, flush, told, faults>> /\ dispatch[n] = NoRecord
    BY <1>1 DEF Resolved
  <2>2. \A m \in Notices : ByDispatch(m) <= ByDispatch(m)'
    BY <1>0, <1>1, <2>1, FreshType DEF ByDispatch
  <2> QED
    BY <1>0, <2>1, <2>2 DEF ToldInv, IsPending, IsBeingMarked, IsBeingSent
<1>2. ASSUME NEW n \in Notices, DispatchStep(n) \/ DispatchStops(n)
      PROVE  ToldInv'
  <2>1. /\ \A m \in Notices \ {n} :
              notice'[m] = notice[m] /\ dispatch'[m] = dispatch[m] /\ told'[m] = told[m]
        /\ flush' = flush /\ \A m \in Notices : told'[m] \in Nat
    BY <1>2, HandlerSteps
  <2>2. /\ told'[n] - told[n] <= ByDispatch(n)' - ByDispatch(n)
        /\ IsPending(n)' => IsPending(n) \/ (told[n] = 0 /\ told'[n] = 0)
        /\ faults' \in Nat /\ faults <= faults'
    BY <1>2, HandlerTells
  <2>3. ASSUME NEW m \in Notices \ {n}
        PROVE  /\ IsPending(m)' <=> IsPending(m)
               /\ ByDispatch(m)' = ByDispatch(m)
    BY <2>1 DEF IsPending, ByDispatch
  <2>4. ASSUME NEW m \in Notices
        PROVE  (IsBeingMarked(m)' <=> IsBeingMarked(m)) /\ (IsBeingSent(m)' <=> IsBeingSent(m))
    BY <2>1 DEF IsBeingMarked, IsBeingSent
  <2>5. ASSUME NEW m \in Notices
        PROVE  /\ told'[m] <= ByDispatch(m)' + 1 + faults'
               /\ (IsPending(m)' /\ ~IsBeingMarked(m)') \/ IsBeingSent(m)' =>
                     told'[m] <= ByDispatch(m)' + faults'
    <3>1. CASE m = n
      BY <1>0, <2>1, <2>2, <2>4, <3>1 DEF ToldInv
    <3>2. CASE m # n
      BY <1>0, <2>1, <2>2, <2>3, <2>4, <3>2 DEF ToldInv
    <3> QED
      BY <3>1, <3>2
  <2> QED
    BY <2>5 DEF ToldInv
<1>3. ASSUME NEW u \in Users,
             Start(u) \/ EndSession(u) \/ ChatLogin(u) \/ HttpLogin(u) \/ Expire(u)
      PROVE  ToldInv'
  <2>1. /\ UNCHANGED <<notice, dispatch, told, faults>>
        /\ flush' = flush \/ (flush = NoRecord /\ StartFlush(u))
    BY <1>3 DEF Start, EndSession, ChatLogin, HttpLogin, Expire
  <2> QED
    BY <1>0, <2>1, FreshType DEF ToldInv, IsPending, ByDispatch, IsBeingMarked, IsBeingSent
<1>4. ASSUME FlushStep \/ FlushStops
      PROVE  ToldInv'
  <2>1. /\ flush # NoRecord /\ flush \in Flush
        /\ \A n \in Notices : ByDispatch(n)' = ByDispatch(n)
    BY <1>4, FlushMoves DEF ByDispatch, TypeOK
  <2>2. /\ faults' \in Nat /\ faults <= faults'
        /\ FlushStops => faults' = faults + 1
    <3>1. FlushStep => faults' = faults
      BY DEF FlushStep, Find, SendBatch, MarkBatch, MarkBatchFailed
    <3>2. FlushStops => faults' = faults + 1
      BY DEF FlushStops
    <3>3. CASE FlushStep /\ FlushStops
      BY <1>0, <3>1, <3>2, <3>3
    <3> QED
      BY <1>0, <1>4, <3>1, <3>2, <3>3
  <2>3. \A n \in Notices : notice'[n] # notice[n] => ~IsPending(n)'
    BY <1>4, FlushMarks DEF IsPending
  <2>4. CASE SendBatch
    <3>1. /\ flush.pc = "send" /\ faults' = faults /\ notice' = notice
          /\ flush' # NoRecord /\ flush'.pc \in {"mark", "fail"}
          /\ flush'.left = flush.left
          /\ told' = told \/ ToldAll(flush.batch)
      BY <2>1, <2>4, FlushType DEF SendBatch
    <3>2. ASSUME NEW n \in Notices
          PROVE  /\ told'[n] <= ByDispatch(n) + 1 + faults
                 /\ IsPending(n) /\ n \notin flush.left => told'[n] <= ByDispatch(n) + faults
      <4>1. CASE n \in flush.batch
        <5>1. told[n] <= ByDispatch(n) + faults
          BY <2>1, <3>1, <4>1 DEF ToldInv, IsBeingSent
        <5>2. told'[n] <= told[n] + 1
          BY <1>0, <3>1 DEF ToldAll
        <5>3. n \in flush.left
          BY <2>1, <3>1, <4>1 DEF RowInv
        <5> QED
          BY <1>0, <5>1, <5>2, <5>3, <3>1 DEF ToldAll
      <4>2. CASE n \notin flush.batch
        <5>1. told'[n] = told[n]
          BY <3>1, <4>2 DEF ToldAll
        <5>2. ~IsBeingMarked(n)
          BY <3>1 DEF IsBeingMarked
        <5> QED
          BY <5>1, <5>2 DEF ToldInv
      <4> QED
        BY <4>1, <4>2
    <3>3. ASSUME NEW n \in Notices
          PROVE  ~IsBeingSent(n)' /\ (IsBeingMarked(n)' <=> n \in flush.left)
      BY <3>1 DEF IsBeingSent, IsBeingMarked
    <3>4. \A n \in Notices : IsPending(n)' <=> IsPending(n)
      BY <3>1 DEF IsPending
    <3>5. ASSUME NEW n \in Notices
          PROVE  /\ told'[n] <= ByDispatch(n)' + 1 + faults'
                 /\ (IsPending(n)' /\ ~IsBeingMarked(n)') \/ IsBeingSent(n)' =>
                       told'[n] <= ByDispatch(n)' + faults'
      <4>1. ByDispatch(n)' = ByDispatch(n) /\ faults' = faults
        BY <2>1, <3>1
      <4>2. told'[n] <= ByDispatch(n)' + 1 + faults'
        BY <3>2, <4>1
      <4>3. ASSUME IsPending(n)', ~IsBeingMarked(n)'
            PROVE  told'[n] <= ByDispatch(n)' + faults'
        <5>1. IsPending(n) /\ n \notin flush.left
          BY <3>3, <3>4, <4>3
        <5> QED
          BY <3>2, <4>1, <5>1
      <4> QED
        BY <3>3, <4>2, <4>3
    <3> QED
      BY <3>5 DEF ToldInv
  <2>5. CASE ~SendBatch
    <3>1. told' = told
      BY <1>4, <2>5, FlushMoves
    <3>2. \A n \in Notices : told'[n] <= ByDispatch(n)' + 1 + faults'
      BY <1>0, <2>1, <2>2, <3>1 DEF ToldInv
    <3>3. ASSUME NEW n \in Notices, IsPending(n)', ~IsBeingMarked(n)'
          PROVE  told'[n] <= ByDispatch(n)' + faults'
      <4>1. IsPending(n) /\ notice'[n] = notice[n]
        BY <2>3, <3>3 DEF IsPending
      <4>2. CASE FlushStops
        BY <1>0, <2>1, <2>2, <3>1, <4>2 DEF ToldInv
      <4>3. CASE ~IsBeingMarked(n)
        BY <1>0, <2>1, <2>2, <3>1, <4>1, <4>3 DEF ToldInv
      <4>4. CASE IsBeingMarked(n) /\ ~FlushStops
        <5>1. n \in flush.left /\ flush.pc \in {"mark", "fail"} /\ n \in flush.batch
          BY <2>1, <4>4 DEF IsBeingMarked, RowInv
        <5>2. ~Find
          BY <5>1 DEF Find
        <5>3. flush' # NoRecord
          BY <1>4, <3>3, <4>4, <5>1, <5>2, FlushEnd DEF IsPending
        <5>4. n \in flush'.left /\ flush'.pc \in {"mark", "fail"}
          BY <1>4, <2>5, <3>3, <5>1, <5>2, <5>3, FlushNext DEF IsPending
        <5> QED
          BY <3>3, <5>3, <5>4 DEF IsBeingMarked
      <4> QED
        BY <4>2, <4>3, <4>4
    <3>4. ASSUME NEW n \in Notices, IsBeingSent(n)'
          PROVE  told'[n] <= ByDispatch(n)' + faults'
      <4>1. flush' # NoRecord /\ flush'.pc = "send" /\ n \in flush'.batch
        BY <3>4 DEF IsBeingSent
      <4>2. Find /\ n \in Pending(flush.user)
        BY <1>4, <2>5, <4>1, FlushNext
      <4>3. IsPending(n) /\ ~IsBeingMarked(n)
        BY <4>2 DEF Find, Pending, IsBeingMarked
      <4> QED
        BY <1>0, <2>1, <2>2, <3>1, <4>3 DEF ToldInv
    <3> QED
      BY <3>2, <3>3, <3>4 DEF ToldInv
  <2> QED
    BY <2>4, <2>5
<1>5. ASSUME UNCHANGED vars
      PROVE  ToldInv'
  BY <1>5 DEF vars, ToldInv, IsPending, ByDispatch, IsBeingMarked, IsBeingSent
<1> QED
  BY <1>1, <1>2, <1>3, <1>4, <1>5 DEF Next

\* A row becomes "delivered" by the hand of one who sent its notice.
LEMMA NextDeliveredWasTold == IInv /\ [Next]_vars => DeliveredWasTold'
<1> SUFFICES ASSUME IInv, [Next]_vars
             PROVE  DeliveredWasTold'
  OBVIOUS
<1> USE DEF IInv
<1>1. ASSUME NEW n \in Notices, DispatchStep(n) \/ DispatchStops(n)
      PROVE  DeliveredWasTold'
  <2>1. \A m \in Notices \ {n} : notice'[m] = notice[m] /\ told'[m] = told[m]
    BY <1>1, HandlerSteps
  <2>2. told[n] \in Nat /\ told'[n] \in Nat /\ (told[n] > 0 => told'[n] > 0)
    BY <1>1 DEF DispatchStep, Insert, LookupSession, SendNotice, MarkNotice,
                MarkNoticeFailed, DispatchStops, TypeOK
  <2>3. CASE Insert(n)
    BY <2>1, <2>3, InsertType DEF DeliveredWasTold
  <2>4. CASE MarkNotice(n)
    <3>1. told[n] > 0
      BY <2>4 DEF MarkNotice, MarkInv
    <3> QED
      BY <2>1, <2>2, <3>1 DEF DeliveredWasTold
  <2>5. CASE MarkNoticeFailed(n)
    <3>1. notice[n] # NoRecord
      BY <2>5, HasRow DEF MarkNoticeFailed
    <3>2. notice'[n].status = "failed"
      BY <2>5, <3>1, MarkType DEF MarkNoticeFailed
    <3> QED
      BY <2>1, <3>2 DEF DeliveredWasTold
  <2>6. CASE LookupSession(n) \/ SendNotice(n) \/ DispatchStops(n)
    <3>1. notice' = notice
      BY <2>6 DEF LookupSession, SendNotice, DispatchStops
    <3> QED
      BY <2>1, <2>2, <3>1 DEF DeliveredWasTold
  <2> QED
    BY <1>1, <2>3, <2>4, <2>5, <2>6 DEF DispatchStep
<1>2. ASSUME FlushStep \/ FlushStops
      PROVE  DeliveredWasTold'
  <2>1. flush \in Flush /\ flush # NoRecord
    BY <1>2, FlushMoves DEF TypeOK
  <2>2. \A n \in Notices : told[n] > 0 => told'[n] > 0
    <3>1. CASE SendBatch
      BY <3>1 DEF SendBatch, ToldAll, TypeOK
    <3>2. CASE ~SendBatch
      BY <1>2, <3>2, FlushMoves
    <3> QED
      BY <3>1, <3>2
  <2>3. ASSUME NEW n \in Notices, notice'[n] # NoRecord, notice'[n].status = "delivered"
        PROVE  told[n] > 0
    <3>1. CASE notice'[n] = notice[n]
      BY <2>3, <3>1 DEF DeliveredWasTold
    <3>2. CASE notice'[n] # notice[n]
      <4>1. n \in flush.left /\ flush.pc = "mark"
        BY <1>2, <2>3, <3>2, FlushMarks
      <4> QED
        BY <2>1, <4>1 DEF MarkInv, RowInv
    <3> QED
      BY <3>1, <3>2
  <2> QED
    BY <2>2, <2>3 DEF DeliveredWasTold
<1>3. ASSUME UNCHANGED <<notice, told>>
      PROVE  DeliveredWasTold'
  BY <1>3 DEF DeliveredWasTold
<1> QED
  BY <1>1, <1>2, <1>3
     DEF Next, Resolved, Start, EndSession, ChatLogin, HttpLogin, Expire, vars

--------------------------------------------------------------------------------
(* The theorems.                                                           *)

\* The invariant holds of an empty table.
LEMMA InitIInv == Init => IInv
<1> SUFFICES ASSUME Init
             PROVE  IInv
  OBVIOUS
<1>1. TypeOK
  BY MaxFaultsAssumption DEF Init, TypeOK
<1>2. RowInv /\ MarkInv /\ DeliveredWasTold
  BY DEF Init, RowInv, MarkInv, DeliveredWasTold, Dispatching
<1>3. ToldInv
  BY DEF Init, ToldInv, ByDispatch, IsPending, IsBeingMarked, IsBeingSent
<1> QED
  BY <1>1, <1>2, <1>3 DEF IInv

\* The invariant is inductive.
LEMMA NextIInv == IInv /\ [Next]_vars => IInv'
BY NextType, NextRowInv, NextMarkInv, NextToldInv, NextDeliveredWasTold DEF IInv

\* The inductive invariant holds of every reachable state, however many notices,
\* handlers and faults there are and whatever the limit of a flush.
THEOREM Invariance == Spec => []IInv
BY InitIInv, NextIInv, PTL DEF Spec

\* The variables keep their types.
THEOREM TypeCorrect == Spec => []TypeOK
<1>1. IInv => TypeOK
  BY DEF IInv
<1> QED
  BY <1>1, Invariance, PTL

\* A row says "delivered" only if its recipient has got the notice.
THEOREM DeliveredIsTold == Spec => []DeliveredWasTold
<1>1. IInv => DeliveredWasTold
  BY DEF IInv
<1> QED
  BY <1>1, Invariance, PTL

\* A recipient is told of a transfer twice at most, and once more for every fault.
THEOREM TellingsAreBounded == Spec => []TellingsBounded
<1>1. IInv => TellingsBounded
  <2> SUFFICES ASSUME IInv, NEW n \in Notices
               PROVE  told[n] <= 2 + faults
    BY DEF TellingsBounded
  <2>1. told[n] \in Nat /\ faults \in Nat
    BY MaxFaultsAssumption DEF IInv, TypeOK
  <2>2. told[n] <= ByDispatch(n) + 1 + faults /\ ByDispatch(n) \in {0, 1}
    BY DEF IInv, ToldInv, ByDispatch
  <2> QED
    BY <2>1, <2>2
<1> QED
  BY <1>1, Invariance, PTL
================================================================================
