----------------------------- MODULE AccountsProofs -----------------------------
(***************************************************************************)
(* What holds of the tables of users, sessions and profiles however many   *)
(* sign-ins and approvals run at the same time, for every set of           *)
(* identities, e-mails, chats and calls.                                   *)
(***************************************************************************)
EXTENDS Accounts, FiniteSetTheorems, TLAPS

-----------------------------------------------------------------------------
(* The inductive invariant *)

\* What the unique index on privy_did keeps.
Unique == \A did \in Identities : \A u, v \in OwnersOf(did) : u = v

\* After the session is written the login is decided.
Decided == {"chat", "welcome", "profile", "request", "ok"}

\* What a call knows at each step.
KnowsInv(c) ==
    /\ call[c].at = "idle" => call[c].email = NoRecord
    /\ call[c].at \in LoginSteps => call[c].did \in Identities /\ call[c].email \in Users
    /\ call[c].at \in ApprovalSteps =>
          /\ call[c].did \in Identities /\ call[c].email = NoRecord
          /\ call[c].user \in Users /\ call[c].setup \in Setups
    /\ call[c].at \in LoginSteps \ {"session", "did", "email", "create"} =>
          call[c].user \in Users
    /\ call[c].at \in {"session", "account", "chat"} => call[c].chat \in Chats

\* While a call is alone, nothing else is being handled.
LoneInv(c) == Active(c) /\ call[c].alone => \A o \in Calls \ {c} : ~Active(o)

\* What a lone login has read is still so when it acts on it.
LoginInv(c) ==
    call[c].alone /\ call[c].email # NoRecord =>
      LET owners == OwnersOf(call[c].did)
          at == call[c].at
          user == call[c].user
          chat == call[c].chat
      IN /\ at = "account" => session[chat] = user
         /\ at = "link" => owners = {} \/ (chat # NoRecord /\ session[chat] = user)
         /\ at \in {"email", "create"} => owners = {}
         /\ at = "create" => privyDid[call[c].email] = NoRecord
         /\ at = "upsert" => owners = {user}
         /\ at \in Decided => owners = {user} /\ (chat # NoRecord => session[chat] = user)
         /\ at = "failed" /\ ~call[c].faulted =>
              chat # NoRecord /\ owners # {} /\ session[chat] \notin owners \cup {NoRecord}

\* The chat that an approval has read is the one of the row, until another call
\* changes it.
WriteInv(c) ==
    call[c].at = "write" /\ ~call[c].crossed /\ profile[call[c].user] # NoRecord
      => call[c].read # NoRecord /\ call[c].read.chat = profile[call[c].user].chat

CallInv(c) == KnowsInv(c) /\ LoneInv(c) /\ LoginInv(c) /\ WriteInv(c)

IInv == TypeOK /\ Unique /\ \A c \in Calls : CallInv(c)

-----------------------------------------------------------------------------
(* Lemmas about the accounts *)

LEMMA AtMostOneOwner ==
    ASSUME Unique, NEW did \in Identities
    PROVE  Cardinality(OwnersOf(did)) <= 1
  <1>1. CASE OwnersOf(did) = {}
    BY <1>1, FS_EmptySet
  <1>2. CASE OwnersOf(did) # {}
    <2>1. PICK u \in Users : OwnersOf(did) = {u}
      BY <1>2 DEF Unique, OwnersOf
    <2>2. Cardinality({u}) = 1
      BY FS_Singleton
    <2>3. Cardinality(OwnersOf(did)) = 1
      BY <2>1, <2>2
    <2> QED
      BY <2>3
  <1> QED
    BY <1>1, <1>2

OneOwnerEach == \A did \in Identities : Cardinality(OwnersOf(did)) <= 1

LEMMA OwnersCounted == (Unique => OneOwnerEach) /\ (Unique => OneOwnerEach)'
  <1>1. Unique => OneOwnerEach
    BY AtMostOneOwner DEF OneOwnerEach
  <1> QED
    BY <1>1, PTL

\* An identity is given to an account when no other account has it.
LEMMA LinkKeepsUnique ==
    ASSUME privyDid \in [Users -> Identities \cup {NoRecord}], Unique,
           NEW u \in Users, NEW did \in Identities, OwnersOf(did) \subseteq {u},
           privyDid' = [privyDid EXCEPT ![u] = did]
    PROVE  Unique' /\ {v \in Users : privyDid'[v] = did} = {u}
  BY DEF Unique, OwnersOf

\* The owner of an identity is its only one.
LEMMA SoleOwner ==
    ASSUME Unique, NEW u \in Users, NEW did \in Identities, privyDid[u] = did
    PROVE  OwnersOf(did) = {u}
  BY DEF Unique, OwnersOf

-----------------------------------------------------------------------------
(* Lemmas about the calls *)

Places == LoginSteps \cup ApprovalSteps \cup {"idle", "ok", "failed"}

\* The call c is at another place, for the account u; all else of it stays.
Moved(c, at, u) ==
    /\ call'[c].at = at /\ call'[c].user = u
    /\ call'[c].did = call[c].did /\ call'[c].email = call[c].email
    /\ call'[c].chat = call[c].chat /\ call'[c].setup = call[c].setup
    /\ call'[c].alone = call[c].alone /\ call'[c].faulted = call[c].faulted

Others(c) == \A o \in Calls \ {c} : call'[o] = call[o]

LEMMA GoesForMoves ==
    ASSUME call \in [Calls -> Call], NEW c \in Calls, NEW at \in Places,
           NEW u \in Users \cup {NoRecord}, GoesFor(c, at, u)
    PROVE  call' \in [Calls -> Call] /\ Moved(c, at, u) /\ Others(c)
  <1>1. call[c] \in Call
    OBVIOUS
  <1>2. [call[c] EXCEPT !.at = at, !.user = u] \in Call
    BY <1>1 DEF Call, Places
  <1>3. call' = [call EXCEPT ![c] = [call[c] EXCEPT !.at = at, !.user = u]]
    BY DEF GoesFor
  <1> QED
    BY <1>1, <1>2, <1>3 DEF Moved, Others, Call

LEMMA GoesMoves ==
    ASSUME call \in [Calls -> Call], NEW c \in Calls, NEW at \in Places, Goes(c, at)
    PROVE  call' \in [Calls -> Call] /\ Moved(c, at, call[c].user) /\ Others(c)
  <1>1. call[c] \in Call
    OBVIOUS
  <1>2. [call[c] EXCEPT !.at = at] \in Call
    BY <1>1 DEF Call, Places
  <1>3. call' = [call EXCEPT ![c] = [call[c] EXCEPT !.at = at]]
    BY DEF Goes
  <1> QED
    BY <1>1, <1>2, <1>3 DEF Moved, Others, Call

\* While c is handled, no other call that is handled is alone; so what c does
\* concerns the row an approval has read, and nothing else of another call.
LEMMA NobodyElseAlone ==
    ASSUME IInv, NEW c \in Calls, Active(c), NEW o \in Calls \ {c},
           call'[o].at = call[o].at, call'[o].user = call[o].user,
           call'[o].did = call[o].did, call'[o].email = call[o].email,
           call'[o].chat = call[o].chat, call'[o].setup = call[o].setup,
           call'[o].alone = call[o].alone
    PROVE  KnowsInv(o)' /\ LoneInv(o)' /\ LoginInv(o)'
  <1>1. KnowsInv(o) /\ LoneInv(o)
    BY DEF IInv, CallInv
  <1>2. Active(o) => ~call[o].alone
    BY <1>1 DEF LoneInv
  <1>3. KnowsInv(o)'
    BY <1>1 DEF KnowsInv
  <1>4. LoneInv(o)'
    BY <1>2 DEF LoneInv, Active
  <1>5. LoginInv(o)'
    BY <1>1, <1>2 DEF LoginInv, Active, KnowsInv
  <1> QED
    BY <1>3, <1>4, <1>5

\* A step of c that leaves the profiles alone keeps the invariant when it keeps
\* what concerns c.
LEMMA StepKeeps ==
    ASSUME IInv, NEW c \in Calls, Active(c), Others(c), UNCHANGED profile,
           call'[c].alone = call[c].alone,
           TypeOK', Unique', KnowsInv(c)', LoginInv(c)', WriteInv(c)'
    PROVE  IInv'
  <1>1. ASSUME NEW o \in Calls \ {c} PROVE CallInv(o)'
    <2>1. call'[o] = call[o]
      BY DEF Others
    <2>2. KnowsInv(o)' /\ LoneInv(o)' /\ LoginInv(o)'
      BY <2>1, NobodyElseAlone
    <2>3. WriteInv(o)'
      BY <2>1 DEF WriteInv, IInv, CallInv
    <2> QED
      BY <2>2, <2>3 DEF CallInv
  <1>2. LoneInv(c)'
    BY DEF LoneInv, IInv, CallInv, Active, Others
  <1> QED
    BY <1>1, <1>2 DEF IInv, CallInv

\* The tables keep their types when they do not change.
LEMMA TablesKept ==
    ASSUME TypeOK, UNCHANGED tables, UNCHANGED made, faults' \in 0..MaxFaults,
           call' \in [Calls -> Call]
    PROVE  TypeOK'
  BY DEF TypeOK, tables, OwnersOf

LEMMA UniqueKept == ASSUME Unique, UNCHANGED privyDid PROVE Unique'
  BY DEF Unique, OwnersOf

-----------------------------------------------------------------------------
(* The steps of a login *)

LEMMA InitInv == Init => IInv
  <1> SUFFICES ASSUME Init PROVE IInv
    OBVIOUS
  <1>1. ASSUME NEW did \in Identities PROVE OwnersOf(did) = {}
    BY RecordAssumption DEF Init, OwnersOf
  <1>2. Unique
    BY <1>1 DEF Unique
  <1>3. NewCall \in Call
    BY DEF NewCall, Call
  <1>4. TypeOK
    BY <1>2, <1>3, AtMostOneOwner, BoundAssumption DEF Init, TypeOK
  <1>5. ASSUME NEW c \in Calls PROVE CallInv(c)
    <2>1. call[c].at = "idle" /\ call[c].email = NoRecord
      BY DEF Init, NewCall
    <2> QED
      BY <2>1 DEF CallInv, KnowsInv, LoneInv, LoginInv, WriteInv, Active, LoginSteps,
                  ApprovalSteps, Decided
  <1> QED
    BY <1>2, <1>4, <1>5 DEF IInv

\* A step of c to another place, that changes no table.
LEMMA QuietStep ==
    ASSUME IInv, NEW c \in Calls, Active(c), NEW at \in Places,
           NEW u \in Users \cup {NoRecord},
           call' \in [Calls -> Call], Moved(c, at, u), Others(c),
           UNCHANGED <<tables, made, faults>>, KnowsInv(c)', LoginInv(c)', at # "write"
    PROVE  IInv'
  <1>1. TypeOK'
    BY TablesKept DEF IInv, TypeOK
  <1>2. Unique'
    BY UniqueKept DEF IInv, tables
  <1>3. WriteInv(c)' /\ UNCHANGED profile /\ call'[c].alone = call[c].alone
    BY DEF WriteInv, Moved, tables
  <1> QED
    BY <1>1, <1>2, <1>3, StepKeeps

LEMMA LoginStep ==
    ASSUME IInv, NEW c \in Calls,
           FindByChatId(c) \/ FindById(c) \/ FindByPrivyDid(c) \/ FindByEmail(c)
    PROVE  IInv'
  <1>1. KnowsInv(c) /\ LoginInv(c) /\ TypeOK /\ Unique
    BY DEF IInv, CallInv
  <1>2. CASE FindByChatId(c)
    <2> DEFINE u == session[call[c].chat]
    <2>1. call[c].at = "session" /\ Active(c) /\ call[c].chat \in Chats
      BY <1>1, <1>2 DEF FindByChatId, Active, KnowsInv
    <2>2. CASE u = NoRecord
      <3>1. call' \in [Calls -> Call] /\ Moved(c, "did", call[c].user) /\ Others(c)
        BY <1>1, <1>2, <2>2, GoesMoves DEF FindByChatId, Places, LoginSteps, TypeOK
      <3>2. KnowsInv(c)' /\ LoginInv(c)'
        BY <1>1, <2>1, <3>1
           DEF Moved, KnowsInv, LoginInv, LoginSteps, ApprovalSteps, Decided
      <3>3. call[c].user \in Users \cup {NoRecord}
        BY <1>1 DEF TypeOK, Call
      <3> QED
        BY <1>2, <2>1, <3>1, <3>2, <3>3, QuietStep DEF FindByChatId, Places, LoginSteps
    <2>3. CASE u # NoRecord
      <3>1. u \in Users
        BY <1>1, <2>1, <2>3 DEF TypeOK
      <3>2. call' \in [Calls -> Call] /\ Moved(c, "account", u) /\ Others(c)
        BY <1>1, <1>2, <2>3, <3>1, GoesForMoves DEF FindByChatId, Places, LoginSteps, TypeOK
      <3>3. session' = session
        BY <1>2 DEF FindByChatId, tables
      <3>4. KnowsInv(c)' /\ LoginInv(c)'
        BY <1>1, <2>1, <3>1, <3>2, <3>3
           DEF Moved, KnowsInv, LoginInv, LoginSteps, ApprovalSteps, Decided
      <3> QED
        BY <1>2, <2>1, <3>1, <3>2, <3>4, QuietStep DEF FindByChatId, Places, LoginSteps
    <2> QED
      BY <2>2, <2>3
  <1>3. CASE FindById(c)
    <2> DEFINE at == NextOfSession(c)
    <2>1. /\ call[c].at = "account" /\ Active(c) /\ call[c].chat \in Chats
          /\ call[c].user \in Users /\ call[c].did \in Identities /\ call[c].email \in Users
      BY <1>1, <1>3 DEF FindById, Active, KnowsInv, LoginSteps
    <2>2. at \in {"link", "upsert"} /\ at \in Places
      BY DEF NextOfSession, Places, LoginSteps
    <2>3. at = "upsert" => OwnersOf(call[c].did) = {call[c].user}
      BY <1>1, <2>1, SoleOwner DEF NextOfSession
    <2>4. Goes(c, at) /\ UNCHANGED <<tables, made, faults>>
      BY <1>3 DEF FindById
    <2> HIDE DEF at
    <2>5. call' \in [Calls -> Call] /\ Moved(c, at, call[c].user) /\ Others(c)
      BY <1>1, <2>2, <2>4, GoesMoves DEF TypeOK
    <2>6. OwnersOf(call[c].did)' = OwnersOf(call[c].did) /\ session' = session
      BY <2>4, <2>5 DEF OwnersOf, tables, Moved
    <2>7. KnowsInv(c)' /\ LoginInv(c)'
      BY <1>1, <2>1, <2>2, <2>3, <2>5, <2>6, RecordAssumption
         DEF Moved, KnowsInv, LoginInv, LoginSteps, ApprovalSteps, Decided
    <2> QED
      BY <2>1, <2>2, <2>4, <2>5, <2>7, QuietStep
  <1>4. CASE FindByPrivyDid(c)
    <2>1. /\ call[c].at = "did" /\ Active(c)
          /\ call[c].did \in Identities /\ call[c].email \in Users
      BY <1>1, <1>4 DEF FindByPrivyDid, Active, KnowsInv, LoginSteps
    <2>2. UNCHANGED <<tables, made, faults>>
      BY <1>4 DEF FindByPrivyDid
    <2>3. CASE OwnersOf(call[c].did) = {}
      <3>1. call' \in [Calls -> Call] /\ Moved(c, "email", call[c].user) /\ Others(c)
        BY <1>1, <1>4, <2>3, GoesMoves
           DEF FindByPrivyDid, NextOfUnknown, Places, LoginSteps, TypeOK
      <3>2. OwnersOf(call[c].did)' = {}
        BY <2>2, <2>3, <3>1 DEF OwnersOf, tables, Moved
      <3>3. KnowsInv(c)' /\ LoginInv(c)'
        BY <1>1, <2>1, <3>1, <3>2
           DEF Moved, KnowsInv, LoginInv, LoginSteps, ApprovalSteps, Decided
      <3>4. call[c].user \in Users \cup {NoRecord}
        BY <1>1 DEF TypeOK, Call
      <3> QED
        BY <2>1, <2>2, <3>1, <3>3, <3>4, QuietStep DEF Places, LoginSteps
    <2>4. CASE OwnersOf(call[c].did) # {}
      <3>1. PICK u \in OwnersOf(call[c].did) : GoesFor(c, "upsert", u)
        BY <1>4, <2>4 DEF FindByPrivyDid
      <3>2. u \in Users /\ OwnersOf(call[c].did) = {u}
        BY <1>1, <2>1 DEF OwnersOf, Unique
      <3>3. call' \in [Calls -> Call] /\ Moved(c, "upsert", u) /\ Others(c)
        BY <1>1, <3>1, <3>2, GoesForMoves DEF Places, LoginSteps, TypeOK
      <3>4. OwnersOf(call[c].did)' = {u}
        BY <2>2, <3>2, <3>3 DEF OwnersOf, tables, Moved
      <3>5. KnowsInv(c)' /\ LoginInv(c)'
        BY <1>1, <2>1, <3>2, <3>3, <3>4
           DEF Moved, KnowsInv, LoginInv, LoginSteps, ApprovalSteps, Decided
      <3> QED
        BY <2>1, <2>2, <3>2, <3>3, <3>5, QuietStep DEF Places, LoginSteps
    <2> QED
      BY <2>3, <2>4
  <1>5. CASE FindByEmail(c)
    <2> DEFINE u == call[c].email
    <2>1. /\ call[c].at = "email" /\ Active(c) /\ call[c].did \in Identities /\ u \in Users
          /\ call[c].user \in Users \cup {NoRecord}
      BY <1>1, <1>5 DEF FindByEmail, Active, KnowsInv, LoginSteps, TypeOK, Call
    <2>2. UNCHANGED <<tables, made, faults>>
      BY <1>5 DEF FindByEmail
    <2>3. CASE privyDid[u] # NoRecord
      <3>1. call' \in [Calls -> Call] /\ Moved(c, "link", u) /\ Others(c)
        BY <1>1, <1>5, <2>1, <2>3, GoesForMoves DEF FindByEmail, Places, LoginSteps, TypeOK
      <3>2. OwnersOf(call[c].did)' = OwnersOf(call[c].did)
        BY <2>2, <3>1 DEF OwnersOf, tables, Moved
      <3>3. KnowsInv(c)' /\ LoginInv(c)'
        BY <1>1, <2>1, <3>1, <3>2
           DEF Moved, KnowsInv, LoginInv, LoginSteps, ApprovalSteps, Decided
      <3> QED
        BY <2>1, <2>2, <3>1, <3>3, QuietStep DEF Places, LoginSteps
    <2>4. CASE privyDid[u] = NoRecord
      <3>1. call' \in [Calls -> Call] /\ Moved(c, "create", call[c].user) /\ Others(c)
        BY <1>1, <1>5, <2>4, GoesMoves DEF FindByEmail, Places, LoginSteps, TypeOK
      <3>2. OwnersOf(call[c].did)' = OwnersOf(call[c].did) /\ privyDid' = privyDid
        BY <2>2, <3>1 DEF OwnersOf, tables, Moved
      <3>3. KnowsInv(c)' /\ LoginInv(c)'
        BY <1>1, <2>1, <2>4, <3>1, <3>2
           DEF Moved, KnowsInv, LoginInv, LoginSteps, ApprovalSteps, Decided
      <3> QED
        BY <2>1, <2>2, <3>1, <3>3, QuietStep DEF Places, LoginSteps
    <2> QED
      BY <2>3, <2>4
  <1> QED
    BY <1>2, <1>3, <1>4, <1>5

\* The index refuses the link only when another account has the identity, and a
\* lone login that is refused here came from the session of its chat.
LEMMA LinkStep ==
    ASSUME IInv, NEW c \in Calls, LinkPrivyDid(c)
    PROVE  IInv'
  <1> DEFINE u == call[c].user
             did == call[c].did
  <1>1. KnowsInv(c) /\ LoginInv(c) /\ TypeOK /\ Unique
    BY DEF IInv, CallInv
  <1>2. /\ call[c].at = "link" /\ Active(c) /\ did \in Identities /\ u \in Users
        /\ call[c].email \in Users
    BY <1>1 DEF LinkPrivyDid, Active, KnowsInv, LoginSteps
  <1>3. CASE OwnersOf(did) \subseteq {u}
    <2>1. privyDid' = [privyDid EXCEPT ![u] = did] /\ Goes(c, "upsert")
      BY <1>3 DEF LinkPrivyDid
    <2>2. call' \in [Calls -> Call] /\ Moved(c, "upsert", u) /\ Others(c)
      BY <1>1, <2>1, GoesMoves DEF Places, LoginSteps, TypeOK
    <2>3. Unique' /\ {v \in Users : privyDid'[v] = did} = {u}
      BY <1>1, <1>2, <1>3, <2>1, LinkKeepsUnique DEF TypeOK
    <2>4. UNCHANGED <<session, profile, delegations, setup, made, faults>>
      BY DEF LinkPrivyDid
    <2>5. TypeOK'
      <3>1. OneOwnerEach'
        BY <2>3, OwnersCounted
      <3> QED
        BY <1>1, <1>2, <2>1, <2>2, <2>4, <3>1 DEF TypeOK, OneOwnerEach
    <2>6. KnowsInv(c)' /\ WriteInv(c)'
      BY <1>2, <2>2 DEF Moved, KnowsInv, WriteInv, LoginSteps, ApprovalSteps
    <2>7. OwnersOf(call[c].did)' = {u}
      BY <2>2, <2>3 DEF Moved, OwnersOf
    <2>8. LoginInv(c)'
      BY <2>2, <2>7 DEF Moved, LoginInv, Decided
    <2>9. call'[c].alone = call[c].alone
      BY <2>2 DEF Moved
    <2> QED
      BY <1>2, <2>2, <2>3, <2>4, <2>5, <2>6, <2>8, <2>9, StepKeeps
  <1>4. CASE ~(OwnersOf(did) \subseteq {u})
    <2>1. Goes(c, "failed") /\ UNCHANGED <<tables, made, faults>>
      BY <1>4 DEF LinkPrivyDid, tables
    <2>2. call' \in [Calls -> Call] /\ Moved(c, "failed", u) /\ Others(c)
      BY <1>1, <2>1, GoesMoves DEF Places, TypeOK
    <2>3. OwnersOf(did) # {} /\ u \notin OwnersOf(did)
      BY <1>1, <1>2, <1>4 DEF Unique
    <2>4. OwnersOf(call[c].did)' = OwnersOf(did) /\ session' = session
      BY <2>1, <2>2 DEF OwnersOf, tables, Moved
    <2>5. u # NoRecord
      BY <1>2, RecordAssumption
    <2>6. KnowsInv(c)' /\ LoginInv(c)'
      BY <1>1, <1>2, <2>2, <2>3, <2>4, <2>5
         DEF Moved, KnowsInv, LoginInv, LoginSteps, ApprovalSteps, Decided
    <2> QED
      BY <1>2, <2>1, <2>2, <2>6, QuietStep DEF Places
  <1> QED
    BY <1>3, <1>4

\* A lone login never fails to create the account it has not found.
LEMMA CreateStep ==
    ASSUME IInv, NEW c \in Calls, Create(c)
    PROVE  IInv'
  <1> DEFINE u == call[c].email
             did == call[c].did
  <1>1. KnowsInv(c) /\ LoginInv(c) /\ TypeOK /\ Unique
    BY DEF IInv, CallInv
  <1>2. call[c].at = "create" /\ Active(c) /\ did \in Identities /\ u \in Users
    BY <1>1 DEF Create, Active, KnowsInv, LoginSteps
  <1>3. CASE privyDid[u] = NoRecord /\ OwnersOf(did) = {}
    <2>1. privyDid' = [privyDid EXCEPT ![u] = did] /\ GoesFor(c, "upsert", u)
      BY <1>3 DEF Create
    <2>2. call' \in [Calls -> Call] /\ Moved(c, "upsert", u) /\ Others(c)
      BY <1>1, <1>2, <2>1, GoesForMoves DEF Places, LoginSteps, TypeOK
    <2>3. Unique' /\ {v \in Users : privyDid'[v] = did} = {u}
      BY <1>1, <1>2, <1>3, <2>1, LinkKeepsUnique DEF TypeOK
    <2>4. UNCHANGED <<session, profile, delegations, setup, made, faults>>
      BY DEF Create
    <2>5. TypeOK'
      <3>1. OneOwnerEach'
        BY <2>3, OwnersCounted
      <3> QED
        BY <1>1, <1>2, <2>1, <2>2, <2>4, <3>1 DEF TypeOK, OneOwnerEach
    <2>6. KnowsInv(c)' /\ WriteInv(c)'
      BY <1>2, <2>2 DEF Moved, KnowsInv, WriteInv, LoginSteps, ApprovalSteps
    <2>7. OwnersOf(call[c].did)' = {u}
      BY <2>2, <2>3 DEF Moved, OwnersOf
    <2>8. LoginInv(c)'
      BY <2>2, <2>7 DEF Moved, LoginInv, Decided
    <2>9. call'[c].alone = call[c].alone
      BY <2>2 DEF Moved
    <2> QED
      BY <1>2, <2>2, <2>3, <2>4, <2>5, <2>6, <2>8, <2>9, StepKeeps
  <1>4. CASE ~(privyDid[u] = NoRecord /\ OwnersOf(did) = {})
    <2>1. Goes(c, "failed") /\ UNCHANGED <<tables, made, faults>>
      BY <1>4 DEF Create, tables
    <2>2. call' \in [Calls -> Call] /\ Moved(c, "failed", call[c].user) /\ Others(c)
      BY <1>1, <2>1, GoesMoves DEF Places, TypeOK
    <2>3. ~call[c].alone \/ call[c].email = NoRecord
      BY <1>1, <1>2, <1>4 DEF LoginInv
    <2>4. KnowsInv(c)' /\ LoginInv(c)'
      BY <1>1, <1>2, <2>2, <2>3
         DEF Moved, KnowsInv, LoginInv, LoginSteps, ApprovalSteps, Decided
    <2>5. call[c].user \in Users \cup {NoRecord}
      BY <1>1 DEF TypeOK, Call
    <2> QED
      BY <1>2, <2>1, <2>2, <2>4, <2>5, QuietStep DEF Places
  <1> QED
    BY <1>3, <1>4

LEMMA UpsertStep ==
    ASSUME IInv, NEW c \in Calls, UpsertSession(c)
    PROVE  IInv'
  <1> DEFINE u == call[c].user
             chat == call[c].chat
             at == IF chat = NoRecord THEN "ok" ELSE "chat"
  <1>1. KnowsInv(c) /\ LoginInv(c) /\ TypeOK /\ Unique
    BY DEF IInv, CallInv
  <1>2. /\ call[c].at = "upsert" /\ Active(c) /\ u \in Users /\ call[c].email \in Users
        /\ call[c].did \in Identities /\ chat \in Chats \cup {NoRecord}
    BY <1>1 DEF UpsertSession, Active, KnowsInv, LoginSteps, TypeOK, Call
  <1>3. /\ Goes(c, at) /\ UNCHANGED <<privyDid, profile, delegations, setup, made, faults>>
        /\ session' \in [Chats -> Users \cup {NoRecord}]
        /\ chat # NoRecord => session'[chat] = u
    BY <1>1, <1>2 DEF UpsertSession, TypeOK
  <1>4. call' \in [Calls -> Call] /\ Moved(c, at, u) /\ Others(c)
    BY <1>1, <1>3, GoesMoves DEF Places, LoginSteps, TypeOK
  <1>5. OwnersOf(call[c].did)' = OwnersOf(call[c].did)
    BY <1>3, <1>4 DEF Moved, OwnersOf
  <1>6. KnowsInv(c)' /\ LoginInv(c)' /\ WriteInv(c)'
    BY <1>1, <1>2, <1>3, <1>4, <1>5
       DEF Moved, KnowsInv, LoginInv, WriteInv, LoginSteps, ApprovalSteps, Decided
  <1>7. TypeOK'
    BY <1>1, <1>3, <1>4 DEF TypeOK, OwnersOf
  <1>8. Unique'
    BY <1>1, <1>3, UniqueKept
  <1>9. UNCHANGED profile /\ call'[c].alone = call[c].alone
    BY <1>3, <1>4 DEF Moved
  <1> QED
    BY <1>2, <1>4, <1>6, <1>7, <1>8, <1>9, StepKeeps

\* A row of a profile is written: an approval that has read the row, and now has
\* another chat than the row, is marked as crossed.
LEMMA WritesStep ==
    ASSUME IInv, NEW c \in Calls, NEW p \in Profile, NEW at \in {"welcome", "ok", "drop"},
           call[c].at = IF at = "drop" THEN "write" ELSE "chat", WritesProfile(c, p, at),
           UNCHANGED <<privyDid, session, delegations, setup, made, faults>>
    PROVE  IInv'
  <1> DEFINE u == call[c].user
             crosses(o) == /\ call[o].at = "write" /\ call[o].user = u
                           /\ profile[u] = NoRecord \/ profile[u].chat # p.chat
             other(o) == [call[o] EXCEPT !.crossed = @ \/ crosses(o)]
  <1>1. KnowsInv(c) /\ LoginInv(c) /\ LoneInv(c) /\ TypeOK /\ Unique
    BY DEF IInv, CallInv
  <1>2. Active(c) /\ u \in Users /\ call[c].did \in Identities
    BY <1>1 DEF Active, KnowsInv, LoginSteps, ApprovalSteps
  <1>3. /\ profile' = [profile EXCEPT ![u] = p]
        /\ call' = [o \in Calls |-> IF o = c THEN [call[o] EXCEPT !.at = at] ELSE other(o)]
    BY DEF WritesProfile
  <1>4. call'[c] = [call[c] EXCEPT !.at = at] /\ call'[c] \in Call
    <2>1. call'[c] = [call[c] EXCEPT !.at = at] /\ call[c] \in Call
      BY <1>1, <1>3 DEF TypeOK
    <2> QED
      BY <2>1 DEF Call, LoginSteps, ApprovalSteps
  <1>5. Moved(c, at, u)
    BY <1>1, <1>4 DEF Moved, TypeOK, Call
  <1>6. ASSUME NEW o \in Calls \ {c} PROVE CallInv(o)' /\ call'[o] \in Call
    <2> DEFINE x == crosses(o)
    <2>1. x \in BOOLEAN /\ call[o] \in Call /\ call'[o] = [call[o] EXCEPT !.crossed = @ \/ x]
      BY <1>1, <1>3 DEF TypeOK
    <2>2. x <=> /\ call[o].at = "write" /\ call[o].user = u
                /\ profile[u] = NoRecord \/ profile[u].chat # p.chat
      OBVIOUS
    <2> HIDE DEF x
    <2>3. call'[o] \in Call
      BY <2>1 DEF Call
    <2>4. /\ call'[o].at = call[o].at /\ call'[o].user = call[o].user
          /\ call'[o].did = call[o].did /\ call'[o].email = call[o].email
          /\ call'[o].chat = call[o].chat /\ call'[o].setup = call[o].setup
          /\ call'[o].alone = call[o].alone /\ call'[o].read = call[o].read
      BY <2>1 DEF Call
    <2>5. ~call'[o].crossed => ~call[o].crossed /\ ~x
      BY <2>1 DEF Call
    <2>6. KnowsInv(o)' /\ LoneInv(o)' /\ LoginInv(o)'
      BY <1>2, <2>4, NobodyElseAlone
    <2>7. WriteInv(o)'
      <3> SUFFICES ASSUME call[o].at = "write", ~call'[o].crossed,
                          profile'[call[o].user] # NoRecord
                   PROVE  /\ call[o].read # NoRecord
                          /\ call[o].read.chat = profile'[call[o].user].chat
        BY <2>4 DEF WriteInv
      <3>1. WriteInv(o) /\ KnowsInv(o) /\ ~call[o].crossed /\ ~x
        BY <2>5 DEF IInv, CallInv
      <3>2. call[o].user \in Users
        BY <3>1 DEF KnowsInv, ApprovalSteps
      <3>3. CASE call[o].user = u
        <4>1. profile[u] # NoRecord /\ profile[u].chat = p.chat
          BY <2>2, <3>1, <3>3
        <4>2. profile'[u] = p
          BY <1>1, <1>2, <1>3 DEF TypeOK
        <4> QED
          BY <3>1, <3>3, <4>1, <4>2 DEF WriteInv
      <3>4. CASE call[o].user # u
        <4>1. profile'[call[o].user] = profile[call[o].user]
          BY <1>1, <1>3, <3>2, <3>4 DEF TypeOK
        <4> QED
          BY <3>1, <4>1 DEF WriteInv
      <3> QED
        BY <3>3, <3>4
    <2> QED
      BY <2>3, <2>6, <2>7 DEF CallInv
  <1>7. CallInv(c)'
    <2>1. OwnersOf(call[c].did)' = OwnersOf(call[c].did) /\ session' = session
      BY <1>5 DEF Moved, OwnersOf
    <2>2. KnowsInv(c)' /\ WriteInv(c)'
      BY <1>1, <1>2, <1>5 DEF Moved, KnowsInv, WriteInv, LoginSteps, ApprovalSteps
    <2>3. LoginInv(c)'
      BY <1>1, <1>5, <2>1
         DEF Moved, LoginInv, KnowsInv, ApprovalSteps, Decided
    <2>4. LoneInv(c)'
      <3>1. \A o \in Calls \ {c} : call'[o].at = call[o].at
        BY <1>1, <1>3 DEF TypeOK, Call
      <3> QED
        BY <1>1, <1>2, <1>5, <3>1 DEF Moved, LoneInv, Active
    <2> QED
      BY <2>2, <2>3, <2>4 DEF CallInv
  <1>8. TypeOK'
    <2>1. call' = [o \in Calls |-> call'[o]]
      BY <1>3
    <2>2. call' \in [Calls -> Call]
      BY <1>4, <1>6, <2>1
    <2>3. profile' \in [Users -> Profile \cup {NoRecord}]
      BY <1>1, <1>3 DEF TypeOK
    <2> QED
      BY <1>1, <2>2, <2>3 DEF TypeOK, OwnersOf
  <1> QED
    BY <1>1, <1>6, <1>7, <1>8, UniqueKept DEF IInv

LEMMA ChatStep ==
    ASSUME IInv, NEW c \in Calls, SetTelegramChatId(c)
    PROVE  IInv'
  <1> DEFINE u == call[c].user
             at == IF call[c].route = "response" THEN "welcome" ELSE "ok"
             p == WithChat(profile[u], call[c].chat)
  <1>1. KnowsInv(c) /\ LoginInv(c) /\ TypeOK
    BY DEF IInv, CallInv
  <1>2. /\ call[c].at = "chat" /\ Active(c) /\ u \in Users /\ call[c].chat \in Chats
        /\ call[c].did \in Identities /\ call[c].email \in Users
    BY <1>1 DEF SetTelegramChatId, Active, KnowsInv, LoginSteps
  <1>3. at \in {"welcome", "ok"}
    OBVIOUS
  <1>4. CASE WritesProfile(c, p, at) /\ UNCHANGED faults
    <2>1. p \in Profile
      BY <1>1, <1>2 DEF WithChat, Profile, TypeOK
    <2> QED
      BY <1>2, <1>3, <1>4, <2>1, WritesStep DEF SetTelegramChatId
  <1>5. CASE /\ faults < MaxFaults /\ faults' = faults + 1
             /\ Goes(c, at) /\ UNCHANGED profile
    <2>1. UNCHANGED tables /\ UNCHANGED made /\ faults' \in 0..MaxFaults
      BY <1>1, <1>5, BoundAssumption DEF SetTelegramChatId, tables, TypeOK
    <2>2. call' \in [Calls -> Call] /\ Moved(c, at, u) /\ Others(c)
      BY <1>1, <1>3, <1>5, GoesMoves DEF TypeOK, Places, LoginSteps
    <2>3. OwnersOf(call[c].did)' = OwnersOf(call[c].did) /\ session' = session
      BY <2>1, <2>2 DEF OwnersOf, tables, Moved
    <2>4. KnowsInv(c)' /\ LoginInv(c)' /\ WriteInv(c)'
      BY <1>1, <1>2, <2>2, <2>3
         DEF Moved, KnowsInv, LoginInv, WriteInv, LoginSteps, ApprovalSteps, Decided
    <2>5. TypeOK'
      BY <1>1, <2>1, <2>2, TablesKept
    <2>6. Unique' /\ UNCHANGED profile /\ call'[c].alone = call[c].alone
      BY <2>1, <2>2, UniqueKept DEF tables, Moved, IInv
    <2> QED
      BY <1>2, <2>2, <2>4, <2>5, <2>6, StepKeeps
  <1> QED
    BY <1>4, <1>5 DEF SetTelegramChatId

LEMMA AfterLoginStep ==
    ASSUME IInv, NEW c \in Calls, Welcome(c) \/ FindProfile(c) \/ StoreRequest(c)
    PROVE  IInv'
  <1> DEFINE u == call[c].user
  <1>1. KnowsInv(c) /\ LoginInv(c) /\ TypeOK
    BY DEF IInv, CallInv
  <1>2. /\ call[c].at \in {"welcome", "profile", "request"} /\ Active(c) /\ u \in Users
        /\ call[c].did \in Identities /\ call[c].email \in Users
    BY <1>1 DEF Welcome, FindProfile, StoreRequest, Active, KnowsInv, LoginSteps
  <1>3. PICK at \in {"profile", "request", "ok"} : Goes(c, at)
    BY DEF Welcome, FindProfile, StoreRequest
  <1>4. call' \in [Calls -> Call] /\ Moved(c, at, u) /\ Others(c)
    BY <1>1, <1>3, GoesMoves DEF TypeOK, Places, LoginSteps
  <1>5. UNCHANGED <<privyDid, session, profile, delegations, made, faults>>
    BY DEF Welcome, FindProfile, StoreRequest, tables
  <1>6. setup' \in [Setups -> Users \cup {NoRecord}]
    BY <1>1, <1>2 DEF Welcome, FindProfile, StoreRequest, tables, TypeOK
  <1>7. OwnersOf(call[c].did)' = OwnersOf(call[c].did)
    BY <1>4, <1>5 DEF OwnersOf, Moved
  <1>8. KnowsInv(c)' /\ LoginInv(c)' /\ WriteInv(c)'
    BY <1>1, <1>2, <1>4, <1>5, <1>7
       DEF Moved, KnowsInv, LoginInv, WriteInv, LoginSteps, ApprovalSteps, Decided
  <1>9. TypeOK'
    BY <1>1, <1>4, <1>5, <1>6 DEF TypeOK, OwnersOf
  <1>10. Unique' /\ call'[c].alone = call[c].alone
    BY <1>4, <1>5, UniqueKept DEF Moved, IInv
  <1> QED
    BY <1>2, <1>4, <1>5, <1>8, <1>9, <1>10, StepKeeps

-----------------------------------------------------------------------------
(* The steps of an approval *)

LEMMA ApprovalStep ==
    ASSUME IInv, NEW c \in Calls,
           ResolveUserId(c) \/ SaveDelegation(c) \/ DropRequest(c)
    PROVE  IInv'
  <1>1. KnowsInv(c) /\ TypeOK
    BY DEF IInv, CallInv
  <1>2. /\ call[c].at \in {"resolve", "save", "drop"} /\ Active(c)
        /\ call[c].did \in Identities /\ call[c].email = NoRecord
        /\ call[c].user \in Users /\ call[c].setup \in Setups
    BY <1>1 DEF ResolveUserId, SaveDelegation, DropRequest, Active, KnowsInv, ApprovalSteps
  <1>3. PICK at \in {"save", "existing", "drop", "failed", "ok"} : Goes(c, at)
    BY DEF ResolveUserId, SaveDelegation, DropRequest
  <1>4. call' \in [Calls -> Call] /\ Moved(c, at, call[c].user) /\ Others(c)
    BY <1>1, <1>3, GoesMoves DEF TypeOK, Places, ApprovalSteps
  <1>5. UNCHANGED <<privyDid, session, profile, made, faults>>
    BY DEF ResolveUserId, SaveDelegation, DropRequest, tables
  <1>6. /\ setup' \in [Setups -> Users \cup {NoRecord}]
        /\ delegations' \subseteq Identities
    BY <1>1, <1>2 DEF ResolveUserId, SaveDelegation, DropRequest, tables, TypeOK
  <1>7. KnowsInv(c)' /\ LoginInv(c)' /\ WriteInv(c)'
    BY <1>2, <1>4 DEF Moved, KnowsInv, LoginInv, WriteInv, LoginSteps, ApprovalSteps
  <1>8. TypeOK'
    BY <1>1, <1>4, <1>5, <1>6 DEF TypeOK, OwnersOf
  <1>9. Unique' /\ call'[c].alone = call[c].alone
    BY <1>4, <1>5, UniqueKept DEF Moved, IInv
  <1> QED
    BY <1>2, <1>4, <1>5, <1>7, <1>8, <1>9, StepKeeps

\* The call of a step that sets more than its place.
LEMMA ExistingStep ==
    ASSUME IInv, NEW c \in Calls, FindExisting(c)
    PROVE  IInv'
  <1> DEFINE p == profile[call[c].user]
             next == [call[c] EXCEPT !.at = "write", !.read = p, !.crossed = FALSE]
  <1>1. KnowsInv(c) /\ TypeOK
    BY DEF IInv, CallInv
  <1>2. /\ call[c].at = "existing" /\ Active(c) /\ call[c] \in Call
        /\ call[c].did \in Identities /\ call[c].email = NoRecord
        /\ call[c].user \in Users /\ call[c].setup \in Setups
    BY <1>1 DEF FindExisting, Active, KnowsInv, ApprovalSteps, TypeOK
  <1>3. p \in Profile \cup {NoRecord}
    BY <1>1, <1>2 DEF TypeOK
  <1>4. call' = [call EXCEPT ![c] = next] /\ UNCHANGED <<tables, made, faults>>
    BY DEF FindExisting
  <1>5. next \in Call
    BY <1>2, <1>3 DEF Call, ApprovalSteps
  <1>6. Moved(c, "write", call[c].user) /\ call'[c].read = p
    BY <1>1, <1>2, <1>4 DEF Moved, TypeOK, Call
  <1>7. call' \in [Calls -> Call] /\ Others(c)
    BY <1>1, <1>4, <1>5 DEF Others, TypeOK
  <1>8. KnowsInv(c)' /\ LoginInv(c)' /\ WriteInv(c)'
    BY <1>2, <1>4, <1>6
       DEF Moved, KnowsInv, LoginInv, WriteInv, LoginSteps, ApprovalSteps, tables
  <1>9. TypeOK' /\ UNCHANGED profile
    BY <1>1, <1>4, <1>7, TablesKept DEF TypeOK, tables
  <1>10. Unique' /\ call'[c].alone = call[c].alone
    BY <1>4, <1>6, UniqueKept DEF Moved, IInv, tables
  <1> QED
    BY <1>2, <1>7, <1>8, <1>9, <1>10, StepKeeps

LEMMA WriteStep ==
    ASSUME IInv, NEW c \in Calls, WriteProfile(c)
    PROVE  IInv'
  <1>1. KnowsInv(c) /\ call[c] \in Call /\ call[c].at = "write"
    BY DEF IInv, CallInv, TypeOK, WriteProfile
  <1>2. call[c].did \in Identities /\ call[c].read \in Profile \cup {NoRecord}
    BY <1>1 DEF KnowsInv, ApprovalSteps, Call
  <1>3. WithKey(call[c].read, call[c].did) \in Profile
    BY <1>2 DEF WithKey, Profile
  <1> QED
    BY <1>1, <1>3, WritesStep DEF WriteProfile

-----------------------------------------------------------------------------
(* Calls that begin and end *)

\* A call that begins makes the others no longer alone.
LEMMA BeginStep ==
    ASSUME IInv, NEW c \in Calls, NEW fields \in Call, Begin(c, fields),
           fields.at \in {"session", "did", "resolve"},
           fields.did \in Identities, fields.chat \in Chats \cup {NoRecord},
           fields.at \in {"session", "did"} => fields.email \in Users,
           fields.at = "session" => fields.chat \in Chats,
           fields.at = "resolve" => /\ fields.email = NoRecord /\ fields.user \in Users
                                    /\ fields.setup \in Setups
    PROVE  IInv'
  <1> DEFINE lone == \A o \in Calls : ~Active(o)
             first == [fields EXCEPT !.alone = lone]
  <1>1. TypeOK /\ Unique /\ ~Active(c)
    BY DEF IInv, Begin
  <1>2. call' = [o \in Calls |-> IF o = c THEN first ELSE [call[o] EXCEPT !.alone = FALSE]]
    BY DEF Begin
  <1>3. lone \in BOOLEAN /\ (lone <=> \A o \in Calls : ~Active(o))
    OBVIOUS
  <1> HIDE DEF lone
  <1>4. call'[c] = first /\ first \in Call
    BY <1>2, <1>3 DEF Call
  <1>5. /\ first.at = fields.at /\ first.did = fields.did /\ first.email = fields.email
        /\ first.chat = fields.chat /\ first.user = fields.user
        /\ first.setup = fields.setup /\ first.alone = lone
    BY <1>3 DEF Call
  <1> HIDE DEF first
  <1>6. ASSUME NEW o \in Calls \ {c} PROVE CallInv(o)' /\ call'[o] \in Call
    <2>1. call[o] \in Call /\ call'[o] = [call[o] EXCEPT !.alone = FALSE]
      BY <1>1, <1>2 DEF TypeOK
    <2>2. /\ call'[o].at = call[o].at /\ call'[o].did = call[o].did
          /\ call'[o].email = call[o].email /\ call'[o].chat = call[o].chat
          /\ call'[o].user = call[o].user /\ call'[o].setup = call[o].setup
          /\ call'[o].read = call[o].read /\ call'[o].crossed = call[o].crossed
          /\ ~call'[o].alone
      BY <2>1 DEF Call
    <2>3. KnowsInv(o) /\ WriteInv(o) /\ profile' = profile
      BY DEF IInv, CallInv, Begin, tables
    <2>4. call'[o] \in Call
      BY <2>1 DEF Call
    <2> QED
      BY <2>2, <2>3, <2>4 DEF CallInv, KnowsInv, LoneInv, LoginInv, WriteInv
  <1>7. CallInv(c)'
    <2>1. KnowsInv(c)' /\ LoginInv(c)' /\ WriteInv(c)'
      BY <1>4, <1>5 DEF KnowsInv, LoginInv, WriteInv, LoginSteps, ApprovalSteps, Decided
    <2>2. \A o \in Calls \ {c} : call'[o].at = call[o].at
      BY <1>1, <1>2 DEF TypeOK, Call
    <2>3. LoneInv(c)'
      BY <1>3, <1>4, <1>5, <2>2 DEF LoneInv, Active
    <2> QED
      BY <2>1, <2>3 DEF CallInv
  <1>8. TypeOK'
    <2>1. call' = [o \in Calls |-> call'[o]]
      BY <1>2
    <2>2. call' \in [Calls -> Call]
      BY <1>4, <1>6, <2>1
    <2>3. made' \in 0..MaxCalls
      BY <1>1, BoundAssumption DEF Begin, TypeOK
    <2> QED
      BY <1>1, <2>2, <2>3 DEF TypeOK, OwnersOf, Begin, tables
  <1>9. Unique'
    BY <1>1, UniqueKept DEF Begin, tables
  <1> QED
    BY <1>6, <1>7, <1>8, <1>9 DEF IInv

LEMMA RequestStep ==
    ASSUME IInv, NEW c \in Calls, Login(c) \/ Approve(c)
    PROVE  IInv'
  <1>1. CASE Login(c)
    <2>1. PICK route \in {"auth/privy", "response"}, did \in Identities,
               chat \in Chats \cup {NoRecord} :
            \E email \in VerifyToken(did) :
              Begin(c, [NewCall EXCEPT !.at = IF chat = NoRecord THEN "did" ELSE "session",
                                       !.route = route, !.did = did, !.email = email,
                                       !.chat = chat])
      BY <1>1 DEF Login
    <2>2. PICK email \in VerifyToken(did) :
              Begin(c, [NewCall EXCEPT !.at = IF chat = NoRecord THEN "did" ELSE "session",
                                       !.route = route, !.did = did, !.email = email,
                                       !.chat = chat])
      BY <2>1
    <2> DEFINE fields == [NewCall EXCEPT !.at = IF chat = NoRecord THEN "did" ELSE "session",
                                         !.route = route, !.did = did, !.email = email,
                                         !.chat = chat]
    <2>3. email \in Users
      BY EmailsAssumption DEF VerifyToken
    <2>4. fields \in Call
      BY <2>3 DEF Call, NewCall, LoginSteps
    <2>5. /\ fields.at = IF chat = NoRecord THEN "did" ELSE "session"
          /\ fields.did = did /\ fields.email = email /\ fields.chat = chat
      BY DEF NewCall
    <2>6. Begin(c, fields)
      BY <2>2
    <2> HIDE DEF fields
    <2> QED
      BY <2>3, <2>4, <2>5, <2>6, BeginStep
  <1>2. CASE Approve(c)
    <2>1. PICK s \in Setups, did \in Identities :
            /\ setup[s] # NoRecord
            /\ Begin(c, [NewCall EXCEPT !.at = "resolve", !.route = "response", !.did = did,
                                        !.setup = s, !.user = setup[s]])
      BY <1>2 DEF Approve
    <2> DEFINE fields == [NewCall EXCEPT !.at = "resolve", !.route = "response",
                                         !.did = did, !.setup = s, !.user = setup[s]]
    <2>2. setup[s] \in Users
      BY <2>1 DEF IInv, TypeOK
    <2>3. fields \in Call
      BY <2>2 DEF Call, NewCall, ApprovalSteps
    <2>4. /\ fields.at = "resolve" /\ fields.did = did /\ fields.email = NoRecord
          /\ fields.user = setup[s] /\ fields.setup = s /\ fields.chat = NoRecord
      BY DEF NewCall
    <2>5. Begin(c, fields)
      BY <2>1
    <2> HIDE DEF fields
    <2> QED
      BY <2>2, <2>3, <2>4, <2>5, BeginStep
  <1> QED
    BY <1>1, <1>2

LEMMA AnswerStep ==
    ASSUME IInv, NEW c \in Calls, Answer(c)
    PROVE  IInv'
  <1>1. TypeOK /\ Active(c) /\ call' = [call EXCEPT ![c] = NewCall]
    BY DEF IInv, Answer, Active
  <1>2. NewCall \in Call
    BY DEF NewCall, Call
  <1>3. call' \in [Calls -> Call] /\ Others(c) /\ call'[c] = NewCall
    BY <1>1, <1>2 DEF TypeOK, Others
  <1>4. ASSUME NEW o \in Calls PROVE CallInv(o)'
    <2>1. CASE o = c
      BY <1>3, <2>1 DEF NewCall, CallInv, KnowsInv, LoneInv, LoginInv, WriteInv, Active,
                        LoginSteps, ApprovalSteps
    <2>2. CASE o # c
      <3>1. call'[o] = call[o] /\ profile' = profile
        BY <1>3, <2>2 DEF Others, Answer, tables
      <3>2. KnowsInv(o)' /\ LoneInv(o)' /\ LoginInv(o)'
        BY <1>1, <2>2, <3>1, NobodyElseAlone
      <3> QED
        BY <3>1, <3>2 DEF CallInv, WriteInv, IInv
    <2> QED
      BY <2>1, <2>2
  <1>5. TypeOK'
    BY <1>1, <1>3, TablesKept DEF Answer, TypeOK
  <1>6. Unique'
    BY UniqueKept DEF Answer, tables, IInv
  <1> QED
    BY <1>4, <1>5, <1>6 DEF IInv

LEMMA FailsStep ==
    ASSUME IInv, NEW c \in Calls, Fails(c)
    PROVE  IInv'
  <1> DEFINE next == [call[c] EXCEPT !.at = "failed", !.faulted = TRUE]
  <1>1. TypeOK /\ Active(c) /\ call[c] \in Call
    BY DEF IInv, Fails, Active, LoginSteps, ApprovalSteps, TypeOK
  <1>2. call' = [call EXCEPT ![c] = next]
    BY DEF Fails
  <1>3. /\ next \in Call /\ next.at = "failed" /\ next.faulted
        /\ next.alone = call[c].alone
    BY <1>1 DEF Call
  <1>4. call' \in [Calls -> Call] /\ Others(c) /\ call'[c] = next
    BY <1>1, <1>2, <1>3 DEF TypeOK, Others
  <1> HIDE DEF next
  <1>5. KnowsInv(c)' /\ LoginInv(c)' /\ WriteInv(c)'
    BY <1>3, <1>4
       DEF KnowsInv, LoginInv, WriteInv, LoginSteps, ApprovalSteps, Decided
  <1>6. TypeOK' /\ UNCHANGED profile
    <2>1. faults' \in 0..MaxFaults
      BY <1>1, BoundAssumption DEF Fails, TypeOK
    <2> QED
      BY <1>1, <1>4, <2>1, TablesKept DEF Fails, tables
  <1>7. Unique'
    BY UniqueKept DEF Fails, tables, IInv
  <1> QED
    BY <1>1, <1>3, <1>4, <1>5, <1>6, <1>7, StepKeeps

\* The end of a session is an event in the life of the logins of its chat alone.
LEMMA SessionEndsStep ==
    ASSUME IInv, NEW chat \in Chats, SessionEnds(chat)
    PROVE  IInv'
  <1>1. /\ TypeOK /\ session' = [session EXCEPT ![chat] = NoRecord]
        /\ call' = [c \in Calls |-> IF call[c].chat = chat
                                    THEN [call[c] EXCEPT !.alone = FALSE] ELSE call[c]]
        /\ UNCHANGED <<privyDid, profile, delegations, setup, made, faults>>
    BY DEF IInv, SessionEnds
  <1>2. ASSUME NEW c \in Calls
        PROVE  /\ call'[c] \in Call
               /\ call'[c].at = call[c].at /\ call'[c].did = call[c].did
               /\ call'[c].email = call[c].email /\ call'[c].chat = call[c].chat
               /\ call'[c].user = call[c].user /\ call'[c].setup = call[c].setup
               /\ call'[c].read = call[c].read /\ call'[c].crossed = call[c].crossed
               /\ call'[c].faulted = call[c].faulted
               /\ IF call[c].chat = chat THEN ~call'[c].alone
                  ELSE call'[c].alone = call[c].alone
    <2>1. call[c] \in Call
      BY <1>1 DEF TypeOK
    <2>2. CASE call[c].chat = chat
      <3>1. call'[c] = [call[c] EXCEPT !.alone = FALSE]
        BY <1>1, <2>2
      <3> QED
        BY <2>1, <2>2, <3>1 DEF Call
    <2>3. CASE call[c].chat # chat
      BY <1>1, <2>1, <2>3
    <2> QED
      BY <2>2, <2>3
  <1>3. ASSUME NEW c \in Calls PROVE CallInv(c)'
    <2>1. KnowsInv(c) /\ LoneInv(c) /\ LoginInv(c) /\ WriteInv(c)
      BY DEF IInv, CallInv
    <2>2. KnowsInv(c)' /\ WriteInv(c)'
      BY <1>1, <1>2, <2>1 DEF KnowsInv, WriteInv
    <2>3. LoneInv(c)'
      BY <1>2, <2>1 DEF LoneInv, Active
    <2>4. LoginInv(c)'
      <3>1. CASE call[c].chat = chat
        BY <1>2, <3>1 DEF LoginInv
      <3>2. CASE call[c].chat # chat
        <4>1. OwnersOf(call[c].did)' = OwnersOf(call[c].did)
          BY <1>1, <1>2 DEF OwnersOf
        <4>2. call[c].chat \in Chats \cup {NoRecord}
          BY <1>1 DEF TypeOK, Call
        <4>3. call[c].chat # NoRecord => session'[call[c].chat] = session[call[c].chat]
          BY <1>1, <3>2, <4>2 DEF TypeOK
        <4>4. call[c].at = "account" => call[c].chat # NoRecord
          BY <2>1, RecordAssumption DEF KnowsInv
        <4> QED
          BY <1>1, <1>2, <2>1, <3>2, <4>1, <4>3, <4>4 DEF LoginInv
      <3> QED
        BY <3>1, <3>2
    <2> QED
      BY <2>2, <2>3, <2>4 DEF CallInv
  <1>4. TypeOK'
    <2>1. call' = [c \in Calls |-> call'[c]]
      BY <1>1
    <2>2. call' \in [Calls -> Call]
      BY <1>2, <2>1
    <2> QED
      BY <1>1, <2>2 DEF TypeOK, OwnersOf
  <1>5. Unique'
    BY <1>1, UniqueKept DEF IInv
  <1> QED
    BY <1>3, <1>4, <1>5 DEF IInv

\* Nothing in the invariant but the type concerns the open requests.
LEMMA SetupKeeps ==
    ASSUME IInv, setup' \in [Setups -> Users \cup {NoRecord}],
           UNCHANGED <<privyDid, session, profile, delegations, call, made, faults>>
    PROVE  IInv'
  <1>1. TypeOK' /\ Unique'
    BY UniqueKept DEF IInv, TypeOK, OwnersOf
  <1>2. ASSUME NEW c \in Calls PROVE CallInv(c)'
    BY DEF IInv, CallInv, KnowsInv, LoneInv, LoginInv, WriteInv, Active, OwnersOf
  <1> QED
    BY <1>1, <1>2 DEF IInv

LEMMA NextInv == IInv /\ [Next]_vars => IInv'
  <1> SUFFICES ASSUME IInv, [Next]_vars PROVE IInv'
    OBVIOUS
  <1>1. ASSUME NEW c \in Calls,
               \/ Login(c) \/ FindByChatId(c) \/ FindById(c) \/ LinkPrivyDid(c)
               \/ FindByPrivyDid(c) \/ FindByEmail(c) \/ Create(c)
               \/ UpsertSession(c) \/ SetTelegramChatId(c)
               \/ Welcome(c) \/ FindProfile(c) \/ StoreRequest(c)
               \/ Approve(c) \/ ResolveUserId(c) \/ SaveDelegation(c)
               \/ FindExisting(c) \/ WriteProfile(c) \/ DropRequest(c)
               \/ Answer(c) \/ Fails(c)
        PROVE  IInv'
    BY <1>1, RequestStep, LoginStep, LinkStep, CreateStep, UpsertStep, ChatStep,
       AfterLoginStep, ApprovalStep, ExistingStep, WriteStep, AnswerStep, FailsStep
  <1>2. ASSUME NEW chat \in Chats, SessionEnds(chat) PROVE IInv'
    BY <1>2, SessionEndsStep
  <1>3. ASSUME NEW s \in Setups, SetupExpires(s) PROVE IInv'
    <2>1. setup' \in [Setups -> Users \cup {NoRecord}]
      BY <1>3 DEF SetupExpires, IInv, TypeOK
    <2> QED
      BY <1>3, <2>1, SetupKeeps DEF SetupExpires
  <1>4. CASE UNCHANGED vars
    BY <1>4, SetupKeeps DEF vars, IInv, TypeOK
  <1> QED
    BY <1>1, <1>2, <1>3, <1>4 DEF Next

LEMMA Invariant == Spec => []IInv
  BY InitInv, NextInv, PTL DEF Spec

-----------------------------------------------------------------------------
(* The theorems *)

(***************************************************************************)
(* The tables keep their types, and no identity ever belongs to two        *)
(* accounts (auth.usecase.ts:34-121).                                       *)
(***************************************************************************)
THEOREM TypeCorrect == Spec => []TypeOK
  <1>1. IInv => TypeOK
    BY DEF IInv
  <1> QED
    BY <1>1, Invariant, PTL

(***************************************************************************)
(* A login that nothing overlapped fails only when its chat is signed in   *)
(* to one account and its identity belongs to another one.                 *)
(***************************************************************************)
THEOREM LoneSucceed == Spec => []LoneLoginsSucceed
  <1>1. IInv => LoneLoginsSucceed
    BY DEF IInv, CallInv, LoginInv, LoneLoginsSucceed
  <1> QED
    BY <1>1, Invariant, PTL

(***************************************************************************)
(* The token of a login that nothing overlapped resolves to the account    *)
(* that its chat is then signed in to.                                     *)
(***************************************************************************)
THEOREM SignedIn == Spec => []SignedInTogether
  <1>1. IInv => SignedInTogether
    BY DEF IInv, CallInv, LoginInv, SignedInTogether, Decided
  <1> QED
    BY <1>1, Invariant, PTL

(***************************************************************************)
(* An approval, which writes back a whole row it has read, changes the     *)
(* chat of the row only if another call changed it in between.             *)
(***************************************************************************)
THEOREM ChatKept == Spec => ApprovalKeepsChat
  <1> DEFINE Kept ==
        \A u \in Users :
          profile[u] # NoRecord /\ profile'[u].chat # profile[u].chat
            => \E c \in Calls : /\ call[c].user = u
                                /\ \/ call[c].at = "chat" /\ profile'[u].chat = call[c].chat
                                   \/ call[c].at = "write" /\ call[c].crossed
  <1>1. IInv /\ [Next]_vars => [Kept]_vars
    <2> SUFFICES ASSUME IInv, Next, NEW u \in Users, profile[u] # NoRecord,
                        profile'[u].chat # profile[u].chat
                 PROVE  \E c \in Calls :
                          /\ call[c].user = u
                          /\ \/ call[c].at = "chat" /\ profile'[u].chat = call[c].chat
                             \/ call[c].at = "write" /\ call[c].crossed
      OBVIOUS
    <2>1. PICK c \in Calls : SetTelegramChatId(c) \/ WriteProfile(c)
      BY DEF Next, Login, Approve, Begin, FindByChatId, FindById, LinkPrivyDid,
             FindByPrivyDid, FindByEmail, Create, UpsertSession, Welcome, FindProfile,
             StoreRequest, ResolveUserId, SaveDelegation, FindExisting, DropRequest,
             Answer, Fails, SessionEnds, SetupExpires, tables
    <2>2. CASE SetTelegramChatId(c)
      <3>1. PICK next \in {"welcome", "ok"} :
              WritesProfile(c, WithChat(profile[call[c].user], call[c].chat), next)
        BY <2>2 DEF SetTelegramChatId
      <3>2. /\ profile' = [profile EXCEPT ![call[c].user] =
                              WithChat(profile[call[c].user], call[c].chat)]
            /\ profile \in [Users -> Profile \cup {NoRecord}]
        BY <3>1 DEF WritesProfile, IInv, TypeOK
      <3>3. call[c].user = u /\ profile'[u] = WithChat(profile[u], call[c].chat)
        BY <3>2
      <3>4. profile'[u].chat = call[c].chat
        BY <3>2, <3>3 DEF WithChat, Profile
      <3> QED
        BY <2>2, <3>3, <3>4 DEF SetTelegramChatId
    <2>3. CASE WriteProfile(c)
      <3>1. /\ profile' = [profile EXCEPT ![call[c].user] =
                              WithKey(call[c].read, call[c].did)]
            /\ profile \in [Users -> Profile \cup {NoRecord}]
            /\ call[c].at = "write"
        BY <2>3 DEF WriteProfile, WritesProfile, IInv, TypeOK
      <3>2. call[c].user = u /\ profile'[u] = WithKey(call[c].read, call[c].did)
        BY <3>1
      <3>3. WriteInv(c)
        BY DEF IInv, CallInv
      <3>4. call[c].crossed
        BY <3>1, <3>2, <3>3 DEF WriteInv, WithKey
      <3> QED
        BY <3>1, <3>2, <3>4
    <2> QED
      BY <2>1, <2>2, <2>3
  <1> QED
    BY <1>1, Invariant, PTL DEF Spec, ApprovalKeepsChat
=============================================================================
