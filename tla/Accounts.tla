------------------------------- MODULE Accounts -------------------------------
(***************************************************************************)
(* Sign-in and setup: AuthUseCaseImpl.loginWithPrivy over users,           *)
(* telegram_sessions and user_profiles, and the two HTTP handlers that     *)
(* bring an account from a Privy token to an installed session key:        *)
(* POST /auth/privy, and POST /response for requests of type auth and      *)
(* approve.  Every await is a step, and calls run at the same time.        *)
(*                                                                         *)
(* An account is named by its e-mail, which is unique and never changed;   *)
(* one that exists has the Privy identity it was last linked to.           *)
(*                                                                         *)
(* Environment: who opens the mini app with which Privy identity, what     *)
(* e-mail Privy reports for it, /logout and the end of sessions, the end   *)
(* of requests, and faults of the databases and of Telegram.               *)
(***************************************************************************)
EXTENDS AgentDomain, FiniteSets, Naturals

CONSTANTS Identities,  \* Privy ids
          EmailsOf,    \* the e-mails Privy may report for each
          Chats,       \* Telegram chats
          Calls,       \* requests being handled
          Setups,      \* session-key requests of the mini app
          MaxCalls,    \* bound: requests made
          MaxFaults    \* bound: faults

ASSUME EmailsAssumption == EmailsOf \in [Identities -> (SUBSET Users) \ {{}}]
ASSUME RecordAssumption == NoRecord \notin Users \cup Identities \cup Chats \cup Setups
ASSUME BoundAssumption == MaxCalls \in Nat /\ MaxFaults \in Nat

VARIABLES privyDid,     \* users: the identity of each account, NoRecord when there is none
          session,      \* telegram_sessions: the account of each chat
          profile,      \* user_profiles
          delegations,  \* session keys whose record is stored
          setup,        \* open approve requests of subtype session_key, by account
          call,         \* the requests being handled
          made, faults  \* requests made and faults so far

vars == <<privyDid, session, profile, delegations, setup, call, made, faults>>
tables == <<privyDid, session, profile, delegations, setup>>

\* A session key is named by the identity whose wallet installed it.
Profile == [chat: Chats \cup {NoRecord}, key: Identities \cup {NoRecord}]

LoginSteps == {"session", "account", "link", "did", "email", "create", "upsert",
               "chat", "welcome", "profile", "request"}
ApprovalSteps == {"resolve", "save", "existing", "write", "drop"}

\* alone: no other call, and no end of the chat's session, since the call began.
\* crossed: another call changed the chat of the profile since this one read it.
Call == [at: LoginSteps \cup ApprovalSteps \cup {"idle", "ok", "failed"},
         route: {"auth/privy", "response"},
         did: Identities \cup {NoRecord}, email: Users \cup {NoRecord},
         chat: Chats \cup {NoRecord}, user: Users \cup {NoRecord},
         setup: Setups \cup {NoRecord}, read: Profile \cup {NoRecord},
         alone: BOOLEAN, crossed: BOOLEAN, faulted: BOOLEAN]

NewCall == [at |-> "idle", route |-> "auth/privy", did |-> NoRecord, email |-> NoRecord,
            chat |-> NoRecord, user |-> NoRecord, setup |-> NoRecord, read |-> NoRecord,
            alone |-> TRUE, crossed |-> FALSE, faulted |-> FALSE]

Active(c) == call[c].at # "idle"

\* The call after a step of it.
Goes(c, at) == call' = [call EXCEPT ![c].at = at]
GoesFor(c, at, u) == call' = [call EXCEPT ![c].at = at, ![c].user = u]

\* The row p of the profile of c's account is written, and c goes on.
WritesProfile(c, p, at) ==
    LET u == call[c].user
        crosses(d) == /\ call[d].at = "write" /\ call[d].user = u
                      /\ profile[u] = NoRecord \/ profile[u].chat # p.chat
    IN /\ profile' = [profile EXCEPT ![u] = p]
       /\ call' = [d \in Calls |-> IF d = c THEN [call[d] EXCEPT !.at = at]
                                  ELSE [call[d] EXCEPT !.crossed = @ \/ crosses(d)]]

\* What findByPrivyDid finds: privy_did is unique.
OwnersOf(did) == {u \in Users : privyDid[u] = did}

Init ==
    /\ privyDid = [u \in Users |-> NoRecord]
    /\ session = [c \in Chats |-> NoRecord]
    /\ profile = [u \in Users |-> NoRecord]
    /\ delegations = {}
    /\ setup = [s \in Setups |-> NoRecord]
    /\ call = [c \in Calls |-> NewCall]
    /\ made = 0 /\ faults = 0

-----------------------------------------------------------------------------
(* loginWithPrivy *)

\* A call begins: it is alone if no other is being handled, and the others no
\* longer are.
Begin(c, fields) ==
    /\ ~Active(c) /\ made < MaxCalls
    /\ made' = made + 1
    /\ call' = [d \in Calls |->
                  IF d = c THEN [fields EXCEPT !.alone = \A e \in Calls : ~Active(e)]
                  ELSE [call[d] EXCEPT !.alone = FALSE]]
    /\ UNCHANGED <<tables, faults>>

\* The e-mail is Google's, Privy's own, or one made of the Telegram id.
VerifyToken(did) == EmailsOf[did]

\* POST /auth/privy, with or without a chat, or POST /response to the request the
\* bot gave to a chat that is not signed in.  verifyToken reports the e-mail.
Login(c) ==
    \E route \in {"auth/privy", "response"}, did \in Identities, chat \in Chats \cup {NoRecord} :
      \E email \in VerifyToken(did) :
        /\ route = "response" => chat # NoRecord
        /\ Begin(c, [NewCall EXCEPT !.at = IF chat = NoRecord THEN "did" ELSE "session",
                                    !.route = route, !.did = did, !.email = email,
                                    !.chat = chat])

\* findByChatId; whether the session has ended is not asked.
FindByChatId(c) ==
    /\ call[c].at = "session"
    /\ LET u == session[call[c].chat]
       IN IF u = NoRecord THEN Goes(c, "did") ELSE GoesFor(c, "account", u)
    /\ UNCHANGED <<tables, made, faults>>

\* Mutation: the session's account is taken as it is, without linking it.
SessionAsItIs(c) == "upsert"

\* The account of the session is taken over by another identity.
NextOfSession(c) == IF privyDid[call[c].user] # call[c].did THEN "link" ELSE "upsert"

\* findById of the session's account, rows of which are never deleted.
FindById(c) ==
    /\ call[c].at = "account"
    /\ Goes(c, NextOfSession(c))
    /\ UNCHANGED <<tables, made, faults>>

\* linkPrivyDid; the unique index refuses an identity that another account has.
LinkPrivyDid(c) ==
    /\ call[c].at = "link"
    /\ LET u == call[c].user
       IN IF OwnersOf(call[c].did) \subseteq {u}
          THEN privyDid' = [privyDid EXCEPT ![u] = call[c].did] /\ Goes(c, "upsert")
          ELSE Goes(c, "failed") /\ UNCHANGED privyDid
    /\ UNCHANGED <<session, profile, delegations, setup, made, faults>>

\* Mutation: an unknown identity is a new account, without a look at its e-mail.
CreateAtOnce(c) == "create"

\* Where a login goes on when no account has the identity.
NextOfUnknown(c) == "email"

\* findByPrivyDid.
FindByPrivyDid(c) ==
    /\ call[c].at = "did"
    /\ IF OwnersOf(call[c].did) = {} THEN Goes(c, NextOfUnknown(c))
       ELSE \E u \in OwnersOf(call[c].did) : GoesFor(c, "upsert", u)
    /\ UNCHANGED <<tables, made, faults>>

\* findByEmail: the account of the e-mail is linked to the identity.
FindByEmail(c) ==
    /\ call[c].at = "email"
    /\ LET u == call[c].email
       IN IF privyDid[u] # NoRecord THEN GoesFor(c, "link", u) ELSE Goes(c, "create")
    /\ UNCHANGED <<tables, made, faults>>

\* userDB.create; e-mail and identity are both unique.
Create(c) ==
    /\ call[c].at = "create"
    /\ LET u == call[c].email
       IN IF privyDid[u] = NoRecord /\ OwnersOf(call[c].did) = {}
          THEN privyDid' = [privyDid EXCEPT ![u] = call[c].did] /\ GoesFor(c, "upsert", u)
          ELSE Goes(c, "failed") /\ UNCHANGED privyDid
    /\ UNCHANGED <<session, profile, delegations, setup, made, faults>>

\* telegramSessionDB.upsert, when the login comes with a chat.
UpsertSession(c) ==
    /\ call[c].at = "upsert"
    /\ IF call[c].chat = NoRecord THEN Goes(c, "ok") /\ UNCHANGED session
       ELSE Goes(c, "chat") /\ session' = [session EXCEPT ![call[c].chat] = call[c].user]
    /\ UNCHANGED <<privyDid, profile, delegations, setup, made, faults>>

\* Mutation: the other columns of the row are lost.
ChatOnly(p, chat) == [chat |-> chat]

\* What setTelegramChatId writes: a row with no key, or the chat of the row.
WithChat(p, chat) == IF p = NoRecord THEN [chat |-> chat, key |-> NoRecord]
                     ELSE [p EXCEPT !.chat = chat]

\* setTelegramChatId.  Its failure is logged and the login goes on.
SetTelegramChatId(c) ==
    /\ call[c].at = "chat"
    /\ LET next == IF call[c].route = "response" THEN "welcome" ELSE "ok"
       IN \/ /\ WritesProfile(c, WithChat(profile[call[c].user], call[c].chat), next)
             /\ UNCHANGED faults
          \/ /\ faults < MaxFaults /\ faults' = faults + 1
             /\ Goes(c, next) /\ UNCHANGED profile
    /\ UNCHANGED <<privyDid, session, delegations, setup, made>>

-----------------------------------------------------------------------------
(* POST /response of type auth, after the login *)

\* The message to the chat is sent and the auth request deleted.
Welcome(c) ==
    /\ call[c].at = "welcome"
    /\ Goes(c, "profile")
    /\ UNCHANGED <<tables, made, faults>>

\* An account without a session key is asked to install one.
FindProfile(c) ==
    /\ call[c].at = "profile"
    /\ LET p == profile[call[c].user]
       IN Goes(c, IF p = NoRecord \/ p.key = NoRecord THEN "request" ELSE "ok")
    /\ UNCHANGED <<tables, made, faults>>

StoreRequest(c) ==
    /\ call[c].at = "request"
    /\ \E s \in Setups : setup[s] = NoRecord /\ setup' = [setup EXCEPT ![s] = call[c].user]
    /\ Goes(c, "ok")
    /\ UNCHANGED <<privyDid, session, profile, delegations, made, faults>>

-----------------------------------------------------------------------------
(* POST /response of type approve, subtype session_key *)

\* The request is retrieved; the token comes from whoever is signed in to the app.
Approve(c) ==
    \E s \in Setups, did \in Identities :
      /\ setup[s] # NoRecord
      /\ Begin(c, [NewCall EXCEPT !.at = "resolve", !.route = "response", !.did = did,
                                  !.setup = s, !.user = setup[s]])

\* resolveUserId, and whether the request is the caller's; a refusal of the setup
\* only drops the request.
ResolveUserId(c) ==
    /\ call[c].at = "resolve"
    /\ IF call[c].user \in OwnersOf(call[c].did)
       THEN \E next \in {"save", "drop"} : Goes(c, next)
       ELSE Goes(c, "failed")
    /\ UNCHANGED <<tables, made, faults>>

\* sessionDelegationUseCase.save.
SaveDelegation(c) ==
    /\ call[c].at = "save"
    /\ delegations' = delegations \cup {call[c].did}
    /\ Goes(c, "existing")
    /\ UNCHANGED <<privyDid, session, profile, setup, made, faults>>

\* findByUserId, to copy what the approval does not change.
FindExisting(c) ==
    /\ call[c].at = "existing"
    /\ call' = [call EXCEPT ![c].at = "write", ![c].read = profile[call[c].user],
                            ![c].crossed = FALSE]
    /\ UNCHANGED <<tables, made, faults>>

\* Mutation: the update of an approval leaves the chat out, which nulls it.
KeyOnly(p, did) == [chat |-> NoRecord, key |-> did]

\* The row upsert or update writes: every column, the chat from what was read.
WithKey(p, did) == [chat |-> IF p = NoRecord THEN NoRecord ELSE p.chat, key |-> did]

WriteProfile(c) ==
    /\ call[c].at = "write"
    /\ WritesProfile(c, WithKey(call[c].read, call[c].did), "drop")
    /\ UNCHANGED <<privyDid, session, delegations, setup, made, faults>>

\* The message is sent and the request deleted.
DropRequest(c) ==
    /\ call[c].at = "drop"
    /\ setup' = [setup EXCEPT ![call[c].setup] = NoRecord]
    /\ Goes(c, "ok")
    /\ UNCHANGED <<privyDid, session, profile, delegations, made, faults>>

-----------------------------------------------------------------------------
(* Answers, ends and faults *)

Answer(c) ==
    /\ call[c].at \in {"ok", "failed"}
    /\ call' = [call EXCEPT ![c] = NewCall]
    /\ UNCHANGED <<tables, made, faults>>

\* /logout, or the first message after the end of the session.
SessionEnds(chat) ==
    /\ session[chat] # NoRecord
    /\ session' = [session EXCEPT ![chat] = NoRecord]
    /\ call' = [c \in Calls |-> IF call[c].chat = chat
                                THEN [call[c] EXCEPT !.alone = FALSE] ELSE call[c]]
    /\ UNCHANGED <<privyDid, profile, delegations, setup, made, faults>>

\* The entry of a request lives for ten minutes.
SetupExpires(s) ==
    /\ setup[s] # NoRecord
    /\ setup' = [setup EXCEPT ![s] = NoRecord]
    /\ UNCHANGED <<privyDid, session, profile, delegations, call, made, faults>>

\* An await throws, or the process stops: the caller has no answer or a 500.
Fails(c) ==
    /\ call[c].at \in LoginSteps \cup ApprovalSteps
    /\ faults < MaxFaults /\ faults' = faults + 1
    /\ call' = [call EXCEPT ![c].at = "failed", ![c].faulted = TRUE]
    /\ UNCHANGED <<tables, made>>

Next ==
    \/ \E c \in Calls :
         \/ Login(c) \/ FindByChatId(c) \/ FindById(c) \/ LinkPrivyDid(c)
         \/ FindByPrivyDid(c) \/ FindByEmail(c) \/ Create(c)
         \/ UpsertSession(c) \/ SetTelegramChatId(c)
         \/ Welcome(c) \/ FindProfile(c) \/ StoreRequest(c)
         \/ Approve(c) \/ ResolveUserId(c) \/ SaveDelegation(c)
         \/ FindExisting(c) \/ WriteProfile(c) \/ DropRequest(c)
         \/ Answer(c) \/ Fails(c)
    \/ \E chat \in Chats : SessionEnds(chat)
    \/ \E s \in Setups : SetupExpires(s)

Spec == Init /\ [][Next]_vars

-----------------------------------------------------------------------------
(* Properties *)

\* The tables hold accounts, identities and chats, and no identity two accounts.
TypeOK ==
    /\ privyDid \in [Users -> Identities \cup {NoRecord}]
    /\ \A did \in Identities : Cardinality(OwnersOf(did)) <= 1
    /\ session \in [Chats -> Users \cup {NoRecord}]
    /\ profile \in [Users -> Profile \cup {NoRecord}]
    /\ delegations \subseteq Identities
    /\ setup \in [Setups -> Users \cup {NoRecord}]
    /\ call \in [Calls -> Call]
    /\ made \in 0..MaxCalls /\ faults \in 0..MaxFaults

\* A login that no other call overlapped, and that met no fault, fails only when
\* the chat is signed in to one account and the identity belongs to another.  So
\* a login that lost a race against another one succeeds when it is retried.
LoneLoginsSucceed ==
    \A c \in Calls :
      call[c].at = "failed" /\ call[c].alone /\ ~call[c].faulted /\ call[c].email # NoRecord
        => /\ call[c].chat # NoRecord
           /\ OwnersOf(call[c].did) # {}
           /\ session[call[c].chat] \notin OwnersOf(call[c].did) \cup {NoRecord}

\* When a login that no other call overlapped has succeeded, the token it was
\* made with resolves to the account its chat is signed in to: the requests that
\* the bot creates for that account are those the mini app may answer.
SignedInTogether ==
    \A c \in Calls :
      call[c].at = "ok" /\ call[c].alone /\ call[c].email # NoRecord
        => /\ OwnersOf(call[c].did) = {call[c].user}
           /\ call[c].chat # NoRecord => session[call[c].chat] = call[c].user

\* The chat of a profile, to which nudges go, changes only to the chat of a login
\* of that account: an approval, which writes the whole row, brings an older
\* value back only when another call changed it between its read and its write.
ApprovalKeepsChat ==
    [][\A u \in Users :
         profile[u] # NoRecord /\ profile'[u].chat # profile[u].chat
           => \E c \in Calls : /\ call[c].user = u
                               /\ \/ call[c].at = "chat" /\ profile'[u].chat = call[c].chat
                                  \/ call[c].at = "write" /\ call[c].crossed]_vars
=============================================================================
