----------------------------- MODULE RequestCaches -----------------------------
(***************************************************************************)
(* The two Redis caches of one pending signature, shared by the worker     *)
(* process (which creates requests and waits for them) and by every HTTP   *)
(* replica (which serves and resolves them):                               *)
(*                                                                         *)
(*   sign_req:<id>              the signing record    RedisSigningRequestCache *)
(*   mini_app_req:<id>          what the mini app is served                *)
(*   user_pending_signs:<user>  the sorted set behind `?after=`            *)
(*                              the last two: RedisMiniAppRequestCache     *)
(*                                                                         *)
(* Request ids are uuids in the code.  Here they are numbers handed out in *)
(* the order of creation, so that the order of the sorted set (its score   *)
(* is createdAt) is the order of the ids.  Two requests of one user that   *)
(* are created within the same second, which Redis would order by uuid,    *)
(* are not distinguished.                                                  *)
(*                                                                         *)
(* Time is a countdown, as Redis's own TTL is: `left` is the number of     *)
(* ticks to expiresAt, `ttl` the remaining life of the key (NoTtl: none).  *)
(* expiresAt is compared with a clock that is rounded down to a second, so *)
(* a key lives a fraction of a second longer than its record is valid: one *)
(* tick here.                                                              *)
(***************************************************************************)
EXTENDS AgentDomain, Integers

CONSTANTS Requests,   \* the request ids
          SignTtl     \* SIGN_REQUEST_TTL_SECONDS and REQUEST_TTL_SECONDS, 600 s

ASSUME RequestsAssumption == Requests \subseteq Nat
ASSUME SignTtlAssumption == SignTtl \in Nat \ {0}

VARIABLES signReq,    \* sign_req:<id>
          miniReq,    \* mini_app_req:<id>
          signQueue   \* user_pending_signs:<user>

cacheVars == <<signReq, miniReq, signQueue>>

NoTtl == -1

\* The status "expired" of the record's type is written nowhere.
Status == {"pending", "approved", "rejected"}

SignRecord == [user: Users, status: Status, hashed: BOOLEAN, amount: Nat,
               left: Nat, ttl: Nat \cup {NoTtl}]

MiniRecord == [user: Users, left: Nat, ttl: Nat]

ASSUME NoRecordAssumption == NoRecord \notin SignRecord /\ NoRecord \notin MiniRecord

CachesTypeOK ==
    /\ signReq \in [Requests -> SignRecord \cup {NoRecord}]
    /\ miniReq \in [Requests -> MiniRecord \cup {NoRecord}]
    /\ signQueue \in [Users -> SUBSET Requests]

CachesInit ==
    /\ signReq = [r \in Requests |-> NoRecord]
    /\ miniReq = [r \in Requests |-> NoRecord]
    /\ signQueue = [u \in Users |-> {}]

--------------------------------------------------------------------------------
(* The signing cache.                                                      *)

Less(n) == IF n > 0 THEN n - 1 ELSE 0

\* SigningRequestUseCase.create, through save: SET ... EX ttl.  Every caller
\* passes expiresAt = now + 600, so the floor of 10 seconds never applies.
\* amount is 0 when the record carries no tokenAddress and amountRaw.
SaveSigning(r, u, amount) ==
    signReq' = [signReq EXCEPT ![r] =
                   [user |-> u, status |-> "pending", hashed |-> FALSE,
                    amount |-> amount, left |-> SignTtl, ttl |-> SignTtl + 1]]

\* What a reader gets: the JSON under the key, which does not say when the key expires.
Body(rec) == [rec EXCEPT !.ttl = NoTtl]

\* The second half of resolve: SET ... KEEPTTL of the record that the first
\* half read.  KEEPTTL keeps the TTL of the key that is there; if the key went
\* in between, the SET creates it again, with no TTL.
WriteResolution(r, rec, status, hashed) ==
    signReq' = [signReq EXCEPT ![r] =
                   [rec EXCEPT !.status = status, !.hashed = hashed,
                               !.ttl = IF signReq[r] = NoRecord THEN NoTtl
                                       ELSE signReq[r].ttl]]

--------------------------------------------------------------------------------
(* The mini-app cache and its queue.                                       *)

\* store of a request of type "sign": SET EX, ZADD, EXPIRE.  Nobody else knows
\* the id before store returns, so the three commands are one step.  The key
\* user_pending_signs gets a fresh TTL with every store and so outlives each
\* record it lists; its own expiry is left out.
StoreMini(r, u, left) ==
    /\ miniReq' = [miniReq EXCEPT ![r] =
                      [user |-> u, left |-> left, ttl |-> SignTtl + 1]]
    /\ signQueue' = [signQueue EXCEPT ![u] = @ \cup {r}]

\* delete is GET, DEL, and ZREM if the GET found the record.
DropMini(r) == miniReq' = [miniReq EXCEPT ![r] = NoRecord]
Dequeue(u, r) == signQueue' = [signQueue EXCEPT ![u] = @ \ {r}]

\* The queue entries of u that still have a record.
LiveEntries(u) == {r \in signQueue[u] : miniReq[r] # NoRecord}

\* r is what findNextPendingSignForUser(u) returns: the first live entry.
IsNextPending(u, r) ==
    /\ r \in LiveEntries(u)
    /\ \A q \in LiveEntries(u) : r <= q

\* findNextPendingSignForUser removes the stale entries it meets before it
\* finds a live one.
EvictStale(u) ==
    signQueue' = [signQueue EXCEPT ![u] =
                     {r \in @ : \/ miniReq[r] # NoRecord
                                \/ \E q \in LiveEntries(u) : q < r}]

--------------------------------------------------------------------------------
(* One tick of time: records age, and Redis drops the keys whose TTL ran   *)
(* out.                                                                    *)

AgedSign(rec) ==
    IF rec = NoRecord \/ rec.ttl = 1 THEN NoRecord
    ELSE [rec EXCEPT !.left = Less(@), !.ttl = IF @ = NoTtl THEN @ ELSE Less(@)]

\* A copy of a record in a handler's memory: its expiresAt comes closer too.
AgedCopy(rec) == IF rec = NoRecord THEN rec ELSE [rec EXCEPT !.left = Less(@)]

AgedMini(rec) ==
    IF rec = NoRecord \/ rec.ttl = 1 THEN NoRecord
    ELSE [rec EXCEPT !.left = Less(@), !.ttl = Less(@)]

CachesTick ==
    /\ signReq' = [r \in Requests |-> AgedSign(signReq[r])]
    /\ miniReq' = [r \in Requests |-> AgedMini(miniReq[r])]
    /\ UNCHANGED signQueue
================================================================================
