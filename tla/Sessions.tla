------------------------------ MODULE Sessions ------------------------------
(***************************************************************************)
(* The login sessions of one user: the rows of user_session, which decide, *)
(* and the Redis keys session:{jti}, blacklist:{jti}, user_blacklist:{id}  *)
(* and refresh_fail:{name} that requests write beside them, before the     *)
(* commit and without a transaction (session_service.py, routers/auth.py,  *)
(* user_service.invalidate_all_sessions).                                  *)
(*                                                                         *)
(* Login, refresh and a change of the user's row hold that row's lock until*)
(* they commit; a logout reads its sessions without any lock.  Commit      *)
(* actions carry the flush that waits for the row locks.                   *)
(***************************************************************************)
EXTENDS FiniteSets, Integers

CONSTANTS
    Rows,          \* rows of user_session
    Jtis,          \* refresh tokens, named by their jti
    Devices,
    Requests,
    MaxSessions,   \* ANOMALY_MAX_SESSIONS_PER_USER
    MaxFailures,   \* REFRESH_MAX_FAILURES
    MaxCounted,    \* bound: no refusal is counted beyond it
    Nobody, NoJti, NoDevice

ASSUME SessionsConstants ==
    /\ MaxSessions \in Nat \ {0}
    /\ MaxFailures \in Nat \ {0}
    /\ MaxCounted \in Nat
    /\ Nobody \notin Requests
    /\ NoJti \notin Jtis
    /\ IsFiniteSet(Rows)
    /\ NoDevice \notin Devices

VARIABLES
    status,       \* of the user's row: only "active" may be given tokens
    row,
    userLock,     \* the request that holds the user's row
    rowLock,      \* the request that holds each session's row
    keys,         \* jtis with a session:{jti}
    dead,         \* jtis with a blacklist:{jti}
    userBlocked,  \* user_blacklist:{id}
    failures,     \* refresh_fail:{name}
    given,        \* tokens some client was answered with
    req,          \* what each request has in memory
    orphaned      \* ghost: rows whose Redis keys a request that failed had touched

vars == <<status, row, userLock, rowLock, keys, dead, userBlocked, failures,
          given, req, orphaned>>
db == <<status, row>>
redis == <<keys, dead, userBlocked, failures>>

Row == [jti : Jtis \cup {NoJti}, device : Devices \cup {NoDevice},
        state : {"absent", "live", "expired", "revoked"}]

Steps == {"idle", "login", "loginFlush", "refresh", "refreshLocked", "staged", "rotated",
          "refused", "counting", "abuse", "offboard", "password", "deactivated",
          "invalidated", "logout", "revoke"}

Request == [at : Steps, device : Devices \cup {NoDevice}, jti : Jtis \cup {NoJti},
            new : Jtis \cup {NoJti}, rows : SUBSET Rows, copy : SUBSET Jtis,
            count : Nat]

\* Rows, Redis keys and requests have their types.  The program does not bound the
\* counter of refusals.
TypeOK ==
    /\ status \in {"active", "inactive"}
    /\ row \in [Rows -> Row]
    /\ userLock \in Requests \cup {Nobody}
    /\ rowLock \in [Rows -> Requests \cup {Nobody}]
    /\ keys \subseteq Jtis
    /\ dead \subseteq Jtis
    /\ userBlocked \in BOOLEAN
    /\ failures \in Nat
    /\ given \subseteq Jtis
    /\ req \in [Requests -> Request]
    /\ orphaned \subseteq Rows

Idle == [at |-> "idle", device |-> NoDevice, jti |-> NoJti, new |-> NoJti,
         rows |-> {}, copy |-> {}, count |-> 0]

Init ==
    /\ status = "active"
    /\ row = [x \in Rows |-> [jti |-> NoJti, device |-> NoDevice, state |-> "absent"]]
    /\ userLock = Nobody
    /\ rowLock = [x \in Rows |-> Nobody]
    /\ keys = {} /\ dead = {} /\ userBlocked = FALSE /\ failures = 0
    /\ given = {}
    /\ req = [r \in Requests |-> Idle]
    /\ orphaned = {}

-----------------------------------------------------------------------------
(* Rows, locks and keys *)

Live == {x \in Rows : row[x].state = "live"}
Unrevoked == {x \in Rows : row[x].state \in {"live", "expired"}}
JtisOf(S) == {row[x].jti : x \in S}

\* A token nobody holds or remembers: a new uuid.
Fresh(j) ==
    /\ j \notin given \cup keys \cup dead
    /\ \A r \in Requests : req[r].new # j

UserFree(r) == userLock \in {Nobody, r}
RowsFree(r, S) == \A x \in S : rowLock[x] \in {Nobody, r}

\* The end of a transaction: every lock of r is free again.
Release(r) ==
    /\ userLock' = IF userLock = r THEN Nobody ELSE userLock
    /\ rowLock' = [x \in Rows |-> IF rowLock[x] = r THEN Nobody ELSE rowLock[x]]

Return(r) == Release(r) /\ req' = [req EXCEPT ![r] = Idle]

\* The Redis fast path of a revocation is best effort: it may be lost.
Forget(js) ==
    /\ UNCHANGED <<userBlocked, failures>>
    /\ \/ keys' = keys \ js /\ dead' = dead \cup js
       \/ UNCHANGED <<keys, dead>>

Revoked(S) == [x \in Rows |-> IF x \in S THEN [row[x] EXCEPT !.state = "revoked"] ELSE row[x]]

\* expires_at passes.
Expire(x) ==
    /\ row[x].state = "live"
    /\ row' = [row EXCEPT ![x].state = "expired"]
    /\ UNCHANGED <<status, userLock, rowLock, redis, given, req, orphaned>>

\* The window of refresh_fail ends.
WindowEnds ==
    /\ failures > 0
    /\ failures' = 0
    /\ UNCHANGED <<db, userLock, rowLock, keys, dead, userBlocked, given, req, orphaned>>

\* A request whose access token names a jti without a live row drops its key.
PurgeStaleKey(j) ==
    /\ j \in (given \cap keys) \ JtisOf(Live)
    /\ keys' = keys \ {j}
    /\ UNCHANGED <<db, userLock, rowLock, dead, userBlocked, failures, given, req, orphaned>>

-----------------------------------------------------------------------------
(* Login: _complete_login_flow, after the password or the second factor *)

\* Authenticated while active; the mint has yet to begin.
LoginBegin(r, d) ==
    /\ req[r].at = "idle"
    /\ status = "active"
    /\ req' = [req EXCEPT ![r].at = "login", ![r].device = d]
    /\ UNCHANGED <<db, userLock, rowLock, redis, given, orphaned>>

LoginDenied(r) ==
    /\ req[r].at = "login"
    /\ UserFree(r)
    /\ status # "active"
    /\ Return(r)
    /\ UNCHANGED <<db, redis, given, orphaned>>

\* The rows a login ends: those of its device, then the oldest above the limit (any
\* of them here: last_activity_at is not modelled).
Evictions(d) ==
    LET same == {x \in Unrevoked : row[x].device = d}
        others == Live \ same
    IN  IF Cardinality(others) < MaxSessions THEN {same}
        ELSE {same \cup (others \ kept) :
                kept \in {K \in SUBSET others : Cardinality(K) = MaxSessions - 1}}

\* Fault: the status is not read again under the lock.
LoginLockUnchecked(r, j) ==
    /\ req[r].at = "login"
    /\ UserFree(r)
    /\ Fresh(j)
    /\ \E x \in Rows : row[x].state = "absent"
    /\ \E S \in Evictions(req[r].device) :
        /\ req' = [req EXCEPT ![r].at = "loginFlush", ![r].new = j, ![r].rows = S]
        /\ \/ keys' = (keys \ JtisOf(S)) \cup {j} /\ dead' = dead \cup JtisOf(S)
           \/ keys' = keys \cup {j} /\ dead' = dead
    /\ userLock' = r
    /\ userBlocked' = FALSE
    /\ UNCHANGED <<db, rowLock, failures, given, orphaned>>

\* Fault: the user's row is not locked.
LoginLockUnlocked(r, j) ==
    /\ req[r].at = "login"
    /\ status = "active"
    /\ Fresh(j)
    /\ \E x \in Rows : row[x].state = "absent"
    /\ \E S \in Evictions(req[r].device) :
        /\ req' = [req EXCEPT ![r].at = "loginFlush", ![r].new = j, ![r].rows = S]
        /\ \/ keys' = (keys \ JtisOf(S)) \cup {j} /\ dead' = dead \cup JtisOf(S)
           \/ keys' = keys \cup {j} /\ dead' = dead
    /\ userBlocked' = FALSE
    /\ UNCHANGED <<db, userLock, rowLock, failures, given, orphaned>>

\* The status is read again under the lock of the user's row.
LoginLock(r, j) ==
    /\ req[r].at = "login"
    /\ UserFree(r)
    /\ status = "active"
    /\ Fresh(j)
    /\ \E x \in Rows : row[x].state = "absent"
    /\ \E S \in Evictions(req[r].device) :
        /\ req' = [req EXCEPT ![r].at = "loginFlush", ![r].new = j, ![r].rows = S]
        /\ \/ keys' = (keys \ JtisOf(S)) \cup {j} /\ dead' = dead \cup JtisOf(S)
           \/ keys' = keys \cup {j} /\ dead' = dead
    /\ userLock' = r
    /\ userBlocked' = FALSE
    /\ UNCHANGED <<db, rowLock, failures, given, orphaned>>

LoginCommit(r) ==
    /\ req[r].at = "loginFlush"
    /\ RowsFree(r, req[r].rows)
    /\ \E x \in Rows :
        /\ row[x].state = "absent"
        /\ row' = [Revoked(req[r].rows) EXCEPT ![x] =
                     [jti |-> req[r].new, device |-> req[r].device, state |-> "live"]]
    /\ given' = given \cup {req[r].new}
    /\ Return(r)
    /\ UNCHANGED <<status, redis, orphaned>>

-----------------------------------------------------------------------------
(* Refresh: rotates the jti of a live row *)

\* Answered with 401, and to be counted in refresh_fail.
Refused == [Idle EXCEPT !.at = "refused"]

\* A token that is none for a refresh is refused before the limit is looked at.
RefreshWrongToken(r) ==
    /\ req[r].at = "idle"
    /\ req' = [req EXCEPT ![r] = Refused]
    /\ UNCHANGED <<db, userLock, rowLock, redis, given, orphaned>>

\* The counter is read and written back in two calls: overlapping refusals may count as
\* one, and go beyond the limit they passed the check of.
CountRead(r) ==
    /\ req[r].at = "refused"
    /\ failures < MaxCounted
    /\ req' = [req EXCEPT ![r].at = "counting", ![r].count = failures]
    /\ UNCHANGED <<db, userLock, rowLock, redis, given, orphaned>>

\* The refusal that reaches the limit goes on to revoke every session, in a transaction
\* that holds nothing yet.
CountWrite(r) ==
    LET count == req[r].count + 1
    IN  /\ req[r].at = "counting"
        /\ failures' = count
        /\ req' = [req EXCEPT ![r] = IF count >= MaxFailures
                                     THEN [Idle EXCEPT !.at = "abuse"] ELSE Idle]
        /\ UNCHANGED <<db, userLock, rowLock, keys, dead, userBlocked, given, orphaned>>

\* The limit and the blacklist are read before any lock.
RefreshBegin(r, j) ==
    /\ req[r].at = "idle"
    /\ failures < MaxFailures
    /\ j \in given
    /\ \/ j \in dead /\ req' = [req EXCEPT ![r] = Refused]
       \/ j \notin dead /\ req' = [req EXCEPT ![r].at = "refresh", ![r].jti = j]
    /\ UNCHANGED <<db, userLock, rowLock, redis, given, orphaned>>

RefreshDenied(r) ==
    /\ req[r].at = "refresh"
    /\ UserFree(r)
    /\ status # "active"
    /\ Return(r)
    /\ UNCHANGED <<db, redis, given, orphaned>>

\* Refused under the user's lock, which the savepoint gives back.  A token without its
\* session key counts as used twice and is blacklisted.
RefreshRefused(r) ==
    /\ req[r].at = "refresh"
    /\ UserFree(r)
    /\ status = "active"
    /\ userBlocked \/ req[r].jti \notin keys
    /\ dead' = IF userBlocked THEN dead ELSE dead \cup {req[r].jti}
    /\ req' = [req EXCEPT ![r] = Refused]
    /\ UNCHANGED <<db, userLock, rowLock, keys, userBlocked, failures, given, orphaned>>

RefreshLock(r) ==
    /\ req[r].at = "refresh"
    /\ UserFree(r)
    /\ status = "active"
    /\ ~userBlocked
    /\ req[r].jti \in keys
    /\ userLock' = r
    /\ req' = [req EXCEPT ![r].at = "refreshLocked"]
    /\ UNCHANGED <<db, rowLock, redis, given, orphaned>>

\* Fault: the row is taken by its token, whatever its state (get_by_jti).
RefreshStageByJti(r, j) ==
    /\ req[r].at = "refreshLocked"
    /\ Fresh(j)
    /\ \E x \in Rows :
        /\ row[x].jti = req[r].jti
        /\ rowLock[x] = Nobody
        /\ rowLock' = [rowLock EXCEPT ![x] = r]
        /\ req' = [req EXCEPT ![r].at = "staged", ![r].new = j, ![r].rows = {x}]
    /\ UNCHANGED <<db, userLock, redis, given, orphaned>>

\* get_live_by_refresh_jti_for_update: waits for the row, then judges it.
RefreshStage(r, j) ==
    /\ req[r].at = "refreshLocked"
    /\ Fresh(j)
    /\ \E x \in Live :
        /\ row[x].jti = req[r].jti
        /\ rowLock[x] = Nobody
        /\ rowLock' = [rowLock EXCEPT ![x] = r]
        /\ req' = [req EXCEPT ![r].at = "staged", ![r].new = j, ![r].rows = {x}]
    /\ UNCHANGED <<db, userLock, redis, given, orphaned>>

\* The row is revoked, expired or gone: nothing is written.
RefreshGone(r) ==
    /\ req[r].at = "refreshLocked"
    /\ req[r].jti \notin JtisOf(Live)
    /\ Return(r)
    /\ UNCHANGED <<db, redis, given, orphaned>>

RefreshRotate(r) ==
    /\ req[r].at = "staged"
    /\ keys' = (keys \ {req[r].jti}) \cup {req[r].new}
    /\ dead' = dead \cup {req[r].jti}
    /\ req' = [req EXCEPT ![r].at = "rotated"]
    /\ UNCHANGED <<db, userLock, rowLock, userBlocked, failures, given, orphaned>>

RefreshCommit(r) ==
    /\ req[r].at = "rotated"
    /\ row' = [x \in Rows |-> IF x \in req[r].rows THEN [row[x] EXCEPT !.jti = req[r].new]
                              ELSE row[x]]
    /\ given' = given \cup {req[r].new}
    /\ failures' = 0
    /\ Return(r)
    /\ UNCHANGED <<status, keys, dead, userBlocked, orphaned>>

\* Fault: the blacklist keeps the old token.
CompensateKeyOnly(r) ==
    /\ req[r].at \in {"staged", "rotated"}
    /\ keys' = (keys \ {req[r].new}) \cup {req[r].jti}
    /\ Return(r)
    /\ UNCHANGED <<db, dead, userBlocked, failures, given, orphaned>>

\* The Redis pipeline or the commit failed: back to the old token, then rollback.
Compensate(r) ==
    /\ req[r].at \in {"staged", "rotated"}
    /\ keys' = (keys \ {req[r].new}) \cup {req[r].jti}
    /\ dead' = dead \ {req[r].jti}
    /\ Return(r)
    /\ UNCHANGED <<db, userBlocked, failures, given, orphaned>>

-----------------------------------------------------------------------------
(* invalidate_all_sessions: after a change of the password, when an account is *)
(* deactivated, or when refreshes failed too often                             *)

\* The flush of the user's row before the sessions are revoked.
ChangeUser(r, what) ==
    /\ req[r].at = "idle"
    /\ userLock = Nobody
    /\ what = "offboard" => status = "active"
    /\ userLock' = r
    /\ req' = [req EXCEPT ![r].at = what]
    /\ UNCHANGED <<db, rowLock, redis, given, orphaned>>

\* Every row not yet revoked is locked; a deactivation insists on the Redis cleanup.
Invalidate(r) ==
    /\ req[r].at \in {"abuse", "password", "offboard"}
    /\ RowsFree(r, Unrevoked)
    /\ rowLock' = [x \in Rows |-> IF x \in Unrevoked THEN r ELSE rowLock[x]]
    /\ userBlocked' = TRUE
    /\ \/ keys' = keys \ JtisOf(Unrevoked) /\ dead' = dead \cup JtisOf(Unrevoked)
       \/ req[r].at # "offboard" /\ UNCHANGED <<keys, dead>>
    /\ req' = [req EXCEPT ![r].rows = Unrevoked,
                          ![r].at = IF req[r].at = "offboard" THEN "deactivated"
                                    ELSE "invalidated"]
    /\ UNCHANGED <<db, userLock, failures, given, orphaned>>

InvalidateCommit(r) ==
    /\ req[r].at \in {"invalidated", "deactivated"}
    /\ row' = Revoked(req[r].rows)
    /\ status' = IF req[r].at = "deactivated" THEN "inactive" ELSE status
    /\ Return(r)
    /\ UNCHANGED <<redis, given, orphaned>>

Reactivate ==
    /\ status = "inactive"
    /\ userLock = Nobody
    /\ status' = "active"
    /\ UNCHANGED <<row, userLock, rowLock, redis, given, req, orphaned>>

-----------------------------------------------------------------------------
(* Revocations that read the rows without a lock *)

\* A logout ends the session of its access token and the one of its cookie.
LogoutRead(r, S) ==
    /\ req[r].at = "idle"
    /\ S \subseteq Live
    /\ Cardinality(S) \in 1..2
    /\ req' = [req EXCEPT ![r].at = "logout", ![r].rows = S, ![r].copy = JtisOf(S)]
    /\ UNCHANGED <<db, userLock, rowLock, redis, given, orphaned>>

LogoutCommit(r) ==
    /\ req[r].at = "logout"
    /\ RowsFree(r, req[r].rows)
    /\ row' = Revoked(req[r].rows)
    /\ Forget(req[r].copy)
    /\ Return(r)
    /\ UNCHANGED <<status, given, orphaned>>

\* revoke_all_other_sessions writes Redis before its flush.
RevokeOthersRead(r, S) ==
    /\ req[r].at = "idle"
    /\ S \subseteq Live
    /\ S # {}
    /\ Forget(JtisOf(S))
    /\ req' = [req EXCEPT ![r].at = "revoke", ![r].rows = S]
    /\ UNCHANGED <<db, userLock, rowLock, given, orphaned>>

RevokeOthersCommit(r) ==
    /\ req[r].at = "revoke"
    /\ RowsFree(r, req[r].rows)
    /\ row' = Revoked(req[r].rows)
    /\ Return(r)
    /\ UNCHANGED <<status, redis, given, orphaned>>

\* revoke_session locks its row before it looks at it.
RevokeOne(x) ==
    /\ x \in Unrevoked
    /\ rowLock[x] = Nobody
    /\ row' = Revoked({x})
    /\ Forget({row[x].jti})
    /\ UNCHANGED <<status, userLock, rowLock, given, req, orphaned>>

\* A failure or a crash between two steps: the transaction is rolled back, what was
\* written to Redis stays.  A login that fails tries to drop the key it had set.
Fail(r) ==
    /\ req[r].at # "idle"
    /\ \/ req[r].at # "logout" /\ UNCHANGED redis
       \/ /\ req[r].at = "loginFlush"
          /\ keys' = keys \ {req[r].new}
          /\ UNCHANGED <<dead, userBlocked, failures>>
       \/ req[r].at = "logout" /\ Forget(req[r].copy)
    /\ orphaned' = IF req[r].at \in {"login", "refresh", "refreshLocked", "staged"}
                   THEN orphaned ELSE orphaned \cup req[r].rows
    /\ Return(r)
    /\ UNCHANGED <<db, given>>

-----------------------------------------------------------------------------
Next ==
    \/ \E x \in Rows : Expire(x) \/ RevokeOne(x)
    \/ \E j \in Jtis : PurgeStaleKey(j)
    \/ WindowEnds
    \/ Reactivate
    \/ \E r \in Requests :
        \/ \E d \in Devices : LoginBegin(r, d)
        \/ LoginDenied(r)
        \/ \E j \in Jtis : LoginLock(r, j) \/ RefreshBegin(r, j) \/ RefreshStage(r, j)
        \/ LoginCommit(r)
        \/ RefreshWrongToken(r)
        \/ CountRead(r)
        \/ CountWrite(r)
        \/ RefreshDenied(r)
        \/ RefreshRefused(r)
        \/ RefreshLock(r)
        \/ RefreshGone(r)
        \/ RefreshRotate(r)
        \/ RefreshCommit(r)
        \/ Compensate(r)
        \/ \E what \in {"password", "offboard"} : ChangeUser(r, what)
        \/ Invalidate(r)
        \/ InvalidateCommit(r)
        \/ \E S \in SUBSET Rows : LogoutRead(r, S) \/ RevokeOthersRead(r, S)
        \/ LogoutCommit(r)
        \/ RevokeOthersCommit(r)
        \/ Fail(r)

Spec == Init /\ [][Next]_vars

-----------------------------------------------------------------------------
(* Properties *)

\* However logins, refreshes and revocations overlap, a user has at most MaxSessions
\* live sessions (_enforce_max_sessions counts rows it does not lock).
SessionLimit == Cardinality(Live) <= MaxSessions

\* A deactivated account has no live session: a login that was authenticated before the
\* deactivation cannot commit its session after it (_complete_login_flow re-reads the
\* status under the row lock, the deactivation flushes before it revokes).
InactiveHasNoLiveSession == status = "inactive" => Live = {}

\* A revoked row never changes again: a refresh that overlaps its revocation neither
\* revives it nor gives it a new token, whatever Redis still says of the old one
\* (get_live_by_refresh_jti_for_update).
RevokedIsFinal ==
    [][\A x \in Rows : row[x].state = "revoked" => row'[x] = row[x]]_vars

\* Nobody is locked out by a refresh that failed: the token of a live session that no
\* request is working on has its session key and is not blacklisted, unless another
\* request touched the row's keys and then failed (_compensate_session_to_old).
LiveIsUsable ==
    \A x \in Live \ orphaned :
        (\A r \in Requests : x \notin req[r].rows) =>
            row[x].jti \in keys /\ row[x].jti \notin dead
=============================================================================
