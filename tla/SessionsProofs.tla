--------------------------- MODULE SessionsProofs ---------------------------
(***************************************************************************)
(* Proofs about Sessions for every set of rows, tokens, devices and        *)
(* requests and every limit: a revoked session stays revoked, a            *)
(* deactivated account has no live one, no more are live than allowed, and *)
(* the token of a live one keeps working.                                  *)
(*                                                                         *)
(* What makes the first three inductive is who holds which lock while a    *)
(* request has a row in memory (HoldersKnow): the user's row from the      *)
(* check of the status to the commit of a login, a refresh or a            *)
(* deactivation, and the row of the session from the look at its state to  *)
(* the rotation.  The last adds what a request knows of the tokens         *)
(* (Knows): the new one is nobody else's, the old one and the copies of a  *)
(* logout belong to the rows it has in memory.                             *)
(***************************************************************************)
EXTENDS Sessions, FiniteSetTheorems, TLAPS

\* Every session that was not revoked has a token, and a request that has one in hand
\* knows which.
TokensKnown ==
    /\ \A x \in Rows : row[x].state \in {"live", "expired"} => row[x].jti \in Jtis
    /\ \A r \in Requests :
         /\ req[r].at \in {"refresh", "refreshLocked", "staged", "rotated"} => req[r].jti \in Jtis
         /\ req[r].at \in {"loginFlush", "staged", "rotated"} => req[r].new \in Jtis

\* The locks behind what a request has read.
HoldersKnow ==
    \A r \in Requests :
        /\ req[r].at \in {"loginFlush", "refreshLocked", "staged", "rotated"} =>
             userLock = r /\ status = "active"
        /\ req[r].at \in {"password", "offboard", "deactivated"} => userLock = r
        /\ req[r].at \in {"invalidated", "deactivated"} => \A x \in req[r].rows : rowLock[x] = r
        /\ req[r].at = "deactivated" => Live \subseteq req[r].rows
        /\ req[r].at \in {"staged", "rotated"} =>
             \A x \in req[r].rows : rowLock[x] = r /\ row[x].state \in {"live", "expired"}

\* A login that has chosen what to end leaves room for its own session.
RoomForLogin ==
    \A r \in Requests : req[r].at = "loginFlush" => Cardinality(Live \ req[r].rows) < MaxSessions

Inv == TypeOK /\ TokensKnown /\ HoldersKnow /\ InactiveHasNoLiveSession
             /\ RoomForLogin /\ SessionLimit

\* An idle request is one.
LEMMA IdleTyped == Idle \in Request
  BY DEF Idle, Request, Steps

\* Sets of rows that are live or not revoked have tokens.
LEMMA TokensOfRows ==
    ASSUME TypeOK, TokensKnown, NEW S \in SUBSET Unrevoked
    PROVE  S \subseteq Rows /\ JtisOf(S) \subseteq Jtis
  BY DEF TypeOK, TokensKnown, Unrevoked, JtisOf, Row

\* The rows of a login to come are rows that are not revoked.
LEMMA EvictedAreRows ==
    ASSUME NEW d, NEW S \in Evictions(d)
    PROVE  S \subseteq Unrevoked
  BY DEF Evictions, Unrevoked, Live

\* Revoked writes rows.
LEMMA RevokedTyped ==
    ASSUME TypeOK, NEW S \in SUBSET Rows
    PROVE  /\ Revoked(S) \in [Rows -> Row]
           /\ \A x \in S : Revoked(S)[x].state = "revoked" /\ Revoked(S)[x].jti = row[x].jti
           /\ \A x \in Rows \ S : Revoked(S)[x] = row[x]
           /\ \A x \in Rows : row[x].state = "revoked" => Revoked(S)[x] = row[x]
  BY DEF TypeOK, Revoked, Row

\* The end of a request frees its own locks and no others.
LEMMA Returned ==
    ASSUME TypeOK, NEW r \in Requests, Return(r)
    PROVE  /\ userLock' \in Requests \cup {Nobody}
           /\ rowLock' \in [Rows -> Requests \cup {Nobody}]
           /\ req' \in [Requests -> Request] /\ req'[r] = Idle
           /\ \A o \in Requests \ {r} : req'[o] = req[o]
           /\ \A o \in Requests \ {r} : userLock = o => userLock' = o
           /\ \A o \in Requests \ {r} : \A x \in Rows : rowLock[x] = o => rowLock'[x] = o
  BY IdleTyped DEF TypeOK, Return, Release

-----------------------------------------------------------------------------
(* Three kinds of steps *)

\* What a step that leaves the rows and the status alone has to show of the request it
\* moves on.
MayBe(r, t) ==
    /\ t \in Request
    /\ t.at \in {"refresh", "refreshLocked", "staged", "rotated"} => t.jti \in Jtis
    /\ t.at \in {"loginFlush", "staged", "rotated"} => t.new \in Jtis
    /\ t.at \in {"loginFlush", "refreshLocked", "staged", "rotated"} =>
         userLock' = r /\ status = "active"
    /\ t.at \in {"password", "offboard", "deactivated"} => userLock' = r
    /\ t.at \in {"invalidated", "deactivated"} => \A x \in t.rows : rowLock'[x] = r
    /\ t.at = "deactivated" => Live \subseteq t.rows
    /\ t.at \in {"staged", "rotated"} =>
         \A x \in t.rows : rowLock'[x] = r /\ row[x].state \in {"live", "expired"}
    /\ t.at = "loginFlush" => Cardinality(Live \ t.rows) < MaxSessions

\* A request that moves on takes no lock another one holds.
LEMMA RequestStep ==
    ASSUME Inv, NEW r \in Requests, NEW t, MayBe(r, t), UNCHANGED db,
           req' = [req EXCEPT ![r] = t],
           userLock' \in Requests \cup {Nobody},
           rowLock' \in [Rows -> Requests \cup {Nobody}],
           \A o \in Requests \ {r} : userLock = o => userLock' = o,
           \A o \in Requests \ {r} : \A x \in Rows : rowLock[x] = o => rowLock'[x] = o,
           keys' \subseteq Jtis, dead' \subseteq Jtis, userBlocked' \in BOOLEAN,
           failures' \in Nat, given' \subseteq Jtis, orphaned' \subseteq Rows
    PROVE  Inv'
  <1> USE DEF db
  <1>1. /\ req' \in [Requests -> Request] /\ req'[r] = t
        /\ \A o \in Requests \ {r} : req'[o] = req[o] /\ req[o] \in Request
    BY DEF Inv, TypeOK, MayBe
  <1>2. TypeOK'
    BY <1>1 DEF Inv, TypeOK
  <1>3. Live' = Live
    BY DEF Live
  <1>4. TokensKnown'
    BY <1>1 DEF Inv, TokensKnown, MayBe
  <1>5. \A o \in Requests : req[o].rows \subseteq Rows
    BY DEF Inv, TypeOK, Request
  <1>6. ASSUME NEW o \in Requests
        PROVE  /\ req'[o].at \in {"loginFlush", "refreshLocked", "staged", "rotated"} =>
                    userLock' = o /\ status' = "active"
               /\ req'[o].at \in {"password", "offboard", "deactivated"} => userLock' = o
               /\ req'[o].at \in {"invalidated", "deactivated"} =>
                    \A x \in req'[o].rows : rowLock'[x] = o
               /\ req'[o].at = "deactivated" => Live' \subseteq req'[o].rows
               /\ req'[o].at \in {"staged", "rotated"} =>
                    \A x \in req'[o].rows : rowLock'[x] = o /\ row'[x].state \in {"live", "expired"}
               /\ req'[o].at = "loginFlush" => Cardinality(Live' \ req'[o].rows) < MaxSessions
    <2>1. CASE o = r
      BY <1>1, <1>3, <2>1 DEF MayBe
    <2>2. CASE o # r
      BY <1>1, <1>3, <1>5, <2>2 DEF Inv, HoldersKnow, RoomForLogin
    <2> QED BY <2>1, <2>2
  <1>7. HoldersKnow' /\ RoomForLogin'
    BY <1>6 DEF HoldersKnow, RoomForLogin
  <1>8. InactiveHasNoLiveSession' /\ SessionLimit'
    BY <1>3 DEF Inv, InactiveHasNoLiveSession, SessionLimit
  <1> QED BY <1>2, <1>4, <1>7, <1>8 DEF Inv

\* Rows that are locked by another request are left alone, except that they may expire;
\* nothing becomes live; the status stays.
LEMMA FewerLive ==
    ASSUME Inv, UNCHANGED status, TypeOK', Live' \subseteq Live,
           NEW R \in SUBSET Requests,
           \A x \in Rows : row'[x].state \in {"live", "expired"} => row'[x].jti \in Jtis,
           \A r \in R : req'[r] = Idle,
           \A o \in Requests \ R :
               /\ req'[o] = req[o]
               /\ userLock = o => userLock' = o
               /\ \A x \in Rows : rowLock[x] = o =>
                    /\ rowLock'[x] = o
                    /\ row[x].state \in {"live", "expired"} => row'[x].state \in {"live", "expired"}
    PROVE  Inv'
  <1>1. Idle.at = "idle"
    BY DEF Idle
  <1>2. TokensKnown'
    BY <1>1 DEF Inv, TokensKnown
  <1>3. /\ IsFiniteSet(Live) /\ Cardinality(Live) \in Nat /\ Cardinality(Live') \in Nat
        /\ Cardinality(Live') <= Cardinality(Live)
    <2>1. Live \subseteq Rows
      BY DEF Live
    <2>2. IsFiniteSet(Live)
      BY <2>1, SessionsConstants, FS_Subset
    <2>3. IsFiniteSet(Live') /\ Cardinality(Live') <= Cardinality(Live)
      BY <2>2, FS_Subset
    <2> QED BY <2>2, <2>3, FS_CardinalityType
  <1>4. SessionLimit'
    BY <1>3, SessionsConstants DEF Inv, SessionLimit
  <1>5. InactiveHasNoLiveSession'
    BY DEF Inv, InactiveHasNoLiveSession
  <1>6. ASSUME NEW o \in Requests, req'[o].at = "loginFlush"
        PROVE  Cardinality(Live' \ req'[o].rows) < MaxSessions
    <2>1. o \notin R /\ req'[o] = req[o]
      BY <1>1, <1>6
    <2> DEFINE S == Live \ req[o].rows
               T == Live' \ req[o].rows
    <2>2. T \subseteq S /\ IsFiniteSet(S)
      BY <1>3, FS_Subset
    <2>3. Cardinality(T) <= Cardinality(S) /\ Cardinality(T) \in Nat /\ Cardinality(S) \in Nat
      BY <2>2, FS_Subset, FS_CardinalityType
    <2>4. Cardinality(S) < MaxSessions
      BY <1>6, <2>1 DEF Inv, RoomForLogin
    <2> HIDE DEF S, T
    <2>5. Cardinality(T) < MaxSessions
      BY <2>3, <2>4, SessionsConstants
    <2> QED BY <2>1, <2>5 DEF T
  <1>7. RoomForLogin'
    BY <1>6 DEF RoomForLogin
  <1>8. \A o \in Requests : req[o].rows \subseteq Rows
    BY DEF Inv, TypeOK, Request
  <1>9. ASSUME NEW o \in Requests
        PROVE  /\ req'[o].at \in {"loginFlush", "refreshLocked", "staged", "rotated"} =>
                    userLock' = o /\ status' = "active"
               /\ req'[o].at \in {"password", "offboard", "deactivated"} => userLock' = o
               /\ req'[o].at \in {"invalidated", "deactivated"} =>
                    \A x \in req'[o].rows : rowLock'[x] = o
               /\ req'[o].at = "deactivated" => Live' \subseteq req'[o].rows
               /\ req'[o].at \in {"staged", "rotated"} =>
                    \A x \in req'[o].rows : rowLock'[x] = o /\ row'[x].state \in {"live", "expired"}
    <2>1. CASE o \in R
      BY <1>1, <2>1
    <2>2. CASE o \notin R
      BY <1>8, <2>2 DEF Inv, HoldersKnow
    <2> QED BY <2>1, <2>2
  <1>10. HoldersKnow'
    BY <1>9 DEF HoldersKnow
  <1> QED BY <1>2, <1>4, <1>5, <1>7, <1>10 DEF Inv

\* The same for a step of no request.
LEMMA FewerLiveAlone ==
    ASSUME Inv, UNCHANGED <<status, userLock, rowLock, req>>, TypeOK', Live' \subseteq Live,
           \A x \in Rows : row'[x].state \in {"live", "expired"} => row'[x].jti \in Jtis,
           \A o \in Requests : \A x \in Rows :
               rowLock[x] = o /\ row[x].state \in {"live", "expired"} =>
                   row'[x].state \in {"live", "expired"}
    PROVE  Inv'
  <1>1. PICK R \in SUBSET Requests : R = {}
    OBVIOUS
  <1>2. /\ \A r \in R : req'[r] = Idle
        /\ \A o \in Requests \ R :
             /\ req'[o] = req[o]
             /\ userLock = o => userLock' = o
             /\ \A x \in Rows : rowLock[x] = o =>
                  /\ rowLock'[x] = o
                  /\ row[x].state \in {"live", "expired"} => row'[x].state \in {"live", "expired"}
    BY <1>1
  <1> QED BY <1>2, FewerLive

-----------------------------------------------------------------------------
(* Steps of a request that leave the rows alone *)

\* A request that ends without a commit: its locks are free again.
LEMMA EndStep ==
    ASSUME Inv, NEW r \in Requests, Return(r), UNCHANGED <<db, given>>,
           keys' \subseteq Jtis, dead' \subseteq Jtis, userBlocked' \in BOOLEAN,
           failures' \in Nat, orphaned' \subseteq Rows
    PROVE  Inv'
  <1>1. req' = [req EXCEPT ![r] = Idle]
    BY DEF Return
  <1>2. MayBe(r, Idle)
    BY IdleTyped DEF MayBe, Idle
  <1>3. given' \subseteq Jtis
    BY DEF Inv, TypeOK
  <1> QED BY <1>1, <1>2, <1>3, Returned, RequestStep DEF Inv

\* A request that takes no lock and holds what it held.
LEMMA MoveOn ==
    ASSUME Inv, NEW r \in Requests, NEW t, MayBe(r, t), UNCHANGED <<db, userLock, rowLock, given, orphaned>>,
           req' = [req EXCEPT ![r] = t],
           keys' \subseteq Jtis, dead' \subseteq Jtis, userBlocked' \in BOOLEAN,
           failures' \in Nat
    PROVE  Inv'
  BY RequestStep DEF Inv, TypeOK

\* Requests that begin, are denied or give up.
LEMMA BeginSteps ==
    ASSUME Inv, NEW r \in Requests,
           \/ \E d \in Devices : LoginBegin(r, d)
           \/ LoginDenied(r) \/ RefreshDenied(r) \/ RefreshGone(r)
           \/ \E what \in {"password", "offboard"} : ChangeUser(r, what)
           \/ \E S \in SUBSET Rows : LogoutRead(r, S)
    PROVE  Inv'
  <1> USE DEF redis
  <1>t. TypeOK /\ req[r] \in Request
    BY DEF Inv, TypeOK
  <1>r. keys \subseteq Jtis /\ dead \subseteq Jtis /\ userBlocked \in BOOLEAN /\ failures \in Nat
    BY <1>t DEF TypeOK
  <1>1. ASSUME NEW d \in Devices, LoginBegin(r, d) PROVE Inv'
    <2> DEFINE t == [[req[r] EXCEPT !.at = "login"] EXCEPT !.device = d]
    <2>1. req' = [req EXCEPT ![r] = t]
      BY <1>1, <1>t DEF LoginBegin, Request, TypeOK
    <2>2. t \in Request /\ t.at = "login"
      BY <1>t DEF Request, Steps
    <2>3. MayBe(r, t)
      BY <2>2 DEF MayBe
    <2> HIDE DEF t
    <2> QED BY <1>1, <1>r, <2>1, <2>3, MoveOn DEF LoginBegin
  <1>2. CASE LoginDenied(r) \/ RefreshDenied(r) \/ RefreshGone(r)
    <2>1. Return(r) /\ UNCHANGED <<db, redis, given, orphaned>>
      BY <1>2 DEF LoginDenied, RefreshDenied, RefreshGone
    <2> QED BY <1>r, <1>t, <2>1, EndStep DEF TypeOK
  <1>3. ASSUME NEW what \in {"password", "offboard"}, ChangeUser(r, what) PROVE Inv'
    <2> DEFINE t == [req[r] EXCEPT !.at = what]
    <2>1. /\ req' = [req EXCEPT ![r] = t] /\ userLock = Nobody /\ userLock' = r
          /\ UNCHANGED <<db, rowLock, redis, given, orphaned>>
      BY <1>3, <1>t DEF ChangeUser, TypeOK
    <2>2. t \in Request /\ t.at = what
      BY <1>t DEF Request, Steps
    <2>3. MayBe(r, t)
      BY <2>1, <2>2 DEF MayBe
    <2> HIDE DEF t
    <2>4. \A o \in Requests \ {r} : userLock = o => userLock' = o
      BY <2>1, SessionsConstants
    <2> QED BY <1>r, <1>t, <2>1, <2>3, <2>4, RequestStep DEF TypeOK
  <1>4. ASSUME NEW S \in SUBSET Rows, LogoutRead(r, S) PROVE Inv'
    <2> DEFINE t == [[[req[r] EXCEPT !.at = "logout"] EXCEPT !.rows = S] EXCEPT !.copy = JtisOf(S)]
    <2>1. req' = [req EXCEPT ![r] = t]
      BY <1>4, <1>t DEF LogoutRead, Request, TypeOK
    <2>2. JtisOf(S) \subseteq Jtis
      BY <1>4, TokensOfRows DEF LogoutRead, Inv, Live, Unrevoked
    <2>3. t \in Request /\ t.at = "logout"
      BY <1>t, <2>2 DEF Request, Steps
    <2>4. MayBe(r, t)
      BY <2>3 DEF MayBe
    <2> HIDE DEF t
    <2> QED BY <1>4, <1>r, <2>1, <2>4, MoveOn DEF LogoutRead
  <1> QED BY <1>1, <1>2, <1>3, <1>4

\* A request that is refused, and gives back what the savepoint held.
LEMMA RefusalStep ==
    ASSUME Inv, NEW r \in Requests, req' = [req EXCEPT ![r] = Refused], dead' \subseteq Jtis,
           UNCHANGED <<db, userLock, rowLock, keys, userBlocked, failures, given, orphaned>>
    PROVE  Inv'
  <1>t. TypeOK
    BY DEF Inv
  <1>1. Refused \in Request /\ Refused.at = "refused"
    BY IdleTyped DEF Refused, Request, Steps, Idle
  <1>2. MayBe(r, Refused)
    BY <1>1 DEF MayBe
  <1> QED BY <1>t, <1>2, MoveOn DEF TypeOK

\* The two calls that count a refusal, the last of which may go on to revoke everything.
LEMMA CountSteps ==
    ASSUME Inv, NEW r \in Requests, RefreshWrongToken(r) \/ CountRead(r) \/ CountWrite(r)
    PROVE  Inv'
  <1> USE DEF redis
  <1>t. TypeOK /\ req[r] \in Request /\ req[r].count \in Nat
    BY DEF Inv, TypeOK, Request
  <1>1. CASE RefreshWrongToken(r)
    BY <1>1, <1>t, RefusalStep DEF RefreshWrongToken, TypeOK
  <1>2. CASE CountRead(r)
    <2> DEFINE t == [[req[r] EXCEPT !.at = "counting"] EXCEPT !.count = failures]
    <2>1. req' = [req EXCEPT ![r] = t]
      BY <1>2, <1>t DEF CountRead, Request, TypeOK
    <2>2. t \in Request /\ t.at = "counting"
      BY <1>t DEF Request, Steps, TypeOK
    <2>3. MayBe(r, t)
      BY <2>2 DEF MayBe
    <2> HIDE DEF t
    <2> QED BY <1>2, <1>t, <2>1, <2>3, MoveOn DEF CountRead, TypeOK
  <1>3. CASE CountWrite(r)
    <2>1. failures' \in Nat
      BY <1>3, <1>t DEF CountWrite
    <2>2. PICK t \in {[Idle EXCEPT !.at = "abuse"], Idle} : req' = [req EXCEPT ![r] = t]
      BY <1>3 DEF CountWrite
    <2>3. t \in Request /\ t.at \in {"abuse", "idle"}
      BY IdleTyped DEF Request, Steps, Idle
    <2>4. MayBe(r, t)
      BY <2>3 DEF MayBe
    <2>5. /\ UNCHANGED <<db, userLock, rowLock, keys, dead, userBlocked, given, orphaned>>
      BY <1>3 DEF CountWrite
    <2> QED BY <1>t, <2>1, <2>2, <2>4, <2>5, MoveOn DEF TypeOK
  <1> QED BY <1>1, <1>2, <1>3

\* A refresh up to the lock of the user's row.
LEMMA RefreshSteps ==
    ASSUME Inv, NEW r \in Requests,
           (\E j \in Jtis : RefreshBegin(r, j)) \/ RefreshRefused(r) \/ RefreshLock(r)
    PROVE  Inv'
  <1> USE DEF redis
  <1>t. TypeOK /\ req[r] \in Request
    BY DEF Inv, TypeOK
  <1>1. ASSUME NEW j \in Jtis, RefreshBegin(r, j) PROVE Inv'
    <2>1. CASE /\ req' = [req EXCEPT ![r] = Refused]
               /\ UNCHANGED <<db, userLock, rowLock, redis, given, orphaned>>
      BY <2>1, <1>t, RefusalStep DEF TypeOK
    <2>2. CASE /\ req' = [req EXCEPT ![r].at = "refresh", ![r].jti = j]
               /\ UNCHANGED <<db, userLock, rowLock, redis, given, orphaned>>
      <3> DEFINE t == [[req[r] EXCEPT !.at = "refresh"] EXCEPT !.jti = j]
      <3>1. req' = [req EXCEPT ![r] = t]
        BY <2>2, <1>t DEF Request, TypeOK
      <3>2. t \in Request /\ t.at = "refresh" /\ t.jti = j
        BY <1>t DEF Request, Steps
      <3>3. MayBe(r, t)
        BY <3>2 DEF MayBe
      <3> HIDE DEF t
      <3> QED BY <2>2, <1>t, <3>1, <3>3, MoveOn DEF TypeOK
    <2> QED BY <1>1, <2>1, <2>2 DEF RefreshBegin
  <1>2. CASE RefreshRefused(r)
    <2>1. req[r].jti \in Jtis
      BY <1>2 DEF RefreshRefused, Inv, TokensKnown
    <2> QED BY <1>2, <1>t, <2>1, RefusalStep DEF RefreshRefused, TypeOK
  <1>3. CASE RefreshLock(r)
    <2> DEFINE t == [req[r] EXCEPT !.at = "refreshLocked"]
    <2>1. /\ req' = [req EXCEPT ![r] = t] /\ userLock \in {Nobody, r} /\ userLock' = r
          /\ status = "active" /\ req[r].at = "refresh"
          /\ UNCHANGED <<db, rowLock, redis, given, orphaned>>
      BY <1>3, <1>t DEF RefreshLock, UserFree, TypeOK
    <2>2. t \in Request /\ t.at = "refreshLocked" /\ t.jti \in Jtis
      BY <1>t, <2>1 DEF Request, Steps, Inv, TokensKnown
    <2>3. MayBe(r, t)
      BY <2>1, <2>2 DEF MayBe
    <2> HIDE DEF t
    <2>4. \A o \in Requests \ {r} : userLock = o => userLock' = o
      BY <2>1, SessionsConstants
    <2> QED BY <1>t, <2>1, <2>3, <2>4, RequestStep DEF TypeOK
  <1> QED BY <1>1, <1>2, <1>3

\* Whatever a login chooses to end, there is room for one more session.
LEMMA EvictionMakesRoom ==
    ASSUME NEW d \in Devices \cup {NoDevice}, NEW S \in Evictions(d)
    PROVE  Cardinality(Live \ S) < MaxSessions
  <1> DEFINE same == {x \in Unrevoked : row[x].device = d}
             others == Live \ same
  <1>1. CASE Cardinality(others) < MaxSessions
    <2>1. S = same
      BY <1>1 DEF Evictions
    <2> QED BY <1>1, <2>1
  <1>2. CASE ~(Cardinality(others) < MaxSessions)
    <2>1. PICK kept \in SUBSET others :
            Cardinality(kept) = MaxSessions - 1 /\ S = same \cup (others \ kept)
      BY <1>2 DEF Evictions
    <2>2. Live \ S = kept
      BY <2>1
    <2>3. Cardinality(Live \ S) = MaxSessions - 1
      BY <2>1, <2>2, Zenon
    <2> QED BY <2>3, SessionsConstants
  <1> QED BY <1>1, <1>2

\* A login holds the user's row from the second look at the status on.
LEMMA LoginLockStep ==
    ASSUME Inv, NEW r \in Requests, NEW j \in Jtis, LoginLock(r, j) PROVE Inv'
  <1>t. TypeOK /\ TokensKnown /\ req[r] \in Request
    BY DEF Inv, TypeOK
  <1>1. PICK S \in Evictions(req[r].device) :
          /\ req' = [req EXCEPT ![r].at = "loginFlush", ![r].new = j, ![r].rows = S]
          /\ \/ keys' = (keys \ JtisOf(S)) \cup {j} /\ dead' = dead \cup JtisOf(S)
             \/ keys' = keys \cup {j} /\ dead' = dead
    BY DEF LoginLock
  <1>2. S \subseteq Rows /\ JtisOf(S) \subseteq Jtis
    BY <1>t, EvictedAreRows, TokensOfRows
  <1>3. Cardinality(Live \ S) < MaxSessions
    BY <1>t, EvictionMakesRoom DEF Request
  <1>4. /\ userLock \in {Nobody, r} /\ userLock' = r /\ userBlocked' = FALSE
        /\ status = "active" /\ UNCHANGED <<db, rowLock, failures, given, orphaned>>
    BY DEF LoginLock, UserFree
  <1> DEFINE t == [[[req[r] EXCEPT !.at = "loginFlush"] EXCEPT !.new = j] EXCEPT !.rows = S]
  <1>5. req' = [req EXCEPT ![r] = t]
    BY <1>1, <1>t DEF Request, TypeOK
  <1>6. t \in Request /\ t.at = "loginFlush" /\ t.new = j /\ t.rows = S
    BY <1>t, <1>2 DEF Request, Steps
  <1> HIDE DEF t
  <1>7. MayBe(r, t)
    BY <1>3, <1>4, <1>6 DEF MayBe
  <1>8. keys' \subseteq Jtis /\ dead' \subseteq Jtis
    BY <1>1, <1>2, <1>t DEF TypeOK
  <1>9. \A o \in Requests \ {r} : userLock = o => userLock' = o
    BY <1>4, SessionsConstants
  <1> QED BY <1>t, <1>4, <1>5, <1>7, <1>8, <1>9, RequestStep DEF TypeOK

\* A refresh locks the row whose state it judges, and holds it over the Redis pipeline.
LEMMA RotationSteps ==
    ASSUME Inv, NEW r \in Requests,
           (\E j \in Jtis : RefreshStage(r, j)) \/ RefreshRotate(r) \/ Compensate(r)
    PROVE  Inv'
  <1> USE DEF redis
  <1>t. TypeOK /\ TokensKnown /\ req[r] \in Request
    BY DEF Inv, TypeOK
  <1>1. ASSUME NEW j \in Jtis, RefreshStage(r, j) PROVE Inv'
    <2>1. PICK x \in Live :
            /\ rowLock[x] = Nobody
            /\ rowLock' = [rowLock EXCEPT ![x] = r]
            /\ req' = [req EXCEPT ![r].at = "staged", ![r].new = j, ![r].rows = {x}]
      BY <1>1 DEF RefreshStage
    <2>2. /\ req[r].at = "refreshLocked" /\ UNCHANGED <<db, userLock, redis, given, orphaned>>
      BY <1>1 DEF RefreshStage
    <2>3. x \in Rows /\ row[x].state = "live"
      BY <2>1 DEF Live
    <2> DEFINE t == [[[req[r] EXCEPT !.at = "staged"] EXCEPT !.new = j] EXCEPT !.rows = {x}]
    <2>4. req' = [req EXCEPT ![r] = t]
      BY <2>1, <1>t DEF Request, TypeOK
    <2>5. t \in Request /\ t.at = "staged" /\ t.new = j /\ t.jti = req[r].jti /\ t.rows = {x}
      BY <1>t, <2>3 DEF Request, Steps
    <2> HIDE DEF t
    <2>6. /\ rowLock' \in [Rows -> Requests \cup {Nobody}] /\ rowLock'[x] = r
          /\ \A y \in Rows \ {x} : rowLock'[y] = rowLock[y]
      BY <1>t, <2>1, <2>3 DEF TypeOK
    <2>7. userLock' = r /\ status = "active" /\ req[r].jti \in Jtis
      BY <1>t, <2>2 DEF Inv, HoldersKnow, TokensKnown
    <2>8. MayBe(r, t)
      BY <2>3, <2>5, <2>6, <2>7 DEF MayBe
    <2>9. \A o \in Requests \ {r} : \A y \in Rows : rowLock[y] = o => rowLock'[y] = o
      BY <2>1, <2>6, SessionsConstants
    <2> QED BY <1>t, <2>2, <2>4, <2>6, <2>8, <2>9, RequestStep DEF TypeOK
  <1>2. CASE RefreshRotate(r)
    <2> DEFINE t == [req[r] EXCEPT !.at = "rotated"]
    <2>1. /\ req' = [req EXCEPT ![r] = t] /\ req[r].at = "staged"
          /\ keys' = (keys \ {req[r].jti}) \cup {req[r].new}
          /\ dead' = dead \cup {req[r].jti}
          /\ UNCHANGED <<db, userLock, rowLock, userBlocked, failures, given, orphaned>>
      BY <1>2, <1>t DEF RefreshRotate, TypeOK
    <2>2. /\ t \in Request /\ t.at = "rotated"
          /\ t.new = req[r].new /\ t.jti = req[r].jti /\ t.rows = req[r].rows
      BY <1>t DEF Request, Steps
    <2> HIDE DEF t
    <2>3. req[r].new \in Jtis /\ req[r].jti \in Jtis
      BY <1>t, <2>1 DEF TokensKnown
    <2>4. MayBe(r, t)
      BY <2>1, <2>2, <2>3 DEF MayBe, Inv, HoldersKnow
    <2>5. keys' \subseteq Jtis /\ dead' \subseteq Jtis
      BY <1>t, <2>1, <2>3 DEF TypeOK
    <2> QED BY <1>t, <2>1, <2>4, <2>5, MoveOn DEF TypeOK
  <1>3. CASE Compensate(r)
    <2>1. req[r].jti \in Jtis
      BY <1>3, <1>t DEF Compensate, TokensKnown
    <2>2. keys' \subseteq Jtis /\ dead' \subseteq Jtis
      BY <1>3, <1>t, <2>1 DEF Compensate, TypeOK
    <2> QED BY <1>3, <1>t, <2>2, EndStep DEF Compensate, TypeOK
  <1> QED BY <1>1, <1>2, <1>3

\* invalidate_all_sessions locks every row that is not revoked.
LEMMA InvalidateStep ==
    ASSUME Inv, NEW r \in Requests, Invalidate(r) PROVE Inv'
  <1>t. TypeOK /\ TokensKnown /\ req[r] \in Request
    BY DEF Inv, TypeOK
  <1>1. PICK at \in {"deactivated", "invalidated"} :
          /\ at = "deactivated" => req[r].at = "offboard"
          /\ req' = [req EXCEPT ![r].rows = Unrevoked, ![r].at = at]
    BY DEF Invalidate
  <1>2. /\ \A x \in Unrevoked : rowLock[x] \in {Nobody, r}
        /\ rowLock' = [x \in Rows |-> IF x \in Unrevoked THEN r ELSE rowLock[x]]
        /\ userBlocked' = TRUE
        /\ UNCHANGED <<db, userLock, failures, given, orphaned>>
    BY DEF Invalidate, RowsFree
  <1>3. Unrevoked \subseteq Rows /\ JtisOf(Unrevoked) \subseteq Jtis /\ Live \subseteq Unrevoked
    BY <1>t, TokensOfRows DEF Live, Unrevoked
  <1>4. keys' \subseteq Jtis /\ dead' \subseteq Jtis
    BY <1>t, <1>3 DEF Invalidate, TypeOK
  <1> DEFINE t == [[req[r] EXCEPT !.rows = Unrevoked] EXCEPT !.at = at]
  <1>5. req' = [req EXCEPT ![r] = t]
    BY <1>1, <1>t DEF Request, TypeOK
  <1>6. t \in Request /\ t.at = at /\ t.rows = Unrevoked
    BY <1>t, <1>3 DEF Request, Steps
  <1> HIDE DEF t
  <1>7. /\ rowLock' \in [Rows -> Requests \cup {Nobody}]
        /\ \A x \in Unrevoked : rowLock'[x] = r
        /\ \A o \in Requests \ {r} : \A x \in Rows : rowLock[x] = o => rowLock'[x] = o
    BY <1>t, <1>2, <1>3, SessionsConstants DEF TypeOK
  <1>8. at = "deactivated" => userLock = r
    BY <1>1 DEF Inv, HoldersKnow
  <1>9. MayBe(r, t)
    BY <1>2, <1>3, <1>6, <1>7, <1>8 DEF MayBe
  <1> QED BY <1>t, <1>2, <1>4, <1>5, <1>7, <1>9, RequestStep DEF TypeOK

\* A revocation of the other sessions begins, or a request fails where it stands.
LEMMA OtherSteps ==
    ASSUME Inv, NEW r \in Requests,
           (\E S \in SUBSET Rows : RevokeOthersRead(r, S)) \/ Fail(r)
    PROVE  Inv'
  <1> USE DEF redis
  <1>t. TypeOK /\ TokensKnown /\ req[r] \in Request
    BY DEF Inv, TypeOK
  <1>1. ASSUME NEW js \in SUBSET Jtis, Forget(js)
        PROVE  /\ keys' \subseteq Jtis /\ dead' \subseteq Jtis
               /\ userBlocked' \in BOOLEAN /\ failures' \in Nat
    BY <1>1, <1>t DEF Forget, TypeOK
  <1>2. ASSUME NEW S \in SUBSET Rows, RevokeOthersRead(r, S) PROVE Inv'
    <2>1. JtisOf(S) \subseteq Jtis
      BY <1>2, <1>t, TokensOfRows DEF RevokeOthersRead, Live, Unrevoked
    <2> DEFINE t == [[req[r] EXCEPT !.at = "revoke"] EXCEPT !.rows = S]
    <2>2. req' = [req EXCEPT ![r] = t]
      BY <1>2, <1>t DEF RevokeOthersRead, Request, TypeOK
    <2>3. t \in Request /\ t.at = "revoke"
      BY <1>t DEF Request, Steps
    <2>4. MayBe(r, t)
      BY <2>3 DEF MayBe
    <2> HIDE DEF t
    <2> QED BY <1>1, <1>2, <2>1, <2>2, <2>4, MoveOn DEF RevokeOthersRead
  <1>3. CASE Fail(r)
    <2>1. Return(r) /\ UNCHANGED <<db, given>>
      BY <1>3 DEF Fail
    <2>2. orphaned' \subseteq Rows
      BY <1>3, <1>t DEF Fail, Request, TypeOK
    <2>3. /\ keys' \subseteq Jtis /\ dead' \subseteq Jtis
          /\ userBlocked' \in BOOLEAN /\ failures' \in Nat
      <3>1. CASE UNCHANGED redis
        BY <3>1, <1>t DEF TypeOK
      <3>2. CASE keys' = keys \ {req[r].new} /\ UNCHANGED <<dead, userBlocked, failures>>
        BY <3>2, <1>t DEF TypeOK
      <3>3. CASE Forget(req[r].copy)
        BY <3>3, <1>1, <1>t DEF Request
      <3> QED BY <1>3, <3>1, <3>2, <3>3 DEF Fail
    <2> QED BY <2>1, <2>2, <2>3, EndStep
  <1> QED BY <1>2, <1>3

-----------------------------------------------------------------------------
(* Steps that write rows *)

\* A session expires or is revoked by itself; a key or a window of Redis ends.
LEMMA LonelySteps ==
    ASSUME Inv,
           \/ \E x \in Rows : Expire(x) \/ RevokeOne(x)
           \/ \E j \in Jtis : PurgeStaleKey(j)
           \/ WindowEnds
    PROVE  Inv'
  <1> USE DEF redis, db
  <1>t. TypeOK /\ TokensKnown
    BY DEF Inv
  <1>1. ASSUME NEW x \in Rows, Expire(x) PROVE Inv'
    <2>1. /\ row[x].state = "live" /\ row' = [row EXCEPT ![x].state = "expired"]
          /\ UNCHANGED <<status, userLock, rowLock, redis, given, req, orphaned>>
      BY <1>1 DEF Expire
    <2>2. /\ row' \in [Rows -> Row] /\ row'[x].state = "expired" /\ row'[x].jti = row[x].jti
          /\ \A y \in Rows \ {x} : row'[y] = row[y]
      BY <1>t, <2>1 DEF TypeOK, Row
    <2>3. TypeOK'
      BY <1>t, <2>1, <2>2 DEF TypeOK
    <2>4. Live' \subseteq Live
      BY <2>2 DEF Live
    <2>5. \A y \in Rows : row'[y].state \in {"live", "expired"} => row'[y].jti \in Jtis
      BY <1>t, <2>1, <2>2 DEF TokensKnown
    <2>6. \A y \in Rows : row[y].state \in {"live", "expired"} => row'[y].state \in {"live", "expired"}
      BY <2>2
    <2> QED BY <2>1, <2>3, <2>4, <2>5, <2>6, FewerLiveAlone
  <1>2. ASSUME NEW x \in Rows, RevokeOne(x) PROVE Inv'
    <2>1. /\ x \in Unrevoked /\ rowLock[x] = Nobody /\ row' = Revoked({x}) /\ Forget({row[x].jti})
          /\ UNCHANGED <<status, userLock, rowLock, given, req, orphaned>>
      BY <1>2 DEF RevokeOne
    <2>2. /\ row' \in [Rows -> Row] /\ row'[x].state = "revoked" /\ row'[x].jti = row[x].jti
          /\ \A y \in Rows \ {x} : row'[y] = row[y]
      BY <1>t, <2>1, RevokedTyped
    <2>3. row[x].jti \in Jtis
      BY <1>t, <2>1 DEF TokensKnown, Unrevoked
    <2>4. TypeOK'
      BY <1>t, <2>1, <2>2, <2>3 DEF TypeOK, Forget
    <2>5. Live' \subseteq Live
      BY <2>2 DEF Live
    <2>6. \A y \in Rows : row'[y].state \in {"live", "expired"} => row'[y].jti \in Jtis
      BY <1>t, <2>2, <2>3 DEF TokensKnown
    <2>7. \A o \in Requests : \A y \in Rows : rowLock[y] = o => y # x
      BY <2>1, SessionsConstants
    <2> QED BY <2>1, <2>2, <2>4, <2>5, <2>6, <2>7, FewerLiveAlone
  <1>3. CASE (\E j \in Jtis : PurgeStaleKey(j)) \/ WindowEnds
    <2>1. /\ UNCHANGED <<db, userLock, rowLock, dead, userBlocked, given, req, orphaned>>
          /\ keys' \subseteq keys /\ failures' \in {0, failures}
      BY <1>3 DEF PurgeStaleKey, WindowEnds
    <2>2. TypeOK'
      BY <1>t, <2>1, SessionsConstants DEF TypeOK
    <2>3. Live' = Live
      BY <2>1 DEF Live
    <2>4. \A y \in Rows : row'[y].state \in {"live", "expired"} => row'[y].jti \in Jtis
      BY <1>t, <2>1 DEF TokensKnown
    <2> QED BY <2>1, <2>2, <2>3, <2>4, FewerLiveAlone
  <1> QED BY <1>1, <1>2, <1>3

\* The end of a deactivation: nobody is in the middle of a login or a refresh.
LEMMA ReactivateStep == ASSUME Inv, Reactivate PROVE Inv'
  <1>1. /\ userLock = Nobody /\ status' = "active"
        /\ UNCHANGED <<row, userLock, rowLock, redis, given, req, orphaned>>
    BY DEF Reactivate
  <1>2. TypeOK'
    BY <1>1 DEF Inv, TypeOK, redis
  <1>3. Live' = Live
    BY <1>1 DEF Live
  <1>4. TokensKnown' /\ HoldersKnow' /\ RoomForLogin'
    BY <1>1, <1>3, SessionsConstants DEF Inv, TokensKnown, HoldersKnow, RoomForLogin
  <1>5. InactiveHasNoLiveSession' /\ SessionLimit'
    BY <1>1, <1>3 DEF Inv, InactiveHasNoLiveSession, SessionLimit
  <1> QED BY <1>2, <1>4, <1>5 DEF Inv

\* A request that revokes rows no other request holds, and ends.
LEMMA RevocationCommits ==
    ASSUME Inv, NEW r \in Requests, Return(r), UNCHANGED <<status, given, orphaned>>,
           row' = Revoked(req[r].rows), RowsFree(r, req[r].rows),
           keys' \subseteq Jtis, dead' \subseteq Jtis, userBlocked' \in BOOLEAN,
           failures' \in Nat
    PROVE  Inv'
  <1>t. TypeOK /\ TokensKnown /\ req[r].rows \subseteq Rows
    BY DEF Inv, TypeOK, Request
  <1>1. /\ row' \in [Rows -> Row]
        /\ \A x \in req[r].rows : row'[x].state = "revoked" /\ row'[x].jti = row[x].jti
        /\ \A x \in Rows \ req[r].rows : row'[x] = row[x]
    BY <1>t, RevokedTyped
  <1>2. /\ userLock' \in Requests \cup {Nobody}
        /\ rowLock' \in [Rows -> Requests \cup {Nobody}]
        /\ req' \in [Requests -> Request] /\ req'[r] = Idle
        /\ \A o \in Requests \ {r} : req'[o] = req[o]
        /\ \A o \in Requests \ {r} : userLock = o => userLock' = o
        /\ \A o \in Requests \ {r} : \A x \in Rows : rowLock[x] = o => rowLock'[x] = o
    BY <1>t, Returned
  <1>3. TypeOK'
    BY <1>t, <1>1, <1>2 DEF TypeOK
  <1>4. Live' \subseteq Live
    BY <1>t, <1>1 DEF Live
  <1>5. \A x \in Rows : row'[x].state \in {"live", "expired"} => row'[x].jti \in Jtis
    BY <1>t, <1>1 DEF TokensKnown
  <1>6. \A o \in Requests \ {r} : \A x \in Rows : rowLock[x] = o => x \notin req[r].rows
    BY SessionsConstants DEF RowsFree
  <1>7. PICK R \in SUBSET Requests : R = {r}
    OBVIOUS
  <1>8. \A o \in Requests \ R :
          /\ req'[o] = req[o]
          /\ userLock = o => userLock' = o
          /\ \A x \in Rows : rowLock[x] = o =>
               /\ rowLock'[x] = o
               /\ row[x].state \in {"live", "expired"} => row'[x].state \in {"live", "expired"}
    BY <1>1, <1>2, <1>6, <1>7
  <1>9. \A o \in R : req'[o] = Idle
    BY <1>2, <1>7
  <1> QED BY <1>3, <1>4, <1>5, <1>8, <1>9, FewerLive

\* The revocations of a logout, of the other sessions and of all of them.
LEMMA RevocationSteps ==
    ASSUME Inv, NEW r \in Requests,
           \/ LogoutCommit(r) \/ RevokeOthersCommit(r)
           \/ req[r].at = "invalidated" /\ InvalidateCommit(r)
    PROVE  Inv'
  <1> USE DEF redis
  <1>t. TypeOK /\ req[r].copy \subseteq Jtis
    BY DEF Inv, TypeOK, Request
  <1>1. CASE LogoutCommit(r)
    <2>1. keys' \subseteq Jtis /\ dead' \subseteq Jtis /\ userBlocked' \in BOOLEAN
          /\ failures' \in Nat
      BY <1>1, <1>t DEF LogoutCommit, Forget, TypeOK
    <2> QED BY <1>1, <2>1, RevocationCommits DEF LogoutCommit
  <1>2. CASE RevokeOthersCommit(r)
    BY <1>2, <1>t, RevocationCommits DEF RevokeOthersCommit, TypeOK
  <1>3. CASE req[r].at = "invalidated" /\ InvalidateCommit(r)
    <2>1. RowsFree(r, req[r].rows)
      BY <1>3 DEF Inv, HoldersKnow, RowsFree
    <2>2. UNCHANGED status
      BY <1>3 DEF InvalidateCommit
    <2> QED BY <1>3, <1>t, <2>1, <2>2, RevocationCommits DEF InvalidateCommit, TypeOK
  <1> QED BY <1>1, <1>2, <1>3

\* A deactivation ends every live session: nothing became live since it locked them,
\* because a login would have needed the user's row.
LEMMA DeactivateStep ==
    ASSUME Inv, NEW r \in Requests, req[r].at = "deactivated", InvalidateCommit(r)
    PROVE  Inv'
  <1>t. TypeOK /\ TokensKnown /\ req[r].rows \subseteq Rows
    BY DEF Inv, TypeOK, Request
  <1>1. /\ row' = Revoked(req[r].rows) /\ status' = "inactive" /\ Return(r)
        /\ UNCHANGED <<redis, given, orphaned>>
    BY DEF InvalidateCommit
  <1>2. /\ userLock = r /\ Live \subseteq req[r].rows
        /\ \A x \in req[r].rows : rowLock[x] = r
    BY DEF Inv, HoldersKnow
  <1>3. /\ row' \in [Rows -> Row]
        /\ \A x \in req[r].rows : row'[x].state = "revoked"
        /\ \A x \in Rows \ req[r].rows : row'[x] = row[x]
    BY <1>t, <1>1, RevokedTyped
  <1>4. /\ userLock' \in Requests \cup {Nobody}
        /\ rowLock' \in [Rows -> Requests \cup {Nobody}]
        /\ req' \in [Requests -> Request] /\ req'[r] = Idle
        /\ \A o \in Requests \ {r} : req'[o] = req[o]
        /\ \A o \in Requests \ {r} : userLock = o => userLock' = o
        /\ \A o \in Requests \ {r} : \A x \in Rows : rowLock[x] = o => rowLock'[x] = o
    BY <1>t, <1>1, Returned
  <1>5. TypeOK'
    BY <1>t, <1>1, <1>3, <1>4 DEF TypeOK, redis
  <1>6. Live' = {}
    BY <1>2, <1>3 DEF Live
  <1>7. Cardinality(Live') = 0
    BY <1>6, FS_EmptySet, Zenon
  <1>8. Idle.at = "idle"
    BY DEF Idle
  <1>9. TokensKnown'
    BY <1>t, <1>3, <1>4, <1>8 DEF TokensKnown
  <1>10. ASSUME NEW o \in Requests \ {r}
         PROVE  /\ req[o].at \notin {"loginFlush", "refreshLocked", "staged", "rotated",
                                     "password", "offboard", "deactivated"}
                /\ req[o].rows \subseteq Rows
    BY <1>2, <1>t DEF Inv, HoldersKnow, TypeOK, Request
  <1>11. HoldersKnow' /\ RoomForLogin'
    BY <1>4, <1>8, <1>10 DEF Inv, HoldersKnow, RoomForLogin
  <1>12. InactiveHasNoLiveSession' /\ SessionLimit'
    BY <1>6, <1>7, SessionsConstants DEF InactiveHasNoLiveSession, SessionLimit
  <1> QED BY <1>5, <1>9, <1>11, <1>12 DEF Inv

\* A rotation writes the row it holds: it was not revoked and is not revived.
LEMMA RefreshCommitStep ==
    ASSUME Inv, NEW r \in Requests, RefreshCommit(r) PROVE Inv'
  <1>t. TypeOK /\ TokensKnown /\ req[r].rows \subseteq Rows
    BY DEF Inv, TypeOK, Request
  <1>1. /\ req[r].at = "rotated" /\ Return(r) /\ failures' = 0 /\ given' = given \cup {req[r].new}
        /\ row' = [x \in Rows |-> IF x \in req[r].rows THEN [row[x] EXCEPT !.jti = req[r].new]
                                  ELSE row[x]]
        /\ UNCHANGED <<status, keys, dead, userBlocked, orphaned>>
    BY DEF RefreshCommit
  <1>2. req[r].new \in Jtis
    BY <1>t, <1>1 DEF TokensKnown
  <1>3. /\ row' \in [Rows -> Row] /\ \A x \in Rows : row'[x].state = row[x].state
        /\ \A x \in req[r].rows : row'[x].jti = req[r].new
        /\ \A x \in Rows \ req[r].rows : row'[x] = row[x]
    BY <1>t, <1>1, <1>2 DEF TypeOK, Row
  <1>4. /\ userLock' \in Requests \cup {Nobody}
        /\ rowLock' \in [Rows -> Requests \cup {Nobody}]
        /\ req' \in [Requests -> Request] /\ req'[r] = Idle
        /\ \A o \in Requests \ {r} : req'[o] = req[o]
        /\ \A o \in Requests \ {r} : userLock = o => userLock' = o
        /\ \A o \in Requests \ {r} : \A x \in Rows : rowLock[x] = o => rowLock'[x] = o
    BY <1>t, <1>1, Returned
  <1>5. TypeOK'
    BY <1>t, <1>1, <1>2, <1>3, <1>4, SessionsConstants DEF TypeOK
  <1>6. Live' \subseteq Live
    BY <1>3 DEF Live
  <1>7. \A x \in Rows : row'[x].state \in {"live", "expired"} => row'[x].jti \in Jtis
    BY <1>t, <1>2, <1>3 DEF TokensKnown
  <1>8. PICK R \in SUBSET Requests : R = {r}
    OBVIOUS
  <1> QED BY <1>1, <1>3, <1>4, <1>5, <1>6, <1>7, <1>8, FewerLive

\* A login writes its session: what it chose to end made room for it, and no refresh or
\* deactivation is past its own lock of the user's row.
LEMMA LoginCommitStep ==
    ASSUME Inv, NEW r \in Requests, LoginCommit(r) PROVE Inv'
  <1>t. TypeOK /\ TokensKnown /\ req[r] \in Request /\ req[r].rows \subseteq Rows
    BY DEF Inv, TypeOK, Request
  <1>1. /\ req[r].at = "loginFlush" /\ RowsFree(r, req[r].rows) /\ Return(r)
        /\ given' = given \cup {req[r].new} /\ UNCHANGED <<status, redis, orphaned>>
    BY DEF LoginCommit
  <1>2. PICK x \in Rows :
          /\ row[x].state = "absent"
          /\ row' = [Revoked(req[r].rows) EXCEPT ![x] =
                       [jti |-> req[r].new, device |-> req[r].device, state |-> "live"]]
    BY DEF LoginCommit
  <1>3. req[r].new \in Jtis /\ req[r].device \in Devices \cup {NoDevice}
    BY <1>t, <1>1 DEF TokensKnown, Request
  <1>4. PICK F \in [Rows -> Row] :
          /\ F = Revoked(req[r].rows)
          /\ \A y \in req[r].rows : F[y].state = "revoked"
          /\ \A y \in Rows \ req[r].rows : F[y] = row[y]
    BY <1>t, RevokedTyped
  <1>5. /\ row' \in [Rows -> Row] /\ row'[x].state = "live" /\ row'[x].jti = req[r].new
        /\ \A y \in req[r].rows \ {x} : row'[y].state = "revoked"
        /\ \A y \in Rows \ (req[r].rows \cup {x}) : row'[y] = row[y]
    BY <1>t, <1>2, <1>3, <1>4 DEF Row
  <1>6. /\ userLock' \in Requests \cup {Nobody}
        /\ rowLock' \in [Rows -> Requests \cup {Nobody}]
        /\ req' \in [Requests -> Request] /\ req'[r] = Idle
        /\ \A o \in Requests \ {r} : req'[o] = req[o]
        /\ \A o \in Requests \ {r} : userLock = o => userLock' = o
        /\ \A o \in Requests \ {r} : \A y \in Rows : rowLock[y] = o => rowLock'[y] = o
    BY <1>t, <1>1, Returned
  <1>7. TypeOK'
    BY <1>t, <1>1, <1>3, <1>5, <1>6 DEF TypeOK, redis
  <1>8. Idle.at = "idle"
    BY DEF Idle
  <1>9. TokensKnown'
    BY <1>t, <1>3, <1>5, <1>6, <1>8 DEF TokensKnown
  <1>10. userLock = r /\ status = "active"
    BY <1>1 DEF Inv, HoldersKnow
  <1>11. ASSUME NEW o \in Requests \ {r}
         PROVE  /\ req[o].at \notin {"loginFlush", "refreshLocked", "staged", "rotated",
                                     "password", "offboard", "deactivated"}
                /\ req[o].rows \subseteq Rows
    BY <1>10, <1>t DEF Inv, HoldersKnow, TypeOK, Request
  <1>12. HoldersKnow' /\ RoomForLogin'
    BY <1>6, <1>8, <1>11 DEF Inv, HoldersKnow, RoomForLogin
  <1>13. InactiveHasNoLiveSession'
    BY <1>1, <1>10 DEF InactiveHasNoLiveSession
  <1>14. SessionLimit'
    <2> DEFINE K == Live \ req[r].rows
    <2>1. IsFiniteSet(K)
      BY SessionsConstants, FS_Subset DEF Live
    <2>2. Cardinality(K) < MaxSessions /\ Cardinality(K) \in Nat
      BY <1>1, <2>1, FS_CardinalityType DEF Inv, RoomForLogin
    <2>3. PICK L : L = Live'
      OBVIOUS
    <2>4. L \subseteq K \cup {x}
      BY <1>5, <2>3 DEF Live
    <2> HIDE DEF K
    <2>5. /\ IsFiniteSet(K \cup {x})
          /\ Cardinality(K \cup {x}) = Cardinality(K) \/ Cardinality(K \cup {x}) = Cardinality(K) + 1
      BY <2>1, FS_AddElement
    <2>6. Cardinality(L) <= Cardinality(K \cup {x}) /\ Cardinality(L) \in Nat
      BY <2>4, <2>5, FS_Subset, FS_CardinalityType
    <2>7. Cardinality(L) <= MaxSessions
      BY <2>2, <2>5, <2>6, SessionsConstants
    <2> QED BY <2>3, <2>7 DEF SessionLimit
  <1> QED BY <1>7, <1>9, <1>12, <1>13, <1>14 DEF Inv

-----------------------------------------------------------------------------
(* The invariant *)

\* Nobody is logged in at first.
LEMMA InitInv == Init => Inv
  <1> SUFFICES ASSUME Init PROVE Inv
    OBVIOUS
  <1>1. Live = {}
    BY DEF Init, Live
  <1>2. TypeOK
    <2>1. row \in [Rows -> Row] /\ rowLock \in [Rows -> Requests \cup {Nobody}]
      BY IdleTyped DEF Init, Row
    <2>2. req \in [Requests -> Request]
      BY IdleTyped DEF Init
    <2>3. /\ keys = {} /\ dead = {} /\ userBlocked = FALSE /\ failures = 0 /\ given = {}
          /\ orphaned = {} /\ status = "active" /\ userLock = Nobody
      BY DEF Init
    <2>4. failures \in Nat
      BY <2>3, SessionsConstants
    <2> QED BY <2>1, <2>2, <2>3, <2>4 DEF TypeOK
  <1>3. \A r \in Requests : req[r].at = "idle"
    BY DEF Init, Idle
  <1>4. TokensKnown
    BY <1>3 DEF Init, TokensKnown
  <1>5. HoldersKnow /\ RoomForLogin
    BY <1>3 DEF HoldersKnow, RoomForLogin
  <1>6. Cardinality(Live) = 0
    BY <1>1, FS_EmptySet, Zenon
  <1>7. InactiveHasNoLiveSession /\ SessionLimit
    BY <1>1, <1>6, SessionsConstants DEF InactiveHasNoLiveSession, SessionLimit
  <1> QED BY <1>2, <1>4, <1>5, <1>7 DEF Inv

\* Every step keeps the invariant.
LEMMA StepInv == Inv /\ [Next]_vars => Inv'
  <1> SUFFICES ASSUME Inv, [Next]_vars PROVE Inv'
    OBVIOUS
  <1>1. CASE \/ \E x \in Rows : Expire(x) \/ RevokeOne(x)
             \/ \E j \in Jtis : PurgeStaleKey(j)
             \/ WindowEnds
    BY <1>1, LonelySteps
  <1>2. CASE Reactivate
    BY <1>2, ReactivateStep
  <1>3. ASSUME NEW r \in Requests,
               \/ \E d \in Devices : LoginBegin(r, d)
               \/ LoginDenied(r) \/ RefreshDenied(r) \/ RefreshGone(r)
               \/ \E what \in {"password", "offboard"} : ChangeUser(r, what)
               \/ \E S \in SUBSET Rows : LogoutRead(r, S)
        PROVE  Inv'
    BY <1>3, BeginSteps
  <1>4. ASSUME NEW r \in Requests,
               \/ \E j \in Jtis : RefreshBegin(r, j)
               \/ RefreshRefused(r) \/ RefreshLock(r)
               \/ RefreshWrongToken(r) \/ CountRead(r) \/ CountWrite(r)
        PROVE  Inv'
    BY <1>4, RefreshSteps, CountSteps
  <1>5. ASSUME NEW r \in Requests,
               (\E j \in Jtis : RefreshStage(r, j)) \/ RefreshRotate(r) \/ Compensate(r)
        PROVE  Inv'
    BY <1>5, RotationSteps
  <1>6. ASSUME NEW r \in Requests, \E j \in Jtis : LoginLock(r, j) PROVE Inv'
    BY <1>6, LoginLockStep
  <1>7. ASSUME NEW r \in Requests, LoginCommit(r) PROVE Inv'
    BY <1>7, LoginCommitStep
  <1>8. ASSUME NEW r \in Requests, RefreshCommit(r) PROVE Inv'
    BY <1>8, RefreshCommitStep
  <1>9. ASSUME NEW r \in Requests, Invalidate(r) PROVE Inv'
    BY <1>9, InvalidateStep
  <1>10. ASSUME NEW r \in Requests, InvalidateCommit(r) PROVE Inv'
    <2>1. req[r].at \in {"invalidated", "deactivated"}
      BY <1>10 DEF InvalidateCommit
    <2> QED BY <1>10, <2>1, RevocationSteps, DeactivateStep
  <1>11. ASSUME NEW r \in Requests, LogoutCommit(r) \/ RevokeOthersCommit(r) PROVE Inv'
    BY <1>11, RevocationSteps
  <1>12. ASSUME NEW r \in Requests,
                (\E S \in SUBSET Rows : RevokeOthersRead(r, S)) \/ Fail(r)
         PROVE  Inv'
    BY <1>12, OtherSteps
  <1>13. CASE UNCHANGED vars
    <2>1. Live' = Live
      BY <1>13 DEF vars, Live
    <2>2. TypeOK' /\ TokensKnown' /\ HoldersKnow'
      BY <1>13, <2>1 DEF vars, Inv, TypeOK, TokensKnown, HoldersKnow
    <2>3. InactiveHasNoLiveSession' /\ RoomForLogin' /\ SessionLimit'
      BY <1>13, <2>1 DEF vars, Inv, InactiveHasNoLiveSession, RoomForLogin, SessionLimit
    <2> QED BY <2>2, <2>3 DEF Inv
  <1> QED
    BY <1>1, <1>2, <1>3, <1>4, <1>5, <1>6, <1>7, <1>8, <1>9, <1>10, <1>11, <1>12, <1>13 DEF Next

\* In every reachable state the locks are held by the requests that rely on them.
THEOREM InvHolds == Spec => []Inv
  BY InitInv, StepInv, PTL DEF Spec

\* However many devices log in at once, the limit of live sessions holds
\* (_enforce_max_sessions).
THEOREM LimitHolds == Spec => []SessionLimit
  <1>1. Inv => SessionLimit
    BY DEF Inv
  <1> QED BY <1>1, InvHolds, PTL

\* A deactivated account has no live session (_complete_login_flow re-reads the status
\* under the lock of the user's row).
THEOREM DeactivationEndsEverySession == Spec => []InactiveHasNoLiveSession
  <1>1. Inv => InactiveHasNoLiveSession
    BY DEF Inv
  <1> QED BY <1>1, InvHolds, PTL

\* A step that touches a revoked row leaves it as it is.
LEMMA RevokedStays ==
    ASSUME Inv, [Next]_vars, NEW x \in Rows, row[x].state = "revoked"
    PROVE  row'[x] = row[x]
  <1>t. TypeOK /\ \A r \in Requests : req[r].rows \subseteq Rows
    BY DEF Inv, TypeOK, Request
  <1>1. CASE UNCHANGED row
    BY <1>1
  <1>2. ASSUME NEW y \in Rows, Expire(y) PROVE row'[x] = row[x]
    BY <1>2, <1>t DEF Expire, TypeOK
  <1>3. ASSUME NEW S \in SUBSET Rows, row' = Revoked(S) PROVE row'[x] = row[x]
    BY <1>3, <1>t, RevokedTyped
  <1>4. ASSUME NEW y \in Rows, RevokeOne(y) PROVE row'[x] = row[x]
    BY <1>4, <1>3 DEF RevokeOne
  <1>5. ASSUME NEW r \in Requests,
               LogoutCommit(r) \/ RevokeOthersCommit(r) \/ InvalidateCommit(r)
        PROVE  row'[x] = row[x]
    BY <1>5, <1>3, <1>t DEF LogoutCommit, RevokeOthersCommit, InvalidateCommit
  <1>6. ASSUME NEW r \in Requests, RefreshCommit(r) PROVE row'[x] = row[x]
    <2>1. x \notin req[r].rows
      BY <1>6 DEF RefreshCommit, Inv, HoldersKnow
    <2> QED BY <1>6, <2>1 DEF RefreshCommit
  <1>7. ASSUME NEW r \in Requests, LoginCommit(r) PROVE row'[x] = row[x]
    <2>1. PICK y \in Rows :
            /\ row[y].state = "absent"
            /\ row' = [Revoked(req[r].rows) EXCEPT ![y] =
                         [jti |-> req[r].new, device |-> req[r].device, state |-> "live"]]
      BY <1>7 DEF LoginCommit
    <2>2. PICK F \in [Rows -> Row] : F = Revoked(req[r].rows) /\ F[x] = row[x]
      BY <1>t, RevokedTyped
    <2> QED BY <2>1, <2>2
  <1>8. ASSUME NEW r \in Requests,
               \/ \E d \in Devices : LoginBegin(r, d)
               \/ LoginDenied(r) \/ RefreshDenied(r) \/ RefreshGone(r)
               \/ \E what \in {"password", "offboard"} : ChangeUser(r, what)
               \/ \E S \in SUBSET Rows : LogoutRead(r, S) \/ RevokeOthersRead(r, S)
        PROVE  UNCHANGED row
    BY <1>8 DEF LoginBegin, LoginDenied, RefreshDenied, RefreshGone, ChangeUser, LogoutRead,
                RevokeOthersRead, db
  <1>9. ASSUME NEW r \in Requests,
               \/ \E j \in Jtis : LoginLock(r, j) \/ RefreshBegin(r, j) \/ RefreshStage(r, j)
               \/ RefreshRefused(r) \/ RefreshLock(r) \/ RefreshRotate(r) \/ Compensate(r)
               \/ Invalidate(r) \/ Fail(r)
               \/ RefreshWrongToken(r) \/ CountRead(r) \/ CountWrite(r)
        PROVE  UNCHANGED row
    BY <1>9 DEF LoginLock, RefreshBegin, RefreshStage, RefreshRefused, RefreshLock, RefreshRotate,
                Compensate, Invalidate, Fail, RefreshWrongToken, CountRead, CountWrite, db
  <1>10. CASE (\E j \in Jtis : PurgeStaleKey(j)) \/ WindowEnds \/ Reactivate \/ UNCHANGED vars
    BY <1>10 DEF PurgeStaleKey, WindowEnds, Reactivate, vars, db
  <1> QED
    BY <1>1, <1>2, <1>4, <1>5, <1>6, <1>7, <1>8, <1>9, <1>10 DEF Next

\* A revoked session is never revived or given another token
\* (get_live_by_refresh_jti_for_update).
THEOREM RevocationIsFinal == Spec => RevokedIsFinal
  <1>1. Inv /\ [Next]_vars =>
          [\A x \in Rows : row[x].state = "revoked" => row'[x] = row[x]]_vars
    BY RevokedStays
  <1> QED BY <1>1, InvHolds, PTL DEF Spec, RevokedIsFinal

-----------------------------------------------------------------------------
(* The tokens of live sessions *)

\* A request that has a token to hand out.
Minting == {"loginFlush", "staged", "rotated"}

\* A request has row x in memory and may have touched its keys.
TouchedBy(r, x) == x \in req[r].rows /\ req[r].at # "staged"
Touched(x) == \E r \in Requests : TouchedBy(r, x)

Good(x) == row[x].jti \in keys /\ row[x].jti \notin dead
Usable == \A x \in Live \ orphaned : ~Touched(x) => Good(x)

\* Rows that were not revoked have tokens some client was given, each its own.
TokensDiffer ==
    /\ \A x \in Unrevoked : row[x].jti \in given
    /\ \A x, y \in Unrevoked : row[x].jti = row[y].jti => x = y

\* The token a request is to hand out is nobody else's and not yet given; the one it
\* rotates, and the copies a logout made, are those of the rows it has in memory.
Knows(r) ==
    /\ req[r].at \in {"idle", "login", "refresh", "refreshLocked", "refused", "counting", "abuse",
                     "password", "offboard"} => req[r].rows = {}
    /\ req[r].at \in {"refresh", "refreshLocked", "staged", "rotated"} => req[r].jti \in given
    /\ req[r].at \in Minting =>
         /\ req[r].new \notin given \cup dead
         /\ \A o \in Requests \ {r} : req[o].at \in Minting => req[o].new # req[r].new
    /\ req[r].at \in {"loginFlush", "rotated"} => req[r].new \in keys
    /\ req[r].at \in {"staged", "rotated"} =>
         /\ \A x \in req[r].rows : row[x].jti = req[r].jti
         /\ \A y \in Unrevoked : row[y].jti = req[r].jti => y \in req[r].rows
    /\ req[r].at = "logout" =>
         /\ req[r].copy \subseteq given
         /\ \A y \in Unrevoked : row[y].jti \in req[r].copy => y \in req[r].rows

Know == Usable /\ TokensDiffer /\ \A r \in Requests : Knows(r)

Mints(r, j) == req[r].at \in Minting /\ j = req[r].new

\* What a step of the requests in R has to leave to the others.
LEMMA OthersKnow ==
    ASSUME Inv, Know, NEW R \in SUBSET Requests,
           \A o \in Requests \ R : req'[o] = req[o],
           given \subseteq given',
           \A j \in given' \ given : \E r \in R : Mints(r, j),
           \A x \in Unrevoked' : \/ x \in Unrevoked /\ row'[x].jti = row[x].jti
                                 \/ \E r \in R : Mints(r, row'[x].jti),
           \A o \in Requests \ R : req[o].at \in {"staged", "rotated"} =>
               \A x \in req[o].rows : row'[x].jti = row[x].jti,
           \A j \in Jtis : j \notin given /\ (\A r \in R : ~Mints(r, j)) =>
               (j \in keys => j \in keys') /\ (j \in dead' => j \in dead),
           \A r \in R : Knows(r)'
    PROVE  \A r \in Requests : Knows(r)'
  <1> SUFFICES ASSUME NEW o \in Requests \ R PROVE Knows(o)'
    OBVIOUS
  <1>1. req'[o] = req[o] /\ Knows(o)
    BY DEF Know
  <1>2. ASSUME req[o].at \in Minting
        PROVE  /\ req[o].new \notin given' \cup dead'
               /\ req[o].new \in keys => req[o].new \in keys'
               /\ \A p \in Requests \ {o} : req'[p].at \in Minting => req'[p].new # req[o].new
    <2>1. req[o].new \in Jtis
      BY <1>2 DEF Inv, TokensKnown, Minting
    <2>2. \A r \in R : ~Mints(r, req[o].new)
      BY <1>1, <1>2 DEF Knows, Mints
    <2>3. req[o].new \notin given \cup dead
      BY <1>1, <1>2 DEF Knows
    <2>4. ASSUME NEW p \in Requests \ {o}, req'[p].at \in Minting PROVE req'[p].new # req[o].new
      <3>1. CASE p \in R
        BY <1>1, <1>2, <2>4, <3>1 DEF Knows
      <3>2. CASE p \notin R
        BY <1>1, <1>2, <2>4, <3>2 DEF Knows
      <3> QED BY <3>1, <3>2
    <2> QED BY <2>1, <2>2, <2>3, <2>4
  <1>3. \A r \in R, j \in given : ~Mints(r, j)
    BY DEF Know, Knows, Mints
  <1>4. ASSUME NEW y \in Unrevoked', row'[y].jti \in given
        PROVE  y \in Unrevoked /\ row'[y].jti = row[y].jti
    BY <1>3, <1>4
  <1>5. req[o].at \in {"staged", "rotated"} =>
          /\ \A x \in req[o].rows : row'[x].jti = req[o].jti
          /\ \A y \in Unrevoked' : row'[y].jti = req[o].jti => y \in req[o].rows
    BY <1>1, <1>4 DEF Knows
  <1>6. req[o].at = "logout" =>
          /\ req[o].copy \subseteq given'
          /\ \A y \in Unrevoked' : row'[y].jti \in req[o].copy => y \in req[o].rows
    BY <1>1, <1>4 DEF Knows
  <1> QED BY <1>1, <1>2, <1>5, <1>6 DEF Knows, Minting

\* A step that gives no row another token.
LEMMA KeepsTokens ==
    ASSUME Inv, Know, NEW R \in SUBSET Requests,
           \A o \in Requests \ R : req'[o] = req[o], UNCHANGED given,
           \A x \in Rows : row'[x].jti = row[x].jti,
           Unrevoked' \subseteq Unrevoked, Live' \subseteq Live, orphaned \subseteq orphaned',
           \A j \in Jtis : j \notin given /\ (\A r \in R : ~Mints(r, j)) =>
               (j \in keys => j \in keys') /\ (j \in dead' => j \in dead),
           \A r \in R : Knows(r)',
           \A x \in Live' \ orphaned' :
               /\ \A r \in R : ~TouchedBy(r, x)'
               /\ (\E r \in R : TouchedBy(r, x)) \/ Good(x)
               => Good(x)'
    PROVE  Know'
  <1>0. Unrevoked' \subseteq Rows /\ \A o \in Requests : req[o].rows \subseteq Rows
    BY DEF Unrevoked, Inv, TypeOK, Request
  <1>1. \A r \in Requests : Knows(r)'
    BY <1>0, OthersKnow
  <1>2. TokensDiffer'
    BY <1>0 DEF Know, TokensDiffer
  <1>3. Usable'
    <2> SUFFICES ASSUME NEW x \in Live' \ orphaned', ~Touched(x)' PROVE Good(x)'
      BY DEF Usable
    <2>1. x \in Live \ orphaned
      OBVIOUS
    <2>2. \A r \in R : ~TouchedBy(r, x)'
      BY DEF Touched
    <2>3. \A o \in Requests \ R : ~TouchedBy(o, x)
      BY DEF Touched, TouchedBy
    <2>4. (\E r \in R : TouchedBy(r, x)) \/ Good(x)
      BY <2>1, <2>3 DEF Know, Usable, Touched
    <2> QED BY <2>2, <2>4
  <1> QED BY <1>1, <1>2, <1>3 DEF Know

\* The same for one request, ...
LEMMA OneKeepsTokens ==
    ASSUME Inv, Know, NEW r \in Requests,
           \A o \in Requests \ {r} : req'[o] = req[o], UNCHANGED given,
           \A x \in Rows : row'[x].jti = row[x].jti,
           Unrevoked' \subseteq Unrevoked, Live' \subseteq Live, orphaned \subseteq orphaned',
           \A j \in Jtis : j \notin given /\ ~Mints(r, j) =>
               (j \in keys => j \in keys') /\ (j \in dead' => j \in dead),
           Knows(r)',
           \A x \in Live' \ orphaned' :
               ~TouchedBy(r, x)' /\ (TouchedBy(r, x) \/ Good(x)) => Good(x)'
    PROVE  Know'
  <1>1. PICK R \in SUBSET Requests : R = {r}
    OBVIOUS
  <1>2. /\ \A o \in Requests \ R : req'[o] = req[o]
        /\ \A q \in R : Knows(q)'
        /\ \A x \in Live' \ orphaned' :
               /\ \A q \in R : ~TouchedBy(q, x)'
               /\ (\E q \in R : TouchedBy(q, x)) \/ Good(x)
               => Good(x)'
    BY <1>1
  <1>3. \A j \in Jtis : j \notin given /\ (\A q \in R : ~Mints(q, j)) =>
               (j \in keys => j \in keys') /\ (j \in dead' => j \in dead)
    BY <1>1
  <1> QED BY <1>2, <1>3, KeepsTokens

\* ... and for none.
LEMMA NoneKeepsTokens ==
    ASSUME Inv, Know, UNCHANGED <<req, given, orphaned>>,
           \A x \in Rows : row'[x].jti = row[x].jti,
           Unrevoked' \subseteq Unrevoked, Live' \subseteq Live,
           \A j \in Jtis : j \notin given => (j \in keys => j \in keys') /\ (j \in dead' => j \in dead),
           \A x \in Live' : Good(x) => Good(x)'
    PROVE  Know'
  <1>1. PICK R \in SUBSET Requests : R = {}
    OBVIOUS
  <1>2. /\ \A o \in Requests \ R : req'[o] = req[o]
        /\ \A q \in R : Knows(q)'
        /\ \A x \in Live' \ orphaned' :
               /\ \A q \in R : ~TouchedBy(q, x)'
               /\ (\E q \in R : TouchedBy(q, x)) \/ Good(x)
               => Good(x)'
    BY <1>1
  <1>3. \A j \in Jtis : j \notin given /\ (\A q \in R : ~Mints(q, j)) =>
               (j \in keys => j \in keys') /\ (j \in dead' => j \in dead)
    BY <1>1
  <1> QED BY <1>2, <1>3, KeepsTokens

\* Requests that leave rows and keys alone and had nothing in memory.
LEMMA QuietKnows ==
    ASSUME Inv, Know, NEW r \in Requests, req[r].rows = {},
           \A o \in Requests \ {r} : req'[o] = req[o],
           UNCHANGED <<row, keys, dead, given, orphaned>>, Knows(r)'
    PROVE  Know'
  <1>1. Unrevoked' = Unrevoked /\ Live' = Live
    BY DEF Unrevoked, Live
  <1>2. \A x \in Live' \ orphaned' :
               ~TouchedBy(r, x)' /\ (TouchedBy(r, x) \/ Good(x)) => Good(x)'
    BY DEF TouchedBy, Good
  <1> QED BY <1>1, <1>2, OneKeepsTokens

\* A request in memory, field by field.
LEMMA Fields ==
    ASSUME Inv, NEW r \in Requests
    PROVE  /\ req \in [Requests -> Request] /\ req[r] \in Request
           /\ \A t : req' = [req EXCEPT ![r] = t] =>
                req'[r] = t /\ \A o \in Requests \ {r} : req'[o] = req[o]
  BY DEF Inv, TypeOK

\* A request that is idle or counts a refusal knows nothing.
LEMMA IdleKnows ==
    ASSUME NEW r \in Requests, req'[r].at \in {"idle", "refused", "counting", "abuse"}, req'[r].rows = {}
    PROVE  Knows(r)'
  BY DEF Knows, Minting

\* Requests that begin, are denied or give up.
LEMMA BeginKnows ==
    ASSUME Inv, Know, NEW r \in Requests,
           \/ \E d \in Devices : LoginBegin(r, d)
           \/ LoginDenied(r) \/ RefreshDenied(r) \/ RefreshGone(r)
           \/ \E what \in {"password", "offboard"} : ChangeUser(r, what)
           \/ \E S \in SUBSET Rows : LogoutRead(r, S)
    PROVE  Know'
  <1> USE DEF redis, db
  <1>k. Knows(r) /\ req \in [Requests -> Request]
    BY Fields DEF Know
  <1>1. ASSUME NEW d \in Devices, LoginBegin(r, d) PROVE Know'
    <2>1. /\ req[r].at = "idle" /\ UNCHANGED <<row, keys, dead, given, orphaned>>
          /\ req' = [req EXCEPT ![r].at = "login", ![r].device = d]
      BY <1>1 DEF LoginBegin
    <2>2. /\ req'[r].at = "login" /\ req'[r].rows = req[r].rows
          /\ \A o \in Requests \ {r} : req'[o] = req[o]
      BY <1>k, <2>1 DEF Request
    <2>3. req[r].rows = {}
      BY <1>k, <2>1 DEF Knows
    <2>4. Knows(r)'
      BY <2>2, <2>3 DEF Knows, Minting
    <2> QED BY <2>1, <2>2, <2>3, <2>4, QuietKnows
  <1>2. CASE LoginDenied(r) \/ RefreshDenied(r) \/ RefreshGone(r)
    <2>1. /\ req[r].at \in {"login", "refresh", "refreshLocked"}
          /\ UNCHANGED <<row, keys, dead, given, orphaned>> /\ Return(r)
      BY <1>2 DEF LoginDenied, RefreshDenied, RefreshGone
    <2>2. req'[r] = Idle /\ \A o \in Requests \ {r} : req'[o] = req[o]
      BY <2>1, Returned DEF Inv
    <2>3. req[r].rows = {}
      BY <1>k, <2>1 DEF Knows
    <2>4. Knows(r)'
      BY <2>2, IdleKnows DEF Idle
    <2> QED BY <2>1, <2>2, <2>3, <2>4, QuietKnows
  <1>3. ASSUME NEW what \in {"password", "offboard"}, ChangeUser(r, what) PROVE Know'
    <2>1. /\ req[r].at = "idle" /\ UNCHANGED <<row, keys, dead, given, orphaned>>
          /\ req' = [req EXCEPT ![r].at = what]
      BY <1>3 DEF ChangeUser
    <2>2. /\ req'[r].at = what /\ req'[r].rows = req[r].rows
          /\ \A o \in Requests \ {r} : req'[o] = req[o]
      BY <1>k, <2>1 DEF Request
    <2>3. req[r].rows = {}
      BY <1>k, <2>1 DEF Knows
    <2>4. Knows(r)'
      BY <2>2, <2>3 DEF Knows, Minting
    <2> QED BY <2>1, <2>2, <2>3, <2>4, QuietKnows
  <1>4. ASSUME NEW S \in SUBSET Rows, LogoutRead(r, S) PROVE Know'
    <2>1. /\ req[r].at = "idle" /\ UNCHANGED <<row, keys, dead, given, orphaned>> /\ S \subseteq Live
          /\ req' = [req EXCEPT ![r].at = "logout", ![r].rows = S, ![r].copy = JtisOf(S)]
      BY <1>4 DEF LogoutRead
    <2>2. /\ req'[r].at = "logout" /\ req'[r].rows = S /\ req'[r].copy = JtisOf(S)
          /\ \A o \in Requests \ {r} : req'[o] = req[o]
      BY <1>k, <2>1 DEF Request
    <2>3. req[r].rows = {}
      BY <1>k, <2>1 DEF Knows
    <2>4. /\ JtisOf(S) \subseteq given
          /\ \A y \in Unrevoked : row[y].jti \in JtisOf(S) => y \in S
      BY <2>1 DEF Know, TokensDiffer, JtisOf, Live, Unrevoked
    <2>5. Unrevoked' = Unrevoked
      BY <2>1 DEF Unrevoked
    <2>6. Knows(r)'
      BY <2>1, <2>2, <2>4, <2>5 DEF Knows, Minting
    <2> QED BY <2>1, <2>2, <2>3, <2>6, QuietKnows
  <1> QED BY <1>1, <1>2, <1>3, <1>4

\* A refresh up to the row it stages: a token that counts as used twice is not that of
\* a session somebody can use.
LEMMA RefreshKnows ==
    ASSUME Inv, Know, NEW r \in Requests,
           \/ \E j \in Jtis : RefreshBegin(r, j) \/ RefreshStage(r, j)
           \/ RefreshRefused(r) \/ RefreshLock(r)
    PROVE  Know'
  <1> USE DEF redis, db
  <1>k. Knows(r) /\ req \in [Requests -> Request]
    BY Fields DEF Know
  <1>c. ASSUME req' = [req EXCEPT ![r] = Refused]
        PROVE  Knows(r)' /\ req'[r].rows = {} /\ \A o \in Requests \ {r} : req'[o] = req[o]
    <2>1. Refused.at = "refused" /\ Refused.rows = {}
      BY DEF Refused, Idle
    <2>2. req'[r] = Refused /\ \A o \in Requests \ {r} : req'[o] = req[o]
      BY <1>c, Fields
    <2>3. Knows(r)'
      BY <2>1, <2>2, IdleKnows
    <2> QED BY <2>1, <2>2, <2>3
  <1>1. ASSUME NEW j \in Jtis, RefreshBegin(r, j) PROVE Know'
    <2>1. req[r].at = "idle" /\ j \in given /\ req[r].rows = {}
      BY <1>1, <1>k DEF RefreshBegin, Knows
    <2>2. CASE /\ req' = [req EXCEPT ![r] = Refused]
               /\ UNCHANGED <<db, userLock, rowLock, redis, given, orphaned>>
      BY <1>c, <2>1, <2>2, QuietKnows
    <2>3. CASE /\ req' = [req EXCEPT ![r].at = "refresh", ![r].jti = j]
               /\ UNCHANGED <<db, userLock, rowLock, redis, given, orphaned>>
      <3>1. /\ req'[r].at = "refresh" /\ req'[r].rows = req[r].rows /\ req'[r].jti = j
            /\ \A o \in Requests \ {r} : req'[o] = req[o]
        BY <1>k, <2>3 DEF Request
      <3>2. UNCHANGED <<row, keys, dead, given, orphaned>>
        BY <2>3
      <3>3. Knows(r)'
        BY <2>1, <3>1, <3>2 DEF Knows, Minting
      <3> QED BY <2>1, <3>1, <3>2, <3>3, QuietKnows
    <2> QED BY <1>1, <2>2, <2>3 DEF RefreshBegin
  <1>2. CASE RefreshLock(r)
    <2>1. /\ req[r].at = "refresh" /\ UNCHANGED <<row, keys, dead, given, orphaned>>
          /\ req' = [req EXCEPT ![r].at = "refreshLocked"]
      BY <1>2 DEF RefreshLock
    <2>2. /\ req'[r].at = "refreshLocked" /\ req'[r].rows = req[r].rows /\ req'[r].jti = req[r].jti
          /\ \A o \in Requests \ {r} : req'[o] = req[o]
      BY <1>k, <2>1 DEF Request
    <2>3. req[r].rows = {} /\ req[r].jti \in given
      BY <1>k, <2>1 DEF Knows
    <2>4. Knows(r)'
      BY <2>1, <2>2, <2>3 DEF Knows, Minting
    <2> QED BY <2>1, <2>2, <2>3, <2>4, QuietKnows
  <1>3. ASSUME NEW j \in Jtis, RefreshStage(r, j) PROVE Know'
    <2>1. PICK x \in Live :
            /\ req[r].at = "refreshLocked" /\ row[x].jti = req[r].jti
            /\ req' = [req EXCEPT ![r].at = "staged", ![r].new = j, ![r].rows = {x}]
      BY <1>3 DEF RefreshStage
    <2>2. Fresh(j) /\ UNCHANGED <<row, keys, dead, given, orphaned>>
      BY <1>3 DEF RefreshStage
    <2>3. /\ req'[r].at = "staged" /\ req'[r].rows = {x} /\ req'[r].jti = req[r].jti /\ req'[r].new = j
          /\ \A o \in Requests \ {r} : req'[o] = req[o]
      BY <1>k, <2>1 DEF Request
    <2>4. req[r].rows = {} /\ req[r].jti \in given
      BY <1>k, <2>1 DEF Knows
    <2>5. Unrevoked' = Unrevoked /\ \A y \in Unrevoked : row[y].jti = req[r].jti => y = x
      BY <2>1, <2>2 DEF Know, TokensDiffer, Live, Unrevoked
    <2>6. j \notin given' \cup dead' /\ \A o \in Requests \ {r} : req'[o].new # j
      BY <2>2, <2>3 DEF Fresh
    <2>7. row'[x].jti = req[r].jti
      BY <2>1, <2>2
    <2>8. \A y \in Unrevoked' : row'[y].jti = req[r].jti => y = x
      BY <2>2, <2>5
    <2>9. given' = given
      BY <2>2
    <2>10. Knows(r)'
      BY <2>3, <2>4, <2>6, <2>7, <2>8, <2>9 DEF Knows, Minting
    <2> QED BY <2>2, <2>3, <2>4, <2>10, QuietKnows
  <1>4. CASE RefreshRefused(r)
    <2> DEFINE j == req[r].jti
    <2>0. req[r].at = "refresh"
      BY <1>4 DEF RefreshRefused
    <2>1. /\ dead' = dead \/ (dead' = dead \cup {j} /\ j \notin keys)
          /\ req' = [req EXCEPT ![r] = Refused]
          /\ UNCHANGED <<row, keys, given, orphaned>>
      BY <1>4 DEF RefreshRefused
    <2>2. j \in given /\ req[r].rows = {}
      BY <1>k, <2>0 DEF Knows
    <2>3. CASE UNCHANGED dead
      BY <1>c, <2>1, <2>2, <2>3, QuietKnows
    <2>4. CASE dead' = dead \cup {j} /\ j \notin keys
      <3>1. Unrevoked' = Unrevoked /\ Live' = Live
        BY <1>c, <2>1 DEF Unrevoked, Live
      <3>2. \A x \in Live' \ orphaned' :
               ~TouchedBy(r, x)' /\ (TouchedBy(r, x) \/ Good(x)) => Good(x)'
        BY <1>c, <2>1, <2>2, <2>4 DEF TouchedBy, Good
      <3>3. \A i \in Jtis : i \notin given => (i \in keys => i \in keys') /\ (i \in dead' => i \in dead)
        BY <1>c, <2>1, <2>2, <2>4
      <3> HIDE DEF j
      <3> QED BY <1>c, <2>1, <3>1, <3>2, <3>3, OneKeepsTokens
    <2> QED BY <2>1, <2>3, <2>4
  <1> QED BY <1>1, <1>2, <1>3, <1>4

\* Refusals are counted by requests that have nothing in memory.
LEMMA CountKnows ==
    ASSUME Inv, Know, NEW r \in Requests, RefreshWrongToken(r) \/ CountRead(r) \/ CountWrite(r)
    PROVE  Know'
  <1> USE DEF redis, db
  <1>k. Knows(r) /\ req \in [Requests -> Request] /\ req[r].rows = {}
    BY Fields DEF Know, Knows, RefreshWrongToken, CountRead, CountWrite
  <1>1. UNCHANGED <<row, keys, dead, given, orphaned>>
    BY DEF RefreshWrongToken, CountRead, CountWrite
  <1>2. PICK t : /\ req' = [req EXCEPT ![r] = t] /\ t.rows = {}
                 /\ t.at \in {"idle", "refused", "counting", "abuse"}
    <2>1. CASE RefreshWrongToken(r)
      <3>1. req' = [req EXCEPT ![r] = Refused]
        BY <2>1 DEF RefreshWrongToken
      <3>2. Refused.rows = {} /\ Refused.at = "refused"
        BY DEF Refused, Idle
      <3> QED BY <3>1, <3>2
    <2>2. CASE CountRead(r)
      <3> DEFINE t == [[req[r] EXCEPT !.at = "counting"] EXCEPT !.count = failures]
      <3>1. req' = [req EXCEPT ![r] = t]
        BY <1>k, <2>2 DEF CountRead, Request
      <3>2. t.rows = {} /\ t.at = "counting"
        BY <1>k DEF Request
      <3> HIDE DEF t
      <3> QED BY <3>1, <3>2
    <2>3. CASE CountWrite(r)
      <3>1. PICK t \in {[Idle EXCEPT !.at = "abuse"], Idle} : req' = [req EXCEPT ![r] = t]
        BY <2>3 DEF CountWrite
      <3>2. t.rows = {} /\ t.at \in {"idle", "abuse"}
        BY DEF Idle
      <3> QED BY <3>1, <3>2
    <2> QED BY <2>1, <2>2, <2>3
  <1>3. req'[r] = t /\ \A o \in Requests \ {r} : req'[o] = req[o]
    BY <1>2, Fields
  <1>4. Knows(r)'
    BY <1>2, <1>3, IdleKnows
  <1> QED BY <1>k, <1>1, <1>3, <1>4, QuietKnows

\* A login sets the key of its token and drops those of the rows it will end.
LEMMA LoginLockKnows ==
    ASSUME Inv, Know, NEW r \in Requests, NEW j \in Jtis, LoginLock(r, j)
    PROVE  Know'
  <1>k. Knows(r) /\ req \in [Requests -> Request]
    BY Fields DEF Know
  <1>1. /\ req[r].at = "login" /\ Fresh(j) /\ UNCHANGED <<row, given, orphaned>>
    BY DEF LoginLock, db
  <1>2. PICK S \in Evictions(req[r].device) :
          /\ req' = [req EXCEPT ![r].at = "loginFlush", ![r].new = j, ![r].rows = S]
          /\ \/ keys' = (keys \ JtisOf(S)) \cup {j} /\ dead' = dead \cup JtisOf(S)
             \/ keys' = keys \cup {j} /\ dead' = dead
    BY DEF LoginLock
  <1>3. /\ req'[r].at = "loginFlush" /\ req'[r].rows = S /\ req'[r].new = j
        /\ \A o \in Requests \ {r} : req'[o] = req[o]
    BY <1>k, <1>2 DEF Request
  <1>4. \/ keys' = (keys \ JtisOf(S)) \cup {j} /\ dead' = dead \cup JtisOf(S)
        \/ keys' = keys \cup {j} /\ dead' = dead
    BY <1>2
  <1>5. /\ JtisOf(S) \subseteq given
        /\ \A y \in Unrevoked : row[y].jti \in JtisOf(S) => y \in S
    BY EvictedAreRows DEF Know, TokensDiffer, JtisOf
  <1>6. Unrevoked' = Unrevoked /\ Live' = Live /\ Live \subseteq Unrevoked
    BY <1>1 DEF Unrevoked, Live
  <1>7. req[r].rows = {}
    BY <1>k, <1>1 DEF Knows
  <1>8. j \in keys' /\ j \notin given' \cup dead' /\ \A o \in Requests \ {r} : req'[o].new # j
    BY <1>1, <1>3, <1>4, <1>5 DEF Fresh
  <1>9. Knows(r)'
    BY <1>3, <1>8 DEF Knows, Minting
  <1>10. \A x \in Live' \ orphaned' :
               ~TouchedBy(r, x)' /\ (TouchedBy(r, x) \/ Good(x)) => Good(x)'
    BY <1>1, <1>3, <1>4, <1>5, <1>6, <1>7 DEF TouchedBy, Good
  <1>11. \A i \in Jtis : i \notin given => (i \in keys => i \in keys') /\ (i \in dead' => i \in dead)
    BY <1>4, <1>5
  <1> QED BY <1>1, <1>3, <1>6, <1>9, <1>10, <1>11, OneKeepsTokens

\* A rotation moves the key from the old token to the new one, ...
LEMMA RotateKnows ==
    ASSUME Inv, Know, NEW r \in Requests, RefreshRotate(r)
    PROVE  Know'
  <1>k. Knows(r) /\ req \in [Requests -> Request]
    BY Fields DEF Know
  <1>1. /\ req[r].at = "staged" /\ UNCHANGED <<row, given, orphaned>>
        /\ keys' = (keys \ {req[r].jti}) \cup {req[r].new}
        /\ dead' = dead \cup {req[r].jti}
    BY DEF RefreshRotate, db
  <1>2. req' = [req EXCEPT ![r].at = "rotated"]
    BY DEF RefreshRotate
  <1>3. /\ req'[r].at = "rotated" /\ req'[r].rows = req[r].rows
        /\ req'[r].new = req[r].new /\ req'[r].jti = req[r].jti
        /\ \A o \in Requests \ {r} : req'[o] = req[o]
    BY <1>k, <1>2 DEF Request
  <1>4. Unrevoked' = Unrevoked /\ Live' = Live /\ Live \subseteq Unrevoked
    BY <1>1 DEF Unrevoked, Live
  <1>5. /\ req[r].jti \in given /\ req[r].new \notin given \cup dead
        /\ \A o \in Requests \ {r} : req[o].at \in Minting => req[o].new # req[r].new
        /\ \A x \in req[r].rows : row[x].jti = req[r].jti
        /\ \A y \in Unrevoked : row[y].jti = req[r].jti => y \in req[r].rows
    BY <1>k, <1>1 DEF Knows, Minting
  <1>6. Knows(r)'
    BY <1>1, <1>3, <1>4, <1>5 DEF Knows, Minting
  <1>7. \A x \in Live' \ orphaned' :
               ~TouchedBy(r, x)' /\ (TouchedBy(r, x) \/ Good(x)) => Good(x)'
    BY <1>1, <1>3, <1>4, <1>5 DEF TouchedBy, Good
  <1>8. \A i \in Jtis : i \notin given /\ ~Mints(r, i) =>
               (i \in keys => i \in keys') /\ (i \in dead' => i \in dead)
    BY <1>1, <1>5
  <1> QED BY <1>1, <1>3, <1>4, <1>6, <1>7, <1>8, OneKeepsTokens

\* ... and a rotation that fails moves it back.
LEMMA CompensateKnows ==
    ASSUME Inv, Know, NEW r \in Requests, Compensate(r)
    PROVE  Know'
  <1>k. Knows(r)
    BY DEF Know
  <1>1. /\ req[r].at \in {"staged", "rotated"} /\ UNCHANGED <<row, given, orphaned>>
        /\ keys' = (keys \ {req[r].new}) \cup {req[r].jti}
        /\ dead' = dead \ {req[r].jti}
        /\ Return(r)
    BY DEF Compensate, db
  <1>2. /\ req'[r].at = "idle" /\ req'[r].rows = {}
        /\ \A o \in Requests \ {r} : req'[o] = req[o]
    BY <1>1, Returned DEF Inv, Idle
  <1>3. Unrevoked' = Unrevoked /\ Live' = Live /\ Live \subseteq Unrevoked
    BY <1>1 DEF Unrevoked, Live
  <1>4. /\ req[r].jti \in given /\ req[r].new \notin given
        /\ \A x \in req[r].rows : row[x].jti = req[r].jti
        /\ \A y \in Unrevoked : row[y].jti \in given
    BY <1>k, <1>1 DEF Knows, Minting, Know, TokensDiffer
  <1>5. Knows(r)'
    BY <1>2, IdleKnows
  <1>6. \A x \in Live' \ orphaned' :
               ~TouchedBy(r, x)' /\ (TouchedBy(r, x) \/ Good(x)) => Good(x)'
    BY <1>1, <1>2, <1>3, <1>4 DEF TouchedBy, Good
  <1>7. \A i \in Jtis : i \notin given /\ ~Mints(r, i) =>
               (i \in keys => i \in keys') /\ (i \in dead' => i \in dead)
    BY <1>1 DEF Mints, Minting
  <1> QED BY <1>1, <1>2, <1>3, <1>5, <1>6, <1>7, OneKeepsTokens

\* invalidate_all_sessions has every row in memory whose keys it drops.
LEMMA InvalidateKnows ==
    ASSUME Inv, Know, NEW r \in Requests, Invalidate(r)
    PROVE  Know'
  <1>k. Knows(r) /\ req \in [Requests -> Request]
    BY Fields DEF Know
  <1>1. /\ req[r].at \in {"abuse", "password", "offboard"} /\ UNCHANGED <<row, given, orphaned>>
        /\ \/ keys' = keys \ JtisOf(Unrevoked) /\ dead' = dead \cup JtisOf(Unrevoked)
           \/ UNCHANGED <<keys, dead>>
    BY DEF Invalidate, db
  <1>2. PICK at \in {"deactivated", "invalidated"} :
          req' = [req EXCEPT ![r].rows = Unrevoked, ![r].at = at]
    BY DEF Invalidate
  <1>3. /\ req'[r].at = at /\ req'[r].rows = Unrevoked
        /\ \A o \in Requests \ {r} : req'[o] = req[o]
    BY <1>k, <1>2 DEF Request
  <1>4. Unrevoked' = Unrevoked /\ Live' = Live /\ Live \subseteq Unrevoked
    BY <1>1 DEF Unrevoked, Live
  <1>5. Knows(r)'
    BY <1>3 DEF Knows, Minting
  <1>6. \A x \in Live' \ orphaned' : TouchedBy(r, x)'
    BY <1>3, <1>4 DEF TouchedBy
  <1>7. JtisOf(Unrevoked) \subseteq given
    BY DEF Know, TokensDiffer, JtisOf
  <1>8. \A i \in Jtis : i \notin given => (i \in keys => i \in keys') /\ (i \in dead' => i \in dead)
    BY <1>1, <1>7
  <1> QED BY <1>1, <1>3, <1>4, <1>5, <1>6, <1>8, OneKeepsTokens

\* Rows that are revoked keep their tokens.
LEMMA RevokedRows ==
    ASSUME Inv, NEW S \in SUBSET Rows, row' = Revoked(S)
    PROVE  /\ \A x \in Rows : row'[x].jti = row[x].jti
           /\ Unrevoked' \subseteq Unrevoked /\ Live' \subseteq Live
           /\ Live' \cap S = {} /\ Live \subseteq Unrevoked
  <1>1. PICK F : F = Revoked(S)
    OBVIOUS
  <1>2. /\ \A x \in S : F[x].state = "revoked" /\ F[x].jti = row[x].jti
        /\ \A x \in Rows \ S : F[x] = row[x]
    BY <1>1, RevokedTyped DEF Inv
  <1> QED BY <1>1, <1>2 DEF Unrevoked, Live

\* The rows a request read are revoked: whoever else holds one is still to be usable,
\* for a logout drops the keys of no other session.
LEMMA CommitsKnow ==
    ASSUME Inv, Know, NEW r \in Requests,
           InvalidateCommit(r) \/ LogoutCommit(r) \/ RevokeOthersCommit(r)
    PROVE  Know'
  <1>k. Knows(r) /\ req[r].rows \subseteq Rows
    BY DEF Know, Inv, TypeOK, Request
  <1>1. /\ row' = Revoked(req[r].rows) /\ Return(r) /\ UNCHANGED <<given, orphaned>>
        /\ \/ UNCHANGED <<keys, dead>>
           \/ req[r].at = "logout" /\ keys' = keys \ req[r].copy /\ dead' = dead \cup req[r].copy
    BY DEF InvalidateCommit, LogoutCommit, RevokeOthersCommit, Forget, redis
  <1>2. /\ req'[r].at = "idle" /\ req'[r].rows = {}
        /\ \A o \in Requests \ {r} : req'[o] = req[o]
    BY <1>1, Returned DEF Inv, Idle
  <1>3. /\ \A x \in Rows : row'[x].jti = row[x].jti
        /\ Unrevoked' \subseteq Unrevoked /\ Live' \subseteq Live
        /\ Live' \cap req[r].rows = {} /\ Live \subseteq Unrevoked /\ Live \subseteq Rows
    BY <1>k, <1>1, RevokedRows DEF Live
  <1>4. Knows(r)'
    BY <1>2, IdleKnows
  <1>5. req[r].at = "logout" =>
          /\ req[r].copy \subseteq given
          /\ \A y \in Unrevoked : row[y].jti \in req[r].copy => y \in req[r].rows
    BY <1>k DEF Knows
  <1>6. \A x \in Live' \ orphaned' :
               ~TouchedBy(r, x)' /\ (TouchedBy(r, x) \/ Good(x)) => Good(x)'
    BY <1>1, <1>3, <1>5 DEF TouchedBy, Good
  <1>7. \A i \in Jtis : i \notin given => (i \in keys => i \in keys') /\ (i \in dead' => i \in dead)
    BY <1>1, <1>5
  <1>8. UNCHANGED <<given, orphaned>>
    BY <1>1
  <1> QED BY <1>2, <1>3, <1>4, <1>6, <1>7, <1>8, OneKeepsTokens

\* A request that read rows without a lock, or failed.
LEMMA OtherKnows ==
    ASSUME Inv, Know, NEW r \in Requests,
           (\E S \in SUBSET Rows : RevokeOthersRead(r, S)) \/ Fail(r)
    PROVE  Know'
  <1>k. Knows(r) /\ req \in [Requests -> Request]
    BY Fields DEF Know
  <1>u. UNCHANGED row => Unrevoked' = Unrevoked /\ Live' = Live /\ Live \subseteq Unrevoked
    BY DEF Unrevoked, Live
  <1>1. ASSUME NEW S \in SUBSET Rows, RevokeOthersRead(r, S) PROVE Know'
    <2>1. /\ req[r].at = "idle" /\ UNCHANGED <<row, given, orphaned>> /\ S \subseteq Live
          /\ \/ keys' = keys \ JtisOf(S) /\ dead' = dead \cup JtisOf(S)
             \/ UNCHANGED <<keys, dead>>
      BY <1>1 DEF RevokeOthersRead, Forget, db
    <2>2. req' = [req EXCEPT ![r].at = "revoke", ![r].rows = S]
      BY <1>1 DEF RevokeOthersRead
    <2>3. /\ req'[r].at = "revoke" /\ req'[r].rows = S
          /\ \A o \in Requests \ {r} : req'[o] = req[o]
      BY <1>k, <2>2 DEF Request
    <2>4. Knows(r)'
      BY <2>3 DEF Knows, Minting
    <2>5. req[r].rows = {}
      BY <1>k, <2>1 DEF Knows
    <2>6. /\ JtisOf(S) \subseteq given
          /\ \A y \in Unrevoked : row[y].jti \in JtisOf(S) => y \in S
      BY <2>1 DEF Know, TokensDiffer, JtisOf, Live, Unrevoked
    <2>7. \A x \in Live' \ orphaned' :
               ~TouchedBy(r, x)' /\ (TouchedBy(r, x) \/ Good(x)) => Good(x)'
      BY <1>u, <2>1, <2>3, <2>5, <2>6 DEF TouchedBy, Good
    <2>8. \A i \in Jtis : i \notin given => (i \in keys => i \in keys') /\ (i \in dead' => i \in dead)
      BY <2>1, <2>6
    <2> QED BY <1>u, <2>1, <2>3, <2>4, <2>7, <2>8, OneKeepsTokens
  <1>2. CASE Fail(r)
    <2>1. /\ req[r].at # "idle" /\ Return(r) /\ UNCHANGED <<row, given>>
          /\ \/ UNCHANGED <<keys, dead>>
             \/ req[r].at = "loginFlush" /\ keys' = keys \ {req[r].new} /\ UNCHANGED dead
             \/ req[r].at = "logout" /\ keys' = keys \ req[r].copy /\ dead' = dead \cup req[r].copy
      BY <1>2 DEF Fail, Forget, redis, db
    <2>2. orphaned' = IF req[r].at \in {"login", "refresh", "refreshLocked", "staged"}
                      THEN orphaned ELSE orphaned \cup req[r].rows
      BY <1>2 DEF Fail
    <2>3. /\ req'[r].at = "idle" /\ req'[r].rows = {}
          /\ \A o \in Requests \ {r} : req'[o] = req[o]
      BY <2>1, Returned DEF Inv, Idle
    <2>4. Knows(r)'
      BY <2>3, IdleKnows
    <2>5. /\ req[r].at = "logout" =>
               /\ req[r].copy \subseteq given
               /\ \A y \in Unrevoked : row[y].jti \in req[r].copy => y \in req[r].rows
          /\ req[r].at = "loginFlush" => req[r].new \notin given
          /\ req[r].at \in {"login", "refresh", "refreshLocked"} => req[r].rows = {}
          /\ \A y \in Unrevoked : row[y].jti \in given
      BY <1>k DEF Knows, Minting, Know, TokensDiffer
    <2>6. \A x \in Live' \ orphaned' :
               ~TouchedBy(r, x)' /\ (TouchedBy(r, x) \/ Good(x)) => Good(x)'
      BY <1>u, <2>1, <2>2, <2>5 DEF TouchedBy, Good
    <2>7. \A i \in Jtis : i \notin given /\ ~Mints(r, i) =>
               (i \in keys => i \in keys') /\ (i \in dead' => i \in dead)
      BY <2>1, <2>5 DEF Mints, Minting
    <2>8. orphaned \subseteq orphaned'
      BY <2>2
    <2> QED BY <1>u, <2>1, <2>3, <2>4, <2>6, <2>7, <2>8, OneKeepsTokens
  <1> QED BY <1>1, <1>2

\* A commit that hands out a token: rows may get it that had none, or one that is
\* forgotten now; nobody else rotates meanwhile.
LEMMA HandOut ==
    ASSUME Inv, Know, NEW r \in Requests, req[r].at \in {"loginFlush", "rotated"}, Return(r),
           UNCHANGED <<keys, dead, orphaned>>, given' = given \cup {req[r].new},
           NEW S \in SUBSET Rows, \A x, y \in S : x = y,
           \A x \in S : row'[x].jti = req[r].new,
           \A x \in Rows \ S : row'[x].jti = row[x].jti,
           Unrevoked' \ S \subseteq Unrevoked, Live' \ S \subseteq Live,
           Live' \cap req[r].rows \subseteq S
    PROVE  Know'
  <1>k. Knows(r)
    BY DEF Know
  <1>1. /\ req'[r].at = "idle" /\ req'[r].rows = {}
        /\ \A o \in Requests \ {r} : req'[o] = req[o]
    BY Returned DEF Inv, Idle
  <1>2. \A o \in Requests \ {r} : req[o].at \notin {"staged", "rotated"}
    BY DEF Inv, HoldersKnow
  <1>3. Mints(r, req[r].new) /\ req[r].new \in keys /\ req[r].new \notin given \cup dead
    BY <1>k DEF Mints, Minting, Knows
  <1>4. Unrevoked' \subseteq Rows /\ Live' \subseteq Rows
    BY DEF Unrevoked, Live
  <1>5. \A x \in Unrevoked' : x \in S \/ (x \in Unrevoked /\ row'[x].jti = row[x].jti)
    BY <1>4
  <1>6. \A q \in Requests : Knows(q)'
    <2>1. PICK R \in SUBSET Requests : R = {r}
      OBVIOUS
    <2>2. \A q \in R : Knows(q)'
      BY <1>1, <2>1, IdleKnows
    <2>3. /\ \A o \in Requests \ R : req'[o] = req[o]
          /\ \A j \in given' \ given : \E q \in R : Mints(q, j)
          /\ \A x \in Unrevoked' : \/ x \in Unrevoked /\ row'[x].jti = row[x].jti
                                   \/ \E q \in R : Mints(q, row'[x].jti)
          /\ \A o \in Requests \ R : req[o].at \in {"staged", "rotated"} =>
               \A x \in req[o].rows : row'[x].jti = row[x].jti
      BY <1>1, <1>2, <1>3, <1>5, <2>1
    <2> QED BY <2>2, <2>3, OthersKnow
  <1>7. TokensDiffer'
    <2>1. \A x \in Unrevoked' : row'[x].jti \in given'
      BY <1>5 DEF Know, TokensDiffer
    <2>2. ASSUME NEW x \in Unrevoked', NEW y \in Unrevoked', row'[x].jti = row'[y].jti
          PROVE  x = y
      BY <1>3, <1>5, <2>2 DEF Know, TokensDiffer
    <2> QED BY <2>1, <2>2 DEF TokensDiffer
  <1>8. Usable'
    <2> SUFFICES ASSUME NEW x \in Live' \ orphaned', ~Touched(x)' PROVE Good(x)'
      BY DEF Usable
    <2>1. CASE x \in S
      BY <1>3, <2>1 DEF Good
    <2>2. CASE x \notin S
      <3>1. x \in Live \ orphaned /\ x \notin req[r].rows /\ row'[x].jti = row[x].jti
        BY <1>4, <2>2
      <3>2. ~Touched(x)
        BY <1>1, <3>1 DEF Touched, TouchedBy
      <3> QED BY <3>1, <3>2 DEF Know, Usable, Good
    <2> QED BY <2>1, <2>2
  <1> QED BY <1>6, <1>7, <1>8 DEF Know

\* A login gives a row its first token.
LEMMA LoginCommitKnows ==
    ASSUME Inv, Know, NEW r \in Requests, LoginCommit(r)
    PROVE  Know'
  <1>1. /\ req[r].at = "loginFlush" /\ Return(r) /\ given' = given \cup {req[r].new}
        /\ UNCHANGED <<keys, dead, orphaned>>
    BY DEF LoginCommit, redis
  <1>2. PICK x \in Rows :
          row' = [Revoked(req[r].rows) EXCEPT ![x] =
                     [jti |-> req[r].new, device |-> req[r].device, state |-> "live"]]
    BY DEF LoginCommit
  <1>3. PICK F : F = Revoked(req[r].rows)
    OBVIOUS
  <1>4. req[r].rows \subseteq Rows
    BY DEF Inv, TypeOK, Request
  <1>5. /\ F \in [Rows -> Row]
        /\ \A y \in req[r].rows : F[y].state = "revoked" /\ F[y].jti = row[y].jti
        /\ \A y \in Rows \ req[r].rows : F[y] = row[y]
    BY <1>3, <1>4, RevokedTyped DEF Inv
  <1>6. row'[x].jti = req[r].new /\ \A y \in Rows \ {x} : row'[y] = F[y]
    BY <1>2, <1>3, <1>5
  <1>7. /\ \A y \in Rows \ {x} : row'[y].jti = row[y].jti
        /\ Unrevoked' \ {x} \subseteq Unrevoked
        /\ Live' \ {x} \subseteq Live
        /\ Live' \cap req[r].rows \subseteq {x}
    BY <1>4, <1>5, <1>6 DEF Unrevoked, Live
  <1>8. PICK S \in SUBSET Rows : S = {x}
    OBVIOUS
  <1>9. /\ \A y, z \in S : y = z
        /\ \A y \in S : row'[y].jti = req[r].new
        /\ \A y \in Rows \ S : row'[y].jti = row[y].jti
        /\ Unrevoked' \ S \subseteq Unrevoked /\ Live' \ S \subseteq Live
        /\ Live' \cap req[r].rows \subseteq S
    BY <1>6, <1>7, <1>8
  <1>10. req[r].at \in {"loginFlush", "rotated"}
    BY <1>1
  <1> QED BY <1>1, <1>9, <1>10, HandOut

\* A refresh gives its row the new token; no other row had the old one.
LEMMA RefreshCommitKnows ==
    ASSUME Inv, Know, NEW r \in Requests, RefreshCommit(r)
    PROVE  Know'
  <1>1. /\ req[r].at = "rotated" /\ Return(r) /\ given' = given \cup {req[r].new}
        /\ UNCHANGED <<keys, dead, orphaned>>
    BY DEF RefreshCommit
  <1>2. row' = [x \in Rows |-> IF x \in req[r].rows THEN [row[x] EXCEPT !.jti = req[r].new]
                               ELSE row[x]]
    BY DEF RefreshCommit
  <1>3. req[r].rows \subseteq Rows /\ row \in [Rows -> Row]
    BY DEF Inv, TypeOK, Request
  <1>4. /\ \A x \in req[r].rows : row'[x].jti = req[r].new
        /\ \A x \in Rows \ req[r].rows : row'[x].jti = row[x].jti
        /\ \A x \in Rows : row'[x].state = row[x].state
    BY <1>2, <1>3 DEF Row
  <1>5. Unrevoked' = Unrevoked /\ Live' = Live
    BY <1>4 DEF Unrevoked, Live
  <1>6. \A x \in req[r].rows : x \in Unrevoked /\ row[x].jti = req[r].jti
    BY <1>1, <1>3 DEF Inv, HoldersKnow, Know, Knows, Unrevoked
  <1>7. \A x, y \in req[r].rows : x = y
    BY <1>6 DEF Know, TokensDiffer
  <1>8. PICK S \in SUBSET Rows : S = req[r].rows
    BY <1>3
  <1>9. /\ \A y, z \in S : y = z
        /\ \A y \in S : row'[y].jti = req[r].new
        /\ \A y \in Rows \ S : row'[y].jti = row[y].jti
        /\ Unrevoked' \ S \subseteq Unrevoked /\ Live' \ S \subseteq Live
        /\ Live' \cap req[r].rows \subseteq S
    BY <1>4, <1>5, <1>7, <1>8
  <1>10. req[r].at \in {"loginFlush", "rotated"}
    BY <1>1
  <1> QED BY <1>1, <1>9, <1>10, HandOut

\* Steps of no request: a token may lose its key only with the session it belongs to.
LEMMA LonelyKnows ==
    ASSUME Inv, Know,
           \/ \E x \in Rows : Expire(x) \/ RevokeOne(x)
           \/ \E j \in Jtis : PurgeStaleKey(j)
           \/ WindowEnds \/ Reactivate
    PROVE  Know'
  <1>r. row \in [Rows -> Row]
    BY DEF Inv, TypeOK
  <1>1. ASSUME NEW x \in Rows, Expire(x) PROVE Know'
    <2>1. row' = [row EXCEPT ![x].state = "expired"] /\ row[x].state = "live"
      BY <1>1 DEF Expire
    <2>2. UNCHANGED <<keys, dead, given, req, orphaned>>
      BY <1>1 DEF Expire, redis
    <2>3. /\ \A y \in Rows : row'[y].jti = row[y].jti
          /\ row'[x].state = "expired" /\ \A y \in Rows \ {x} : row'[y].state = row[y].state
      BY <1>r, <2>1 DEF Row
    <2>4. row[x].state = "live"
      BY <2>1
    <2>5. Unrevoked' \subseteq Unrevoked /\ Live' \subseteq Live /\ Live \subseteq Rows
      BY <2>3, <2>4 DEF Unrevoked, Live
    <2>6. \A y \in Live' : Good(y) => Good(y)'
      BY <2>2, <2>3, <2>5 DEF Good
    <2> QED BY <2>2, <2>3, <2>5, <2>6, NoneKeepsTokens
  <1>2. ASSUME NEW x \in Rows, RevokeOne(x) PROVE Know'
    <2>1. /\ row' = Revoked({x}) /\ x \in Unrevoked /\ UNCHANGED <<given, req, orphaned>>
          /\ \/ keys' = keys \ {row[x].jti} /\ dead' = dead \cup {row[x].jti}
             \/ UNCHANGED <<keys, dead>>
      BY <1>2 DEF RevokeOne, Forget
    <2>2. PICK S \in SUBSET Rows : S = {x}
      OBVIOUS
    <2>3. row' = Revoked(S)
      BY <2>1, <2>2
    <2>4. /\ \A y \in Rows : row'[y].jti = row[y].jti
          /\ Unrevoked' \subseteq Unrevoked /\ Live' \subseteq Live
          /\ Live' \cap {x} = {} /\ Live \subseteq Unrevoked /\ Live \subseteq Rows
      BY <2>2, <2>3, RevokedRows DEF Live
    <2>5. row[x].jti \in given /\ \A y \in Unrevoked : row[y].jti = row[x].jti => y = x
      BY <2>1 DEF Know, TokensDiffer
    <2>6. \A y \in Live' : Good(y) => Good(y)'
      BY <2>1, <2>4, <2>5 DEF Good
    <2>7. \A j \in Jtis : j \notin given => (j \in keys => j \in keys') /\ (j \in dead' => j \in dead)
      BY <2>1, <2>5
    <2>8. UNCHANGED <<req, given, orphaned>>
      BY <2>1
    <2> QED BY <2>4, <2>6, <2>7, <2>8, NoneKeepsTokens
  <1>3. ASSUME UNCHANGED <<row, given, req, orphaned, dead>>,
               NEW J \in SUBSET (given \ JtisOf(Live)), keys' = keys \ J
        PROVE  Know'
    <2>1. Unrevoked' = Unrevoked /\ Live' = Live /\ Live \subseteq Rows
      BY <1>3 DEF Unrevoked, Live
    <2>2. \A y \in Live' : Good(y) => Good(y)'
      BY <1>3, <2>1 DEF Good, JtisOf
    <2> QED BY <1>3, <2>1, <2>2, NoneKeepsTokens
  <1>4. ASSUME NEW j \in Jtis, PurgeStaleKey(j) PROVE Know'
    <2>1. /\ UNCHANGED <<row, given, req, orphaned, dead>> /\ keys' = keys \ {j}
          /\ j \in given \ JtisOf(Live)
      BY <1>4 DEF PurgeStaleKey, db
    <2>2. PICK J \in SUBSET (given \ JtisOf(Live)) : J = {j}
      BY <2>1
    <2> QED BY <1>3, <2>1, <2>2
  <1>5. CASE WindowEnds \/ Reactivate
    <2>1. UNCHANGED <<row, given, req, orphaned, dead, keys>>
      BY <1>5 DEF WindowEnds, Reactivate, db, redis
    <2>2. PICK J \in SUBSET (given \ JtisOf(Live)) : J = {}
      OBVIOUS
    <2> QED BY <1>3, <2>1, <2>2
  <1> QED BY <1>1, <1>2, <1>4, <1>5

LEMMA InitKnow == Init => Know
  <1> SUFFICES ASSUME Init PROVE Know
    OBVIOUS
  <1>1. Unrevoked = {} /\ Live = {}
    BY DEF Init, Unrevoked, Live
  <1>2. \A r \in Requests : req[r].at = "idle" /\ req[r].rows = {}
    BY DEF Init, Idle
  <1>3. \A r \in Requests : Knows(r)
    BY <1>2 DEF Knows, Minting
  <1> QED BY <1>1, <1>3 DEF Know, Usable, TokensDiffer

\* Every step keeps the tokens of the live sessions usable.
LEMMA StepKnow == Inv /\ Know /\ [Next]_vars => Know'
  <1> SUFFICES ASSUME Inv, Know, [Next]_vars PROVE Know'
    OBVIOUS
  <1>1. CASE UNCHANGED vars
    <2>1. UNCHANGED <<row, keys, dead, given, req, orphaned>>
      BY <1>1 DEF vars
    <2> QED BY <2>1 DEF Know, Usable, TokensDiffer, Knows, Minting, Live, Unrevoked, Touched,
                        TouchedBy, Good
  <1>2. CASE \/ \E x \in Rows : Expire(x) \/ RevokeOne(x)
             \/ \E j \in Jtis : PurgeStaleKey(j)
             \/ WindowEnds \/ Reactivate
    BY <1>2, LonelyKnows
  <1>3. ASSUME NEW r \in Requests,
               \/ \E d \in Devices : LoginBegin(r, d)
               \/ LoginDenied(r) \/ RefreshDenied(r) \/ RefreshGone(r)
               \/ \E what \in {"password", "offboard"} : ChangeUser(r, what)
               \/ \E S \in SUBSET Rows : LogoutRead(r, S)
        PROVE  Know'
    BY <1>3, BeginKnows
  <1>4. ASSUME NEW r \in Requests,
               \/ \E j \in Jtis : RefreshBegin(r, j) \/ RefreshStage(r, j)
               \/ RefreshRefused(r) \/ RefreshLock(r)
               \/ RefreshWrongToken(r) \/ CountRead(r) \/ CountWrite(r)
        PROVE  Know'
    BY <1>4, RefreshKnows, CountKnows
  <1>5. ASSUME NEW r \in Requests,
               \/ \E j \in Jtis : LoginLock(r, j)
               \/ RefreshRotate(r) \/ Compensate(r) \/ Invalidate(r)
        PROVE  Know'
    BY <1>5, LoginLockKnows, RotateKnows, CompensateKnows, InvalidateKnows
  <1>6. ASSUME NEW r \in Requests,
               \/ LoginCommit(r) \/ RefreshCommit(r)
               \/ InvalidateCommit(r) \/ LogoutCommit(r) \/ RevokeOthersCommit(r)
        PROVE  Know'
    BY <1>6, LoginCommitKnows, RefreshCommitKnows, CommitsKnow
  <1>7. ASSUME NEW r \in Requests,
               (\E S \in SUBSET Rows : RevokeOthersRead(r, S)) \/ Fail(r)
        PROVE  Know'
    BY <1>7, OtherKnows
  <1> QED BY <1>1, <1>2, <1>3, <1>4, <1>5, <1>6, <1>7 DEF Next

\* What the requests and Redis know of the tokens, in every state: the invariant behind
\* the next theorem.
THEOREM TokensAreKept == Spec => []Know
  <1>1. Inv /\ Know /\ [Next]_vars => Know'
    BY StepKnow
  <1> QED BY <1>1, InitKnow, InvHolds, PTL DEF Spec

\* The token of a live session that no request works on has its key and is not
\* blacklisted, unless a request that had touched the row's keys has failed
\* (_compensate_session_to_old, revoke_session).
THEOREM LiveSessionsAreUsable == Spec => []LiveIsUsable
  <1>1. Know => LiveIsUsable
    BY DEF Know, Usable, LiveIsUsable, Touched, TouchedBy, Good
  <1> QED BY <1>1, TokensAreKept, PTL
=============================================================================
