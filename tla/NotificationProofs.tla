------------------------- MODULE NotificationProofs -------------------------
(***************************************************************************)
(* Proofs about the two ends of the notification pipeline, for every value *)
(* of their constants.                                                     *)
(*                                                                         *)
(* Delivery: a message repeated has a reason, a delivery shown as sent was *)
(* accepted, the attempts are bounded, the sweep holds its lock.  The      *)
(* argument is about one delivery at a time (Good): as long as nobody has  *)
(* it accepted and it still looks open, every acceptance so far has its    *)
(* reason; whoever sends it began then, or began on a stale copy and left  *)
(* a reason of its own.                                                    *)
(*                                                                         *)
(* Outbox (second part, with tables and workers of its own): a row's       *)
(* notifications are persisted at most once, and the outbox implements     *)
(* FanoutOnce.  PersistedAtMostOnce is not inductive.  What keeps a second *)
(* worker out is, for a user, that a worker past the look-up owns the      *)
(* cooldown key of its row (WritersOwnTheKey): another can take the key    *)
(* only when it is gone, and by then the look-up sees the first one's      *)
(* commit.  For a contact it is the lease alone (LeasedAlone).             *)
(***************************************************************************)
EXTENDS Delivery, Outbox, TLAPS

\* The worker holds the lock of its delivery's row.
Holds(w) == work[w].at \in {"sending", "accepted", "refused", "rejected"}

\* What is true of one delivery and of the workers on it.
Good(d) ==
    /\ row[d].status \in Open => row[d].attempts < MaxRetries + excuse[d]
    /\ \A w \in Workers : work[w].of = d /\ work[w].at # "idle" =>
         work[w].copy.status \in Open /\ work[w].copy.attempts < MaxRetries + excuse[d]
    /\ \A v, w \in Workers : work[v].of = d /\ work[w].of = d /\ Holds(v) /\ Holds(w) => v = w
    /\ accepted[d] <= 1 + excuse[d]
    /\ \/ \E w \in Workers : work[w].of = d /\ work[w].at = "accepted"
       \/ row[d].status \in Open => accepted[d] <= excuse[d]
    /\ \A w \in Workers : work[w].of = d /\ work[w].at \in {"sending", "refused", "rejected"} =>
         accepted[d] <= excuse[d]
    /\ \A w \in Workers : work[w].of = d /\ work[w].at = "accepted" => accepted[d] > 0
    /\ row[d].status \in {"sent", "delivered"} => accepted[d] > 0

Inv == TypeOK /\ HolderKeepsLock /\ \A d \in Deliveries : Good(d)

-----------------------------------------------------------------------------
(* Frames *)

\* A step on one delivery leaves the others as good as they were.
LEMMA OthersStayGood ==
    ASSUME \A e \in Deliveries : Good(e), NEW w \in Workers, NEW d \in Deliveries,
           work'[w].of = d, work[w].of = d \/ work[w].at = "idle",
           \A v \in Workers \ {w} : work'[v] = work[v],
           \A e \in Deliveries \ {d} :
               row'[e] = row[e] /\ accepted'[e] = accepted[e] /\ excuse'[e] = excuse[e]
    PROVE  \A e \in Deliveries \ {d} : Good(e)'
  <1> SUFFICES ASSUME NEW e \in Deliveries \ {d} PROVE Good(e)'
    OBVIOUS
  <1>1. \A v \in Workers : work'[v].of = e => v # w /\ work'[v] = work[v]
    OBVIOUS
  <1>2. \A v \in Workers : work[v].of = e /\ work[v].at # "idle" => v # w /\ work'[v] = work[v]
    OBVIOUS
  <1> QED BY <1>1, <1>2 DEF Good, Holds

\* A step of no worker: only the delivery it writes has to be looked at.
LEMMA WithoutWorkers ==
    ASSUME \A e \in Deliveries : Good(e), NEW d \in Deliveries,
           UNCHANGED <<work, accepted>>, TypeOK, TypeOK',
           row'[d].attempts < MaxRetries + excuse'[d] \/ row'[d].status \notin Open,
           excuse'[d] >= excuse[d],
           \/ row'[d].status \in Open => row[d].status \in Open
           \/ excuse'[d] > excuse[d],
           row'[d].status \in {"sent", "delivered"} => row[d].status \in {"sent", "delivered"}
    PROVE  Good(d)'
  <1>1. Good(d) /\ accepted[d] \in Nat /\ excuse[d] \in Nat /\ excuse'[d] \in Nat
        /\ \A w \in Workers : work[w].copy.attempts \in Nat
    BY DEF TypeOK, Work, Row
  <1>2. accepted'[d] = accepted[d] /\ work' = work
    OBVIOUS
  <1>3. \A w \in Workers : work[w].of = d /\ work[w].at # "idle" =>
          work[w].copy.status \in Open /\ work[w].copy.attempts < MaxRetries + excuse'[d]
    BY <1>1, DeliveryConstants DEF Good
  <1>4. \A w \in Workers : work[w].of = d /\ work[w].at \in {"sending", "refused", "rejected"} =>
          accepted[d] <= excuse'[d]
    BY <1>1 DEF Good
  <1>5. accepted[d] <= 1 + excuse'[d]
    BY <1>1 DEF Good
  <1>6. \/ \E w \in Workers : work[w].of = d /\ work[w].at = "accepted"
        \/ row'[d].status \in Open => accepted[d] <= excuse'[d]
    BY <1>1 DEF Good
  <1>7. row'[d].status \in {"sent", "delivered"} => accepted[d] > 0
    BY <1>1 DEF Good
  <1> QED BY <1>1, <1>2, <1>3, <1>4, <1>5, <1>6, <1>7 DEF Good, Holds

-----------------------------------------------------------------------------
(* The sweep's lock *)

\* Taking, losing and giving back the key keep it with the holder that is not late.
LEMMA LockSteps ==
    ASSUME TypeOK, HolderKeepsLock, NEW s \in Sweepers,
           Lock!Acquire(s) \/ Lock!Release(s) \/ Lock!Die(s) \/ Lock!Expire
    PROVE  Lock!LockTypeOK' /\ HolderKeepsLock'
  <1>1. /\ owner \in Sweepers \cup {Nobody} /\ client \in [Sweepers -> {"out", "in", "late"}]
        /\ \A c \in Sweepers : client[c] = "in" => owner = c
        /\ Nobody \notin Sweepers
    BY DeliveryConstants DEF TypeOK, Lock!LockTypeOK, HolderKeepsLock, Lock!HolderKeepsKey
  <1>2. CASE Lock!Acquire(s)
    BY <1>1, <1>2 DEF Lock!Acquire, Lock!LockTypeOK, HolderKeepsLock, Lock!HolderKeepsKey
  <1>3. CASE Lock!Release(s)
    BY <1>1, <1>3 DEF Lock!Release, Lock!LockTypeOK, HolderKeepsLock, Lock!HolderKeepsKey
  <1>4. CASE Lock!Die(s)
    BY <1>1, <1>4 DEF Lock!Die, Lock!LockTypeOK, HolderKeepsLock, Lock!HolderKeepsKey
  <1>5. CASE Lock!Expire
    <2>1. owner' = Nobody /\ client' = [client EXCEPT ![owner] = IF @ = "in" THEN "late" ELSE @]
      BY <1>5 DEF Lock!Expire
    <2>2. client' \in [Sweepers -> {"out", "in", "late"}]
      BY <1>1, <2>1
    <2>3. \A c \in Sweepers : client'[c] # "in"
      BY <1>1, <2>1
    <2> QED BY <2>1, <2>2, <2>3 DEF Lock!LockTypeOK, HolderKeepsLock, Lock!HolderKeepsKey
  <1> QED BY <1>2, <1>3, <1>4, <1>5

\* Steps of others leave the key alone.
LEMMA LockUntouched ==
    ASSUME TypeOK, HolderKeepsLock, UNCHANGED lock
    PROVE  Lock!LockTypeOK' /\ HolderKeepsLock'
  BY DEF TypeOK, lock, Lock!LockTypeOK, HolderKeepsLock, Lock!HolderKeepsKey

-----------------------------------------------------------------------------
(* Steps of sweeps, of the reconciliation and of replays *)

\* Where only the date of rows changes, deliveries stay good.
LEMMA OnlyDates ==
    ASSUME Inv, TypeOK', UNCHANGED <<work, accepted, excuse>>,
           \A d \in Deliveries : row'[d].status = row[d].status /\ row'[d].attempts = row[d].attempts
    PROVE  \A d \in Deliveries : Good(d)'
  <1> SUFFICES ASSUME NEW d \in Deliveries PROVE Good(d)'
    OBVIOUS
  <1>1. Good(d) /\ excuse[d] \in Nat /\ excuse'[d] = excuse[d]
    BY DEF Inv, TypeOK
  <1>2. row'[d].attempts < MaxRetries + excuse'[d] \/ row'[d].status \notin Open
    BY <1>1 DEF Good
  <1> QED BY <1>1, <1>2, WithoutWorkers DEF Inv

\* A sweep finds, enqueues, clears or dies; a lock expires; a backoff ends.
LEMMA SweepSteps ==
    ASSUME Inv,
           \/ \E s \in Sweepers :
               \/ SweepRead(s) \/ SweepClear(s) \/ SweepDies(s)
               \/ \E d \in Deliveries : SweepEnqueue(s, d)
           \/ LockExpires
           \/ \E d \in Deliveries : Due(d) \/ ReplayRead(d)
    PROVE  Inv'
  <1> USE DEF lock
  <1>t. TypeOK /\ HolderKeepsLock
    BY DEF Inv
  <1>1. ASSUME NEW s \in Sweepers, SweepRead(s) PROVE Inv'
    <2>1. Lock!LockTypeOK' /\ HolderKeepsLock'
      BY <1>1, <1>t, LockSteps DEF SweepRead
    <2>2. TypeOK'
      BY <1>1, <1>t, <2>1 DEF SweepRead, TypeOK
    <2>3. \A d \in Deliveries : Good(d)'
      BY <1>1, <2>2, OnlyDates DEF SweepRead
    <2> QED BY <2>1, <2>2, <2>3 DEF Inv
  <1>2. ASSUME NEW s \in Sweepers, NEW e \in Deliveries, SweepEnqueue(s, e) PROVE Inv'
    <2>1. Lock!LockTypeOK' /\ HolderKeepsLock'
      BY <1>2, <1>t, LockUntouched DEF SweepEnqueue
    <2>2. queue' \in [Deliveries -> Nat]
      BY <1>2, <1>t DEF SweepEnqueue, Enqueue, TypeOK
    <2>3. sweep' \in [Sweepers -> [found : SUBSET Deliveries, enqueued : SUBSET Deliveries]]
      BY <1>2, <1>t DEF SweepEnqueue, TypeOK
    <2>4. TypeOK'
      BY <1>2, <1>t, <2>1, <2>2, <2>3 DEF SweepEnqueue, TypeOK
    <2>5. \A d \in Deliveries : Good(d)'
      BY <1>2, <2>4, OnlyDates DEF SweepEnqueue
    <2> QED BY <2>1, <2>4, <2>5 DEF Inv
  <1>3. ASSUME NEW s \in Sweepers, SweepClear(s) PROVE Inv'
    <2>1. Lock!LockTypeOK' /\ HolderKeepsLock'
      BY <1>3, <1>t, LockSteps DEF SweepClear
    <2>2. /\ row' \in [Deliveries -> Row]
          /\ \A d \in Deliveries : row'[d].status = row[d].status /\ row'[d].attempts = row[d].attempts
      BY <1>3, <1>t DEF SweepClear, TypeOK, Row
    <2>3. sweep' \in [Sweepers -> [found : SUBSET Deliveries, enqueued : SUBSET Deliveries]]
      BY <1>3, <1>t DEF SweepClear, TypeOK
    <2>4. TypeOK'
      BY <1>3, <1>t, <2>1, <2>2, <2>3 DEF SweepClear, TypeOK
    <2>5. \A d \in Deliveries : Good(d)'
      BY <1>3, <2>2, <2>4, OnlyDates DEF SweepClear
    <2> QED BY <2>1, <2>4, <2>5 DEF Inv
  <1>4. ASSUME NEW s \in Sweepers, SweepDies(s) PROVE Inv'
    <2>1. Lock!LockTypeOK' /\ HolderKeepsLock'
      BY <1>4, <1>t, LockSteps DEF SweepDies
    <2>2. TypeOK'
      BY <1>4, <1>t, <2>1 DEF SweepDies, TypeOK
    <2>3. \A d \in Deliveries : Good(d)'
      BY <1>4, <2>2, OnlyDates DEF SweepDies
    <2> QED BY <2>1, <2>2, <2>3 DEF Inv
  <1>5. CASE LockExpires
    <2>1. owner \in Sweepers
      BY <1>5, <1>t DEF LockExpires, Lock!Expire, TypeOK, Lock!LockTypeOK
    <2>2. Lock!LockTypeOK' /\ HolderKeepsLock'
      BY <1>5, <1>t, <2>1, LockSteps DEF LockExpires
    <2>3. TypeOK'
      BY <1>5, <1>t, <2>2 DEF LockExpires, TypeOK
    <2>4. \A d \in Deliveries : Good(d)'
      BY <1>5, <2>3, OnlyDates DEF LockExpires
    <2> QED BY <2>2, <2>3, <2>4 DEF Inv
  <1>6. ASSUME NEW e \in Deliveries, Due(e) PROVE Inv'
    <2>1. Lock!LockTypeOK' /\ HolderKeepsLock'
      BY <1>6, <1>t, LockUntouched DEF Due
    <2>2. /\ row' \in [Deliveries -> Row]
          /\ \A d \in Deliveries : row'[d].status = row[d].status /\ row'[d].attempts = row[d].attempts
      BY <1>6, <1>t DEF Due, TypeOK, Row
    <2>3. TypeOK'
      BY <1>6, <1>t, <2>1, <2>2 DEF Due, TypeOK
    <2>4. \A d \in Deliveries : Good(d)'
      BY <1>6, <2>2, <2>3, OnlyDates DEF Due
    <2> QED BY <2>1, <2>3, <2>4 DEF Inv
  <1>7. ASSUME NEW e \in Deliveries, ReplayRead(e) PROVE Inv'
    <2>1. Lock!LockTypeOK' /\ HolderKeepsLock'
      BY <1>7, <1>t, LockUntouched DEF ReplayRead
    <2>2. TypeOK'
      BY <1>7, <1>t, <2>1 DEF ReplayRead, TypeOK
    <2>3. \A d \in Deliveries : Good(d)'
      BY <1>7, <2>2, OnlyDates DEF ReplayRead
    <2> QED BY <2>1, <2>2, <2>3 DEF Inv
  <1> QED BY <1>1, <1>2, <1>3, <1>4, <1>5, <1>6, <1>7

\* A reconciliation settles or enqueues again; a replay opens a row and is a reason.
LEMMA RowSteps ==
    ASSUME Inv, NEW d \in Deliveries,
           ReconcileQueued(d) \/ ReconcileSent(d) \/ ReplayCommit(d)
    PROVE  Inv'
  <1>t. /\ TypeOK /\ HolderKeepsLock /\ row[d] \in Row /\ excuse[d] \in Nat /\ queue[d] \in Nat
        /\ MaxRetries \in Nat \ {0}
    BY DeliveryConstants DEF Inv, TypeOK
  <1>a. UNCHANGED <<work, sweep, lock, accepted, crashes>>
    BY DEF ReconcileQueued, ReconcileSent, ReplayCommit
  <1>1. Lock!LockTypeOK' /\ HolderKeepsLock'
    BY <1>t, <1>a, LockUntouched
  <1>2. queue' \in [Deliveries -> Nat]
    BY <1>t DEF ReconcileQueued, ReconcileSent, ReplayCommit, Enqueue, TypeOK
  <1>3. /\ row' \in [Deliveries -> Row] /\ excuse' \in [Deliveries -> Nat]
        /\ replay' \in [Deliveries -> Row \cup {Nobody}]
        /\ \A e \in Deliveries \ {d} : row'[e] = row[e] /\ excuse'[e] = excuse[e]
        /\ row'[d].attempts <= MaxRetries + excuse'[d]
        /\ row'[d].attempts < MaxRetries + excuse'[d] \/ row'[d].status \notin Open
        /\ excuse'[d] >= excuse[d]
        /\ (row'[d].status \in Open => row[d].status \in Open) \/ excuse'[d] > excuse[d]
        /\ row'[d].status \in {"sent", "delivered"} => row[d].status \in {"sent", "delivered"}
    <2>1. CASE ReconcileQueued(d)
      <3>1. UNCHANGED <<excuse, replay>>
        BY <2>1 DEF ReconcileQueued
      <3>2. CASE UNCHANGED row
        BY <1>t, <3>1, <3>2 DEF Inv, Good, TypeOK
      <3>3. CASE row' = [row EXCEPT ![d] = DeadLetter(@)]
        <4>1. DeadLetter(row[d]) \in Row /\ DeadLetter(row[d]).status = "dead_lettered"
              /\ DeadLetter(row[d]).attempts = row[d].attempts
          BY <1>t DEF DeadLetter, Row, Statuses
        <4> QED BY <1>t, <3>1, <3>3, <4>1 DEF TypeOK, Open
      <3> QED BY <2>1, <3>2, <3>3 DEF ReconcileQueued
    <2>2. CASE ReconcileSent(d)
      BY <2>2, <1>t DEF ReconcileSent, TypeOK, Row, Statuses, Open
    <2>3. CASE ReplayCommit(d)
      <3>1. PICK t \in Row :
              /\ t.status = "queued" /\ t.attempts \in {0, row[d].attempts}
              /\ row' = [row EXCEPT ![d] = t]
        <4>1. replay[d] \in Row
          BY <2>3, <1>t DEF ReplayCommit, TypeOK
        <4> DEFINE t == [status |-> "queued",
                         attempts |-> IF replay[d].attempts # 0 THEN 0 ELSE row[d].attempts,
                         due |-> IF replay[d].due # "none" THEN "none" ELSE row[d].due]
        <4>2. row' = [row EXCEPT ![d] = t]
          BY <2>3, <1>t DEF ReplayCommit, TypeOK
        <4>3. t \in Row /\ t.status = "queued" /\ t.attempts \in {0, row[d].attempts}
          BY <1>t DEF Row, Statuses
        <4> QED BY <4>2, <4>3
      <3>2. excuse' = [excuse EXCEPT ![d] = @ + 1] /\ replay' = [replay EXCEPT ![d] = Nobody]
        BY <2>3 DEF ReplayCommit
      <3>3. row[d].attempts <= MaxRetries + excuse[d] /\ row[d].attempts \in Nat
        BY <1>t DEF TypeOK, Row
      <3> QED BY <1>t, <3>1, <3>2, <3>3 DEF TypeOK, Open
    <2> QED BY <2>1, <2>2, <2>3
  <1>4. TypeOK'
    BY <1>t, <1>a, <1>1, <1>2, <1>3 DEF TypeOK
  <1>5. Good(d)'
    BY <1>t, <1>a, <1>3, <1>4, WithoutWorkers DEF Inv
  <1>6. ASSUME NEW e \in Deliveries \ {d} PROVE Good(e)'
    <2>1. Good(e) /\ row'[e] = row[e] /\ excuse'[e] = excuse[e]
      BY <1>3 DEF Inv
    <2> QED BY <1>a, <2>1 DEF Good, Holds
  <1> QED BY <1>1, <1>4, <1>5, <1>6 DEF Inv

-----------------------------------------------------------------------------
(* Steps of workers *)

\* What AfterFailure makes of a row: it opens only a row whose copy was queued.
LEMMA AfterFailureCounts ==
    ASSUME NEW r \in Row, NEW copy \in Row, copy.status \in Open
    PROVE  LET t == AfterFailure(r, copy)
           IN  /\ t \in Row
               /\ \/ t.status = "dead_lettered" /\ t.attempts = r.attempts
                  \/ /\ t.status \in {"failed", r.status} /\ t.attempts = copy.attempts + 1
                     /\ t.attempts < MaxRetries
  <1>1. copy.attempts \in Nat /\ MaxRetries \in Nat
    BY DeliveryConstants DEF Row
  <1>2. CASE copy.attempts + 1 >= MaxRetries
    BY <1>1, <1>2 DEF AfterFailure, DeadLetter, Row, Statuses
  <1>3. CASE ~(copy.attempts + 1 >= MaxRetries)
    BY <1>1, <1>3 DEF AfterFailure, Retry, Row, Statuses
  <1> QED BY <1>2, <1>3

\* A worker that ends or moves on: what has to be looked at is its own delivery, and that
\* nobody else held the row if it says that the provider took a message.
LEMMA WorkerStep ==
    ASSUME Inv, NEW w \in Workers, NEW d \in Deliveries,
           UNCHANGED <<sweep, lock, replay>>, crashes' \in Nat,
           queue' \in [Deliveries -> Nat],
           NEW t \in Work, work' = [work EXCEPT ![w] = t], t.of = d,
           work[w].of = d \/ work[w].at = "idle",
           NEW r \in Row, row' = [row EXCEPT ![d] = r],
           NEW a \in Nat, accepted' = [accepted EXCEPT ![d] = a],
           NEW x \in Nat, excuse' = [excuse EXCEPT ![d] = x],
           x >= excuse[d],
           r.attempts <= MaxRetries + x,
           r.status \in Open => r.attempts < MaxRetries + x,
           t.at # "idle" => t.copy.status \in Open /\ t.copy.attempts < MaxRetries + x,
           \/ t.at \in {"idle", "loaded"} /\ a = accepted[d]
           \/ \A v \in Workers \ {w} : work[v].of = d => ~Holds(v),
           a <= 1 + x,
           \/ \E v \in Workers \ {w} : work[v].of = d /\ work[v].at = "accepted"
           \/ t.at = "accepted"
           \/ r.status \in Open => a <= x,
           t.at \in {"sending", "refused", "rejected"} => a <= x,
           t.at = "accepted" => a > 0,
           r.status \in {"sent", "delivered"} => a > 0
    PROVE  Inv'
  <1>t. /\ TypeOK /\ HolderKeepsLock /\ Good(d) /\ \A e \in Deliveries : Good(e)
        /\ excuse[d] \in Nat /\ accepted[d] \in Nat /\ MaxRetries \in Nat
        /\ \A v \in Workers : work[v] \in Work /\ work[v].copy.attempts \in Nat
    BY DeliveryConstants DEF Inv, TypeOK, Work, Row
  <1>1. Lock!LockTypeOK' /\ HolderKeepsLock'
    BY <1>t, LockUntouched
  <1>2. /\ work' \in [Workers -> Work] /\ work'[w] = t /\ \A v \in Workers \ {w} : work'[v] = work[v]
        /\ row' \in [Deliveries -> Row] /\ row'[d] = r
        /\ accepted' \in [Deliveries -> Nat] /\ accepted'[d] = a
        /\ excuse' \in [Deliveries -> Nat] /\ excuse'[d] = x
        /\ \A e \in Deliveries \ {d} :
             row'[e] = row[e] /\ accepted'[e] = accepted[e] /\ excuse'[e] = excuse[e]
    BY <1>t DEF TypeOK
  <1>3. TypeOK'
    <2>1. \A e \in Deliveries : row'[e].attempts <= MaxRetries + excuse'[e]
      BY <1>2, <1>t DEF TypeOK
    <2> QED BY <1>1, <1>2, <1>t, <2>1 DEF TypeOK
  <1>4. \A e \in Deliveries \ {d} : Good(e)'
    BY <1>t, <1>2, OthersStayGood
  <1>5. \A v \in Workers \ {w} : work[v].of = d /\ work[v].at # "idle" =>
          work[v].copy.status \in Open /\ work[v].copy.attempts < MaxRetries + x
    BY <1>t DEF Good
  <1>6. \A v \in Workers \ {w} : work[v].of = d /\ work[v].at \in {"sending", "refused", "rejected"} =>
          a <= x
    BY <1>t DEF Good, Holds
  <1>7. \A v \in Workers \ {w} : work[v].of = d /\ work[v].at = "accepted" => a > 0
    BY <1>t DEF Good, Holds
  <1>8. \A u, v \in Workers : work'[u].of = d /\ work'[v].of = d /\ Holds(u)' /\ Holds(v)' => u = v
    BY <1>t, <1>2 DEF Good, Holds
  <1>9. \/ \E v \in Workers : work'[v].of = d /\ work'[v].at = "accepted"
        \/ row'[d].status \in Open => a <= x
    BY <1>2
  <1>10. Good(d)'
    BY <1>2, <1>5, <1>6, <1>7, <1>8, <1>9 DEF Good
  <1> QED BY <1>1, <1>3, <1>4, <1>10 DEF Inv

\* The end of a task.
LEMMA DoneIs ==
    ASSUME TypeOK, NEW w \in Workers, Done(w)
    PROVE  \E t \in Work : work' = [work EXCEPT ![w] = t] /\ t.at = "idle" /\ t.of = work[w].of
  <1> DEFINE t == [[work[w] EXCEPT !.at = "idle"] EXCEPT !.copy = New]
  <1>1. work[w] \in Work /\ work' = [work EXCEPT ![w] = t]
    BY DEF TypeOK, Done, Work
  <1>2. New \in Row
    BY DEF New, Row, Statuses
  <1>3. t \in Work /\ t.at = "idle" /\ t.of = work[w].of
    BY <1>1, <1>2 DEF Work
  <1> QED BY <1>1, <1>3

\* What a worker knows of its delivery when it is not idle.
LEMMA AtWork ==
    ASSUME Inv, NEW w \in Workers, work[w].at # "idle"
    PROVE  LET d == work[w].of
               copy == work[w].copy
           IN  /\ d \in Deliveries /\ row[d] \in Row /\ copy \in Row /\ work[w] \in Work
               /\ accepted[d] \in Nat /\ excuse[d] \in Nat
               /\ copy.status \in Open /\ copy.attempts < MaxRetries + excuse[d]
               /\ Holds(w) => \A v \in Workers \ {w} : work[v].of = d => ~Holds(v)
               /\ ~Locked(d) => \A v \in Workers : work[v].of = d => ~Holds(v)
  BY DEF Inv, TypeOK, Work, Good, Locked, Holds

\* A message is taken: the copy of an open row leaves attempts to make.
LEMMA LoadStep ==
    ASSUME Inv, NEW w \in Workers, NEW d \in Deliveries, Load(w, d)
    PROVE  Inv'
  <1>t. /\ TypeOK /\ Good(d) /\ row[d] \in Row /\ accepted[d] \in Nat /\ excuse[d] \in Nat
        /\ work[w].at = "idle"
        /\ UNCHANGED <<row, sweep, lock, replay, accepted, excuse, crashes>>
    BY DEF Inv, TypeOK, Load
  <1>1. queue' \in [Deliveries -> Nat]
    BY <1>t DEF Load, TypeOK
  <1>2. row[d].attempts <= MaxRetries + excuse[d]
    BY <1>t DEF TypeOK
  <1>3. CASE row[d].status \in Open
    <2>1. PICK t \in Work :
            /\ work' = [work EXCEPT ![w] = t]
            /\ t.at = "loaded" /\ t.of = d /\ t.copy = row[d]
      <3>1. [at |-> "loaded", of |-> d, copy |-> row[d]] \in Work
        BY <1>t DEF Work
      <3> QED BY <3>1, <1>3 DEF Load
    <2>2. PICK r \in Row, a \in Nat, x \in Nat : r = row[d] /\ a = accepted[d] /\ x = excuse[d]
      BY <1>t
    <2>3. /\ row' = [row EXCEPT ![d] = r] /\ accepted' = [accepted EXCEPT ![d] = a]
          /\ excuse' = [excuse EXCEPT ![d] = x] /\ crashes' \in Nat
          /\ UNCHANGED <<sweep, lock, replay>>
      BY <1>t, <2>2 DEF TypeOK
    <2>4. /\ x >= excuse[d] /\ r.attempts <= MaxRetries + x /\ a <= 1 + x
          /\ r.status \in Open => r.attempts < MaxRetries + x
          /\ r.status \in {"sent", "delivered"} => a > 0
      BY <1>2, <1>t, <2>2 DEF Good
    <2>5. /\ t.at # "idle" => t.copy.status \in Open /\ t.copy.attempts < MaxRetries + x
          /\ \/ t.at \in {"idle", "loaded"} /\ a = accepted[d]
             \/ \A v \in Workers \ {w} : work[v].of = d => ~Holds(v)
          /\ t.at \in {"sending", "refused", "rejected"} => a <= x
          /\ t.at = "accepted" => a > 0
      BY <1>3, <2>1, <2>2, <2>4
    <2>6. \/ \E v \in Workers \ {w} : work[v].of = d /\ work[v].at = "accepted"
          \/ t.at = "accepted"
          \/ r.status \in Open => a <= x
      BY <1>t, <2>2 DEF Good
    <2>7. work[w].of = d \/ work[w].at = "idle"
      BY <1>t
    <2> QED BY <1>1, <2>1, <2>3, <2>4, <2>5, <2>6, <2>7, WorkerStep
  <1>4. CASE row[d].status \notin Open
    <2>1. UNCHANGED work
      BY <1>4 DEF Load
    <2>2. TypeOK'
      BY <1>t, <1>1, <2>1, LockUntouched DEF TypeOK, Inv
    <2>3. \A e \in Deliveries : Good(e)'
      BY <1>t, <2>1, <2>2, OnlyDates
    <2> QED BY <1>t, <2>2, <2>3, LockUntouched DEF Inv
  <1> QED BY <1>3, <1>4

\* A refusal or a deferral: it opens a settled row only with a reason.
LEMMA RefusalSteps ==
    ASSUME Inv, NEW w \in Workers, Refuse(w) \/ Defer(w)
    PROVE  Inv'
  <1>t. TypeOK /\ work[w].at = "loaded"
    BY DEF Inv, Refuse, Defer
  <1>0. PICK d \in Deliveries : d = work[w].of
    BY <1>t, AtWork
  <1>1. PICK copy \in Row : copy = work[w].copy
    BY <1>t, AtWork
  <1>2. /\ row[d] \in Row /\ accepted[d] \in Nat /\ excuse[d] \in Nat
        /\ copy.status \in Open /\ copy.attempts < MaxRetries + excuse[d]
        /\ ~Locked(d) => \A v \in Workers : work[v].of = d => ~Holds(v)
    BY <1>t, <1>0, <1>1, AtWork
  <1>3. ~Locked(d) /\ Excused(w) /\ Done(w) /\ UNCHANGED <<queue, sweep, lock, replay, accepted, crashes>>
    BY <1>0 DEF Refuse, Defer
  <1>4. PICK t \in Work : work' = [work EXCEPT ![w] = t] /\ t.at = "idle" /\ t.of = d
    BY <1>0, <1>t, <1>3, DoneIs
  <1>5. PICK x \in Nat :
          /\ excuse' = [excuse EXCEPT ![d] = x]
          /\ x = excuse[d] \/ x = excuse[d] + 1
          /\ row[d].status \notin Open => x = excuse[d] + 1
    <2> DEFINE n == IF Stale(w) THEN excuse[d] + 1 ELSE excuse[d]
    <2>1. excuse' = [excuse EXCEPT ![d] = n]
      BY <1>0, <1>3 DEF Excused
    <2>2. row[d].status \notin Open => Stale(w)
      BY <1>0, <1>1, <1>2 DEF Stale
    <2>3. n \in Nat /\ (n = excuse[d] \/ n = excuse[d] + 1) /\ (Stale(w) => n = excuse[d] + 1)
      BY <1>2
    <2> HIDE DEF n
    <2> QED BY <2>1, <2>2, <2>3
  <1>6. PICK r \in Row :
          /\ row' = [row EXCEPT ![d] = r]
          /\ r.attempts = row[d].attempts \/ (r.attempts = copy.attempts + 1 /\ r.attempts < MaxRetries)
          /\ \/ r.status \notin Open
             \/ r.attempts < MaxRetries
          /\ r.status \in {"sent", "delivered"} => row[d].status = r.status
    <2>1. CASE Refuse(w)
      <3>1. CASE row' = [row EXCEPT ![d] = DeadLetter(@)]
        <4>1. DeadLetter(row[d]) \in Row /\ DeadLetter(row[d]).status = "dead_lettered"
              /\ DeadLetter(row[d]).attempts = row[d].attempts
          BY <1>2 DEF DeadLetter, Row, Statuses
        <4> QED BY <3>1, <4>1, <1>t DEF Open, TypeOK
      <3>2. CASE row' = [row EXCEPT ![d].status = "skipped"]
        <4> DEFINE r == [row[d] EXCEPT !.status = "skipped"]
        <4>1. r \in Row /\ r.status = "skipped" /\ r.attempts = row[d].attempts
          BY <1>2 DEF Row, Statuses
        <4>2. row' = [row EXCEPT ![d] = r]
          BY <3>2, <1>t DEF TypeOK
        <4> HIDE DEF r
        <4> QED BY <4>1, <4>2 DEF Open
      <3> QED BY <1>0, <2>1, <3>1, <3>2 DEF Refuse
    <2>2. CASE Defer(w)
      <3>1. row' = [row EXCEPT ![d] = AfterFailure(row[d], copy)]
        BY <1>0, <1>1, <1>t, <2>2 DEF Defer, TypeOK
      <3>2. PICK r \in Row :
              /\ r = AfterFailure(row[d], copy)
              /\ \/ r.status = "dead_lettered" /\ r.attempts = row[d].attempts
                 \/ /\ r.status \in {"failed", row[d].status} /\ r.attempts = copy.attempts + 1
                    /\ r.attempts < MaxRetries
        BY <1>2, AfterFailureCounts
      <3> QED BY <3>1, <3>2 DEF Open
    <2> QED BY <2>1, <2>2
  <1>7. /\ row[d].attempts <= MaxRetries + excuse[d] /\ accepted[d] <= 1 + excuse[d]
        /\ row[d].status \in Open => accepted[d] <= excuse[d]
        /\ row[d].status \in {"sent", "delivered"} => accepted[d] > 0
        /\ MaxRetries \in Nat
    BY <1>2, <1>3, DeliveryConstants DEF Inv, TypeOK, Good, Holds
  <1>8. r.attempts <= MaxRetries + x /\ (r.status \in Open => r.attempts < MaxRetries + x)
    BY <1>2, <1>5, <1>6, <1>7 DEF Row
  <1>9. accepted[d] <= 1 + x /\ (r.status \in Open => accepted[d] <= x) /\ x >= excuse[d]
    BY <1>2, <1>5, <1>7
  <1>10. /\ accepted' = [accepted EXCEPT ![d] = accepted[d]] /\ crashes' \in Nat
         /\ queue' \in [Deliveries -> Nat]
    BY <1>t, <1>3 DEF TypeOK
  <1> QED BY <1>0, <1>2, <1>3, <1>4, <1>5, <1>6, <1>7, <1>8, <1>9, <1>10, WorkerStep

\* A start on a copy of a settled row leaves its reason; any other start finds every
\* acceptance accounted for.
LEMMA StartStep ==
    ASSUME Inv, NEW w \in Workers, Start(w)
    PROVE  Inv'
  <1>t. TypeOK /\ work[w].at = "loaded"
    BY DEF Inv, Start
  <1>0. PICK d \in Deliveries : d = work[w].of
    BY <1>t, AtWork
  <1>2. /\ row[d] \in Row /\ accepted[d] \in Nat /\ excuse[d] \in Nat /\ work[w] \in Work
        /\ work[w].copy.status \in Open /\ work[w].copy.attempts < MaxRetries + excuse[d]
        /\ work[w].copy.attempts \in Nat
        /\ ~Locked(d) => \A v \in Workers : work[v].of = d => ~Holds(v)
    BY <1>t, <1>0, AtWork DEF Row
  <1>3. ~Locked(d) /\ Excused(w) /\ UNCHANGED <<row, queue, sweep, lock, replay, accepted, crashes>>
    BY <1>0 DEF Start
  <1> DEFINE t == [work[w] EXCEPT !.at = "sending"]
  <1>4. work' = [work EXCEPT ![w] = t]
    BY <1>t DEF Start, TypeOK
  <1>5. t \in Work /\ t.at = "sending" /\ t.of = d /\ t.copy = work[w].copy
    BY <1>0, <1>2 DEF Work
  <1> HIDE DEF t
  <1>6. PICK x \in Nat :
          /\ excuse' = [excuse EXCEPT ![d] = x]
          /\ x = excuse[d] \/ x = excuse[d] + 1
          /\ row[d].status \notin Open => x = excuse[d] + 1
    <2> DEFINE n == IF Stale(w) THEN excuse[d] + 1 ELSE excuse[d]
    <2>1. excuse' = [excuse EXCEPT ![d] = n]
      BY <1>0, <1>3 DEF Excused
    <2>2. row[d].status \notin Open => Stale(w)
      BY <1>0, <1>2 DEF Stale
    <2>3. n \in Nat /\ (n = excuse[d] \/ n = excuse[d] + 1) /\ (Stale(w) => n = excuse[d] + 1)
      BY <1>2
    <2> HIDE DEF n
    <2> QED BY <2>1, <2>2, <2>3
  <1>7. /\ row[d].attempts <= MaxRetries + excuse[d] /\ accepted[d] <= 1 + excuse[d]
        /\ row[d].status \in Open => accepted[d] <= excuse[d] /\ row[d].attempts < MaxRetries + excuse[d]
        /\ row[d].status \in {"sent", "delivered"} => accepted[d] > 0
        /\ MaxRetries \in Nat
    BY <1>2, <1>3, DeliveryConstants DEF Inv, TypeOK, Good, Holds
  <1>8. /\ row[d].attempts <= MaxRetries + x /\ (row[d].status \in Open => row[d].attempts < MaxRetries + x)
        /\ t.copy.attempts < MaxRetries + x /\ x >= excuse[d]
        /\ accepted[d] <= x /\ accepted[d] <= 1 + x
    BY <1>2, <1>5, <1>6, <1>7 DEF Row
  <1>9. /\ row' = [row EXCEPT ![d] = row[d]] /\ accepted' = [accepted EXCEPT ![d] = accepted[d]]
        /\ crashes' \in Nat /\ queue' \in [Deliveries -> Nat]
    BY <1>t, <1>3 DEF TypeOK
  <1> QED BY <1>0, <1>2, <1>3, <1>4, <1>5, <1>6, <1>7, <1>8, <1>9, WorkerStep

\* The provider answers the one worker that holds the row.
LEMMA SendStep ==
    ASSUME Inv, NEW w \in Workers, Send(w)
    PROVE  Inv'
  <1>t. TypeOK /\ work[w].at = "sending" /\ Holds(w)
    BY DEF Inv, Send, Holds
  <1>0. PICK d \in Deliveries : d = work[w].of
    BY <1>t, AtWork
  <1>1. /\ row[d] \in Row /\ accepted[d] \in Nat /\ excuse[d] \in Nat /\ work[w] \in Work
        /\ work[w].copy.status \in Open /\ work[w].copy.attempts < MaxRetries + excuse[d]
        /\ \A v \in Workers \ {w} : work[v].of = d => ~Holds(v)
    BY <1>t, <1>0, AtWork
  <1>2. /\ row[d].attempts <= MaxRetries + excuse[d] /\ accepted[d] <= excuse[d]
        /\ row[d].status \in Open => row[d].attempts < MaxRetries + excuse[d]
        /\ row[d].status \in {"sent", "delivered"} => accepted[d] > 0
    BY <1>t, <1>0 DEF Inv, TypeOK, Good
  <1>3. PICK result \in {"accepted", "refused", "rejected"} :
          /\ work' = [work EXCEPT ![w].at = result]
          /\ accepted' = [accepted EXCEPT ![work[w].of] = IF result = "accepted" THEN @ + 1 ELSE @]
    BY DEF Send
  <1> DEFINE n == IF result = "accepted" THEN accepted[d] + 1 ELSE accepted[d]
             s == [work[w] EXCEPT !.at = result]
  <1>4. PICK t \in Work, a \in Nat :
          /\ work' = [work EXCEPT ![w] = t] /\ accepted' = [accepted EXCEPT ![d] = a]
          /\ t.at = result /\ t.of = d /\ t.copy = work[w].copy
          /\ a >= accepted[d] /\ a <= accepted[d] + 1
          /\ IF result = "accepted" THEN a = accepted[d] + 1 ELSE a = accepted[d]
    <2>1. work' = [work EXCEPT ![w] = s] /\ accepted' = [accepted EXCEPT ![d] = n]
      BY <1>0, <1>3, <1>t DEF TypeOK
    <2>2. s \in Work /\ s.at = result /\ s.of = d /\ s.copy = work[w].copy
      BY <1>0, <1>1 DEF Work
    <2>3. /\ n \in Nat /\ n >= accepted[d] /\ n <= accepted[d] + 1
          /\ IF result = "accepted" THEN n = accepted[d] + 1 ELSE n = accepted[d]
      BY <1>1
    <2> HIDE DEF n, s
    <2> QED BY <2>1, <2>2, <2>3
  <1>5. PICK r \in Row, x \in Nat : r = row[d] /\ x = excuse[d]
    BY <1>1
  <1>6. /\ row' = [row EXCEPT ![d] = r] /\ excuse' = [excuse EXCEPT ![d] = x]
        /\ UNCHANGED <<sweep, lock, replay>> /\ crashes' \in Nat /\ queue' \in [Deliveries -> Nat]
    BY <1>t, <1>5 DEF Send, TypeOK
  <1>7. /\ x >= excuse[d] /\ r.attempts <= MaxRetries + x /\ a <= 1 + x
        /\ r.status \in Open => r.attempts < MaxRetries + x
        /\ r.status \in {"sent", "delivered"} => a > 0
        /\ t.copy.status \in Open /\ t.copy.attempts < MaxRetries + x
    BY <1>1, <1>2, <1>4, <1>5
  <1>8. /\ t.at \in {"sending", "refused", "rejected"} => a <= x
        /\ t.at = "accepted" => a > 0
        /\ t.at = "accepted" \/ (r.status \in Open => a <= x)
    BY <1>1, <1>2, <1>4, <1>5
  <1> QED BY <1>0, <1>1, <1>4, <1>6, <1>7, <1>8, WorkerStep

\* The result is written to the row the worker holds.
LEMMA SettleStep ==
    ASSUME Inv, NEW w \in Workers, Settle(w)
    PROVE  Inv'
  <1>t. TypeOK /\ work[w].at \in {"accepted", "refused", "rejected"} /\ Holds(w)
    BY DEF Inv, Settle, Holds
  <1>0. PICK d \in Deliveries, copy \in Row : d = work[w].of /\ copy = work[w].copy
    BY <1>t, AtWork
  <1>1. /\ row[d] \in Row /\ accepted[d] \in Nat /\ excuse[d] \in Nat
        /\ copy.status \in Open /\ copy.attempts < MaxRetries + excuse[d]
        /\ \A v \in Workers \ {w} : work[v].of = d => ~Holds(v)
        /\ MaxRetries \in Nat /\ copy.attempts \in Nat
    BY <1>t, <1>0, AtWork, DeliveryConstants DEF Row
  <1>2. /\ accepted[d] <= 1 + excuse[d]
        /\ work[w].at = "accepted" => accepted[d] > 0
        /\ work[w].at # "accepted" => accepted[d] <= excuse[d]
        /\ row[d].status \in {"sent", "delivered"} => accepted[d] > 0
    BY <1>t, <1>0 DEF Inv, Good
  <1>3. PICK t \in Work : work' = [work EXCEPT ![w] = t] /\ t.at = "idle" /\ t.of = d
    BY <1>0, <1>t, DoneIs DEF Settle
  <1>4. PICK r \in Row :
          /\ row' = [row EXCEPT ![d] = r]
          /\ r.attempts = copy.attempts + 1
          /\ \/ r.status = "sent" /\ work[w].at = "accepted"
             \/ r.status = "dead_lettered"
             \/ /\ r.status \in {"failed", row[d].status} /\ work[w].at = "refused"
                /\ copy.attempts + 1 < MaxRetries
    <2>1. CASE /\ work[w].at = "accepted"
               /\ row' = [row EXCEPT ![d].status = "sent", ![d].attempts = copy.attempts + 1]
      <3> DEFINE r == [[row[d] EXCEPT !.status = "sent"] EXCEPT !.attempts = copy.attempts + 1]
      <3>1. row' = [row EXCEPT ![d] = r]
        BY <2>1, <1>1, <1>t DEF TypeOK, Row
      <3>2. r \in Row /\ r.attempts = copy.attempts + 1 /\ r.status = "sent"
        <4>1. copy.attempts + 1 \in Nat
          BY <1>1
        <4> QED BY <1>1, <4>1 DEF Row, Statuses
      <3> HIDE DEF r
      <3> QED BY <2>1, <3>1, <3>2
    <2>2. CASE /\ work[w].at = "refused"
               /\ row' = [row EXCEPT ![d] = [AfterFailure(@, copy) EXCEPT !.attempts = copy.attempts + 1]]
      <3>1. PICK f \in Row :
              /\ f = AfterFailure(row[d], copy)
              /\ \/ f.status = "dead_lettered"
                 \/ f.status \in {"failed", row[d].status} /\ copy.attempts + 1 < MaxRetries
        BY <1>1, AfterFailureCounts
      <3> DEFINE r == [f EXCEPT !.attempts = copy.attempts + 1]
      <3>2. row' = [row EXCEPT ![d] = r]
        BY <2>2, <3>1, <1>t DEF TypeOK
      <3>3. r \in Row /\ r.attempts = copy.attempts + 1 /\ r.status = f.status
        BY <1>1, <3>1 DEF Row
      <3> HIDE DEF r
      <3> QED BY <2>2, <3>1, <3>2, <3>3
    <2>3. CASE /\ work[w].at = "rejected"
               /\ row' = [row EXCEPT ![d] = [DeadLetter(@) EXCEPT !.attempts = copy.attempts + 1]]
      <3> DEFINE r == [DeadLetter(row[d]) EXCEPT !.attempts = copy.attempts + 1]
      <3>1. row' = [row EXCEPT ![d] = r]
        BY <2>3, <1>t DEF TypeOK
      <3>2. r \in Row /\ r.attempts = copy.attempts + 1 /\ r.status = "dead_lettered"
        <4>1. copy.attempts + 1 \in Nat
          BY <1>1
        <4>2. DeadLetter(row[d]) \in Row /\ DeadLetter(row[d]).status = "dead_lettered"
          BY <1>1 DEF Row, Statuses, DeadLetter
        <4> QED BY <4>1, <4>2 DEF Row
      <3> HIDE DEF r
      <3> QED BY <3>1, <3>2
    <2> QED BY <1>0, <2>1, <2>2, <2>3 DEF Settle
  <1>5. PICK a \in Nat, x \in Nat : a = accepted[d] /\ x = excuse[d]
    BY <1>1
  <1>6. /\ accepted' = [accepted EXCEPT ![d] = a] /\ excuse' = [excuse EXCEPT ![d] = x]
        /\ UNCHANGED <<sweep, lock, replay>> /\ crashes' \in Nat /\ queue' \in [Deliveries -> Nat]
    BY <1>t, <1>5 DEF Settle, TypeOK
  <1>7. r.attempts <= MaxRetries + x /\ x >= excuse[d]
    BY <1>1, <1>4, <1>5
  <1>8. r.status \in Open => r.attempts < MaxRetries + x
    BY <1>1, <1>4, <1>5 DEF Open
  <1>9. /\ a <= 1 + x /\ (r.status \in Open => a <= x)
        /\ r.status \in {"sent", "delivered"} => a > 0
    BY <1>1, <1>2, <1>4, <1>5 DEF Open
  <1> QED BY <1>0, <1>1, <1>3, <1>4, <1>5, <1>6, <1>7, <1>8, <1>9, WorkerStep

\* A worker dies: if the provider had taken the message, that is a reason to repeat it.
LEMMA CrashStep ==
    ASSUME Inv, NEW w \in Workers, Crash(w)
    PROVE  Inv'
  <1>t. TypeOK /\ work[w].at # "idle"
    BY DEF Inv, Crash
  <1>0. PICK d \in Deliveries : d = work[w].of
    BY <1>t, AtWork
  <1>1. /\ row[d] \in Row /\ accepted[d] \in Nat /\ excuse[d] \in Nat /\ MaxRetries \in Nat
        /\ Holds(w) => \A v \in Workers \ {w} : work[v].of = d => ~Holds(v)
        /\ row[d].attempts \in Nat
    BY <1>t, <1>0, AtWork, DeliveryConstants DEF Row
  <1>2. /\ row[d].attempts <= MaxRetries + excuse[d] /\ accepted[d] <= 1 + excuse[d]
        /\ row[d].status \in Open => row[d].attempts < MaxRetries + excuse[d]
        /\ row[d].status \in {"sent", "delivered"} => accepted[d] > 0
    BY <1>t, <1>0 DEF Inv, TypeOK, Good
  <1>3. PICK t \in Work : work' = [work EXCEPT ![w] = t] /\ t.at = "idle" /\ t.of = d
    BY <1>0, <1>t, DoneIs DEF Crash
  <1> DEFINE n == IF work[w].at = "accepted" THEN excuse[d] + 1 ELSE excuse[d]
  <1>4. PICK x \in Nat :
          /\ excuse' = [excuse EXCEPT ![d] = x] /\ x >= excuse[d]
          /\ work[w].at = "accepted" => x = excuse[d] + 1
    <2>1. excuse' = [excuse EXCEPT ![d] = n]
      BY <1>0 DEF Crash
    <2>2. n \in Nat /\ n >= excuse[d] /\ (work[w].at = "accepted" => n = excuse[d] + 1)
      BY <1>1
    <2> HIDE DEF n
    <2> QED BY <2>1, <2>2
  <1>5. PICK r \in Row, a \in Nat : r = row[d] /\ a = accepted[d]
    BY <1>1
  <1>6. /\ row' = [row EXCEPT ![d] = r] /\ accepted' = [accepted EXCEPT ![d] = a]
        /\ UNCHANGED <<sweep, lock, replay>> /\ crashes' \in Nat
    BY <1>t, <1>5 DEF Crash, TypeOK
  <1>7. queue' \in [Deliveries -> Nat]
    BY <1>t DEF Crash, Enqueue, TypeOK
  <1>8. /\ r.attempts <= MaxRetries + x /\ a <= 1 + x
        /\ r.status \in Open => r.attempts < MaxRetries + x
        /\ r.status \in {"sent", "delivered"} => a > 0
    BY <1>1, <1>2, <1>4, <1>5
  <1>9. \/ \E v \in Workers \ {w} : work[v].of = d /\ work[v].at = "accepted"
        \/ r.status \in Open => a <= x
    <2>1. CASE work[w].at = "accepted"
      BY <1>1, <1>2, <1>4, <1>5, <2>1
    <2>2. CASE work[w].at # "accepted"
      <3>1. \/ \E v \in Workers : work[v].of = d /\ work[v].at = "accepted"
            \/ row[d].status \in Open => accepted[d] <= excuse[d]
        BY DEF Inv, Good
      <3> QED BY <1>1, <1>4, <1>5, <2>2, <3>1
    <2> QED BY <2>1, <2>2
  <1>10. /\ x >= excuse[d] /\ t.at = "idle" /\ a = accepted[d]
    BY <1>3, <1>4, <1>5
  <1> QED BY <1>0, <1>3, <1>4, <1>6, <1>7, <1>8, <1>9, <1>10, WorkerStep

-----------------------------------------------------------------------------
(* The invariant *)

\* Nothing was accepted, nothing is due and nobody works at first.
LEMMA InitInv == Init => Inv
  <1> SUFFICES ASSUME Init PROVE Inv
    OBVIOUS
  <1>1. New \in Row /\ New.status = "queued" /\ New.attempts = 0
    BY DEF New, Row, Statuses
  <1>2. Lock!LockTypeOK /\ HolderKeepsLock
    BY DEF Init, Lock!Init, Lock!LockTypeOK, HolderKeepsLock, Lock!HolderKeepsKey
  <1>3. /\ \A d \in Deliveries : row[d] = New /\ accepted[d] = 0 /\ excuse[d] = 0
        /\ \A w \in Workers : work[w].at = "idle" /\ work[w] \in Work
    BY <1>1 DEF Init, Work
  <1>4. TypeOK
    <2>1. row \in [Deliveries -> Row] /\ accepted \in [Deliveries -> Nat]
          /\ excuse \in [Deliveries -> Nat] /\ queue \in [Deliveries -> Nat]
      BY <1>1 DEF Init
    <2>2. work \in [Workers -> Work]
      BY <1>3 DEF Init
    <2>3. /\ sweep \in [Sweepers -> [found : SUBSET Deliveries, enqueued : SUBSET Deliveries]]
          /\ replay \in [Deliveries -> Row \cup {Nobody}] /\ crashes \in Nat
      BY DEF Init
    <2>4. \A d \in Deliveries : row[d].attempts <= MaxRetries + excuse[d]
      BY <1>1, <1>3, DeliveryConstants
    <2> QED BY <1>2, <2>1, <2>2, <2>3, <2>4 DEF TypeOK
  <1>5. ASSUME NEW d \in Deliveries PROVE Good(d)
    BY <1>1, <1>3, DeliveryConstants DEF Good, Holds
  <1> QED BY <1>2, <1>4, <1>5 DEF Inv

\* Every step keeps the invariant.
LEMMA StepInv == Inv /\ [Next]_vars => Inv'
  <1> SUFFICES ASSUME Inv, [Next]_vars PROVE Inv'
    OBVIOUS
  <1>1. ASSUME NEW w \in Workers, NEW d \in Deliveries, Load(w, d) PROVE Inv'
    BY <1>1, LoadStep
  <1>2. ASSUME NEW w \in Workers, Step(w) \/ Crash(w) PROVE Inv'
    BY <1>2, RefusalSteps, StartStep, SendStep, SettleStep, CrashStep DEF Step
  <1>3. CASE \/ \E s \in Sweepers :
                  \/ SweepRead(s) \/ SweepClear(s) \/ SweepDies(s)
                  \/ \E d \in Deliveries : SweepEnqueue(s, d)
             \/ LockExpires
             \/ \E d \in Deliveries : Due(d) \/ ReplayRead(d)
    BY <1>3, SweepSteps
  <1>4. ASSUME NEW d \in Deliveries, ReconcileQueued(d) \/ ReconcileSent(d) \/ ReplayCommit(d)
        PROVE  Inv'
    BY <1>4, RowSteps
  <1>5. CASE UNCHANGED vars
    <2>1. TypeOK /\ HolderKeepsLock /\ \A d \in Deliveries : Good(d)
      BY DEF Inv
    <2>2. TypeOK' /\ HolderKeepsLock'
      BY <1>5, <2>1, LockUntouched DEF vars, lock, TypeOK
    <2>3. \A d \in Deliveries : Good(d)'
      BY <1>5, <2>1 DEF vars, Good, Holds
    <2> QED BY <2>2, <2>3 DEF Inv
  <1> QED BY <1>1, <1>2, <1>3, <1>4, <1>5 DEF Next

\* In every reachable state each acceptance is accounted for.
THEOREM InvHolds == Spec => []Inv
  BY InitInv, StepInv, PTL DEF Spec

\* Rows, messages and tasks have their types, and attempts are bounded by max_retries but
\* for replays, crashes after a send and stale copies.
THEOREM TypeCorrect == Spec => []TypeOK
  <1>1. Inv => TypeOK
    BY DEF Inv
  <1> QED BY <1>1, InvHolds, PTL

\* A delivery shown as sent was taken by its provider (mark_delivery_ids_sent).
THEOREM NothingIsSentUnaccepted == Spec => []SentWasAccepted
  <1>1. Inv => SentWasAccepted
    BY DEF Inv, Good, SentWasAccepted
  <1> QED BY <1>1, InvHolds, PTL

\* A message is repeated only for a reason, however many messages of a delivery the broker
\* holds and however many workers take them (execute_notification_delivery).
THEOREM RepeatsHaveReasons == Spec => []EveryRepeatHasAReason
  <1>1. Inv => EveryRepeatHasAReason
    BY DEF Inv, Good, EveryRepeatHasAReason
  <1> QED BY <1>1, InvHolds, PTL

\* The sweep's lock is held by the one sweep that is not late (redis_lock.py).
THEOREM LockIsKept == Spec => []HolderKeepsLock
  <1>1. Inv => HolderKeepsLock
    BY DEF Inv
  <1> QED BY <1>1, InvHolds, PTL

-----------------------------------------------------------------------------
(* The outbox                                                               *)


\* A worker between the inserts for a user and their commit owns the cooldown key, no
\* notification of its row was committed yet, and no other worker is at the same row.
WritersOwnTheKey ==
    /\ \A w \in Dispatchers : writing[w] \in Rows \ External =>
                             writing[w] \in cooled /\ persisted[writing[w]] = 0
    /\ \A v, w \in Dispatchers : writing[v] \in Rows \ External /\ writing[v] = writing[w] => v = w

\* A worker is at one row at a time.
OneAtATime == \A w \in Dispatchers : checked[w] = NoRow \/ writing[w] = NoRow

\* What keeps the delivery to a contact apart is the lease alone: until it runs out in a
\* worker's hands the row is in nobody else's, and what the look-up said of it still
\* holds.
LeasedAlone ==
    \A w \in Dispatchers : \A r \in InHand(w) \cap (External \ overran) :
        /\ outbox[r].leased
        /\ \A v \in Dispatchers : r \in InHand(v) => v = w
        /\ r \in {checked[w], writing[w]} => persisted[r] = 0

\* Workers hold only rows that were inserted.
HeldWereInserted ==
    \A w \in Dispatchers : \A r \in InHand(w) : outbox[r].status # "absent"

OutboxInv ==
    OutboxTypeOK /\ PersistedAtMostOnce /\ WritersOwnTheKey /\ OneAtATime /\ LeasedAlone
                 /\ HeldWereInserted

\* The initial state satisfies the invariant.
LEMMA OutboxInitInv == OutboxInit => OutboxInv
  <1> SUFFICES ASSUME OutboxInit PROVE OutboxInv
    OBVIOUS
  <1>1. OutboxTypeOK
    BY OutboxConstants DEF OutboxInit, OutboxTypeOK, OutboxRow, NoResults
  <1>2. PersistedAtMostOnce /\ WritersOwnTheKey /\ OneAtATime
    BY OutboxConstants DEF OutboxInit, PersistedAtMostOnce, WritersOwnTheKey, OneAtATime
  <1>3. \A w \in Dispatchers : InHand(w) = {}
    BY DEF OutboxInit, InHand, NoResults
  <1>4. LeasedAlone /\ HeldWereInserted
    BY <1>3 DEF LeasedAlone, HeldWereInserted
  <1> QED BY <1>1, <1>2, <1>4 DEF OutboxInv

\* The updates the actions make of a row of the table yield a row.
LEMMA RowUpdates ==
    ASSUME NEW t \in OutboxRow
    PROVE  /\ \A s \in {"pending", "dispatched", "archived"} : [t EXCEPT !.status = s] \in OutboxRow
           /\ [t EXCEPT !.leased = FALSE] \in OutboxRow
           /\ [t EXCEPT !.status = "dispatched", !.leased = FALSE] \in OutboxRow
           /\ t.attempts < MaxAttempts =>
                [t EXCEPT !.attempts = @ + 1, !.leased = TRUE] \in OutboxRow
  <1>1. t.attempts < MaxAttempts => t.attempts + 1 \in 0..MaxAttempts
    BY OutboxConstants DEF OutboxRow
  <1> QED BY <1>1 DEF OutboxRow

\* Every step keeps the rows of the table well typed; the bound on attempts is
\* kept by the claim.
LEMMA OutboxStepTyped == OutboxTypeOK /\ [OutboxNext]_outboxVars => OutboxTypeOK'
  <1> SUFFICES ASSUME OutboxTypeOK, [OutboxNext]_outboxVars PROVE OutboxTypeOK'
    OBVIOUS
  <1> USE DEF OutboxTypeOK
  <1>1. ASSUME NEW r \in Rows, Insert(r) PROVE OutboxTypeOK'
    <2>1. [outbox[r] EXCEPT !.status = "pending"] \in OutboxRow
      BY RowUpdates
    <2> QED BY <1>1, <2>1 DEF Insert
  <1>2. ASSUME NEW r \in Rows, LeaseExpires(r) PROVE OutboxTypeOK'
    <2>1. [outbox[r] EXCEPT !.leased = FALSE] \in OutboxRow
      BY RowUpdates
    <2>2. overran' \subseteq Rows
      BY <1>2 DEF LeaseExpires
    <2> QED BY <1>2, <2>1, <2>2 DEF LeaseExpires
  <1>3. ASSUME NEW r \in Rows, CooldownExpires(r) PROVE OutboxTypeOK'
    BY <1>3 DEF CooldownExpires
  <1>4. ASSUME NEW r \in Rows, Archive(r) PROVE OutboxTypeOK'
    <2>1. [outbox[r] EXCEPT !.status = "archived"] \in OutboxRow
      BY RowUpdates
    <2> QED BY <1>4, <2>1 DEF Archive
  <1>5. ASSUME NEW w \in Dispatchers, Claim(w) PROVE OutboxTypeOK'
    <2>1. PICK batch \in SUBSET Claimable :
             /\ todo' = [todo EXCEPT ![w] = batch]
             /\ outbox' = [r \in Rows |-> IF r \in batch
                          THEN [outbox[r] EXCEPT !.attempts = @ + 1, !.leased = TRUE]
                          ELSE outbox[r]]
      BY <1>5 DEF Claim
    <2>2. batch \subseteq Rows /\ \A r \in batch : outbox[r].attempts < MaxAttempts
      BY <2>1 DEF Claimable
    <2>3. \A r \in batch : [outbox[r] EXCEPT !.attempts = @ + 1, !.leased = TRUE] \in OutboxRow
      BY <2>2, RowUpdates
    <2>4. outbox' \in [Rows -> OutboxRow]
      BY <2>1, <2>3
    <2>5. todo' \in [Dispatchers -> SUBSET Rows]
      BY <2>1, <2>2
    <2> QED BY <1>5, <2>4, <2>5 DEF Claim
  <1>6. ASSUME NEW w \in Dispatchers, NEW r \in Rows,
               Filtered(w, r) \/ Begin(w, r) \/ BeginExternal(w, r) \/ FailEarly(w, r)
        PROVE  OutboxTypeOK'
    <2>1. CASE Filtered(w, r)
      BY <2>1 DEF Filtered, Take
    <2>2. CASE Begin(w, r)
      BY <2>2 DEF Begin, Take
    <2>3. CASE BeginExternal(w, r)
      BY <2>3 DEF BeginExternal, Take
    <2>4. CASE FailEarly(w, r)
      BY <2>4 DEF FailEarly, Take
    <2> QED BY <1>6, <2>1, <2>2, <2>3, <2>4
  <1>7. ASSUME NEW w \in Dispatchers, InsertExternal(w) \/ Commit(w) \/ FailWriting(w)
        PROVE  OutboxTypeOK'
    <2>1. CASE InsertExternal(w)
      <3>1. checked[w] \in Rows
        BY <2>1, OutboxConstants DEF InsertExternal
      <3> QED BY <2>1, <3>1 DEF InsertExternal
    <2>2. CASE Commit(w)
      <3>1. writing[w] \in Rows
        BY <2>2 DEF Commit
      <3>2. persisted' \in [Rows -> Nat]
        BY <2>2, <3>1 DEF Commit
      <3>3. [results[w] EXCEPT !.ok = @ \cup {writing[w]}] \in [ok : SUBSET Rows, error : SUBSET Rows]
        BY <3>1
      <3> QED BY <2>2, <3>2, <3>3 DEF Commit
    <2>3. CASE FailWriting(w)
      <3> DEFINE rows == {checked[w], writing[w]} \ {NoRow}
      <3>1. rows \subseteq Rows
        BY OutboxConstants
      <3>2. [results[w] EXCEPT !.error = @ \cup rows] \in [ok : SUBSET Rows, error : SUBSET Rows]
        BY <3>1
      <3> QED BY <2>3, <3>2 DEF FailWriting
    <2> QED BY <1>7, <2>1, <2>2, <2>3
  <1>8. ASSUME NEW w \in Dispatchers, Finalize(w) PROVE OutboxTypeOK'
    <2>1. \A r \in Rows :
             /\ [outbox[r] EXCEPT !.leased = FALSE] \in OutboxRow
             /\ [outbox[r] EXCEPT !.status = "dispatched", !.leased = FALSE] \in OutboxRow
             /\ outbox[r] \in OutboxRow
      BY RowUpdates
    <2>2. outbox' \in [Rows -> OutboxRow]
      BY <1>8, <2>1 DEF Finalize
    <2> QED BY <1>8, <2>2 DEF Finalize, NoResults
  <1>9. ASSUME NEW w \in Dispatchers, DispatcherCrash(w) PROVE OutboxTypeOK'
    BY <1>9 DEF DispatcherCrash, NoResults
  <1>10. CASE UNCHANGED outboxVars
    BY <1>10 DEF outboxVars
  <1> QED
    BY <1>1, <1>2, <1>3, <1>4, <1>5, <1>6, <1>7, <1>8, <1>9, <1>10 DEF OutboxNext, Dispatch

\* Workers have rows in hand.
LEMMA InHandRows == OutboxTypeOK => \A w \in Dispatchers : InHand(w) \subseteq Rows
  <1>1. External \subseteq Rows
    BY OutboxConstants
  <1> SUFFICES ASSUME OutboxTypeOK, NEW w \in Dispatchers PROVE InHand(w) \subseteq Rows
    OBVIOUS
  <1>2. {checked[w], writing[w]} \ {NoRow} \subseteq Rows /\ todo[w] \subseteq Rows
    BY <1>1 DEF OutboxTypeOK
  <1>3. results[w].ok \subseteq Rows /\ results[w].error \subseteq Rows
    BY DEF OutboxTypeOK
  <1> QED BY <1>2, <1>3 DEF InHand

\* What each step leaves in the hands of the workers: only a claim adds to it.
LEMMA StepInHand ==
    ASSUME OutboxTypeOK, OneAtATime, NEW w \in Dispatchers,
           \/ \E r \in Rows :
                Filtered(w, r) \/ Begin(w, r) \/ BeginExternal(w, r) \/ FailEarly(w, r)
           \/ InsertExternal(w) \/ Commit(w) \/ FailWriting(w)
           \/ Finalize(w) \/ DispatcherCrash(w)
    PROVE  \A v \in Dispatchers : InHand(v)' \subseteq InHand(v)
  <1> USE DEF InHand
  <1>t. /\ todo \in [Dispatchers -> SUBSET Rows] /\ NoRow \notin Rows /\ NoRow \notin External
        /\ checked \in [Dispatchers -> External \cup {NoRow}]
        /\ writing \in [Dispatchers -> Rows \cup {NoRow}]
        /\ results \in [Dispatchers -> [ok : SUBSET Rows, error : SUBSET Rows]]
    BY OutboxConstants DEF OutboxTypeOK
  <1>1. ASSUME NEW r \in Rows, Filtered(w, r) PROVE \A v \in Dispatchers : InHand(v)' \subseteq InHand(v)
    BY <1>1, <1>t DEF Filtered, Take
  <1>2. ASSUME NEW r \in Rows, Begin(w, r) PROVE \A v \in Dispatchers : InHand(v)' \subseteq InHand(v)
    BY <1>2, <1>t DEF Begin, Take
  <1>3. ASSUME NEW r \in Rows, BeginExternal(w, r)
        PROVE  \A v \in Dispatchers : InHand(v)' \subseteq InHand(v)
    BY <1>3, <1>t DEF BeginExternal, Take
  <1>4. ASSUME NEW r \in Rows, FailEarly(w, r) PROVE \A v \in Dispatchers : InHand(v)' \subseteq InHand(v)
    BY <1>4, <1>t DEF FailEarly, Take
  <1>5. CASE InsertExternal(w)
    BY <1>5, <1>t DEF InsertExternal
  <1>6. CASE Commit(w)
    BY <1>6, <1>t DEF Commit
  <1>7. CASE FailWriting(w)
    BY <1>7, <1>t DEF FailWriting
  <1>8. CASE Finalize(w)
    BY <1>8, <1>t DEF Finalize, NoResults
  <1>9. CASE DispatcherCrash(w)
    BY <1>9, <1>t DEF DispatcherCrash, NoResults
  <1> QED BY <1>1, <1>2, <1>3, <1>4, <1>5, <1>6, <1>7, <1>8, <1>9

\* A worker is at one row at a time: it takes the next one when it is at none.
LEMMA StepOneAtATime == OutboxInv /\ [OutboxNext]_outboxVars => OneAtATime'
  <1> SUFFICES ASSUME OutboxInv, [OutboxNext]_outboxVars PROVE OneAtATime'
    OBVIOUS
  <1> USE DEF OutboxInv, OutboxTypeOK, OneAtATime
  <1>1. ASSUME NEW r \in Rows, Insert(r) \/ LeaseExpires(r) \/ CooldownExpires(r) \/ Archive(r)
        PROVE  OneAtATime'
    BY <1>1 DEF Insert, LeaseExpires, CooldownExpires, Archive
  <1>2. ASSUME NEW w \in Dispatchers, NEW r \in Rows,
               Filtered(w, r) \/ Begin(w, r) \/ BeginExternal(w, r) \/ FailEarly(w, r)
        PROVE  OneAtATime'
    BY <1>2 DEF Filtered, Begin, BeginExternal, FailEarly, Take
  <1>3. ASSUME NEW w \in Dispatchers,
               Claim(w) \/ InsertExternal(w) \/ Commit(w) \/ FailWriting(w) \/ Finalize(w)
               \/ DispatcherCrash(w)
        PROVE  OneAtATime'
    BY <1>3 DEF Claim, InsertExternal, Commit, FailWriting, Finalize, DispatcherCrash
  <1>4. CASE UNCHANGED outboxVars
    BY <1>4 DEF outboxVars
  <1> QED BY <1>1, <1>2, <1>3, <1>4 DEF OutboxNext, Dispatch

\* The look-up and the cooldown key keep the writers for a user apart, the lease those for
\* a contact, and a commit counts once.
LEMMA StepWriters ==
    OutboxInv /\ [OutboxNext]_outboxVars => PersistedAtMostOnce' /\ WritersOwnTheKey'
  <1> SUFFICES ASSUME OutboxInv, [OutboxNext]_outboxVars PROVE PersistedAtMostOnce' /\ WritersOwnTheKey'
    OBVIOUS
  <1> USE DEF OutboxInv, OutboxTypeOK, PersistedAtMostOnce, MayRepeat, WritersOwnTheKey
  <1>1. ASSUME NEW r \in Rows, Insert(r) \/ LeaseExpires(r) \/ CooldownExpires(r) \/ Archive(r)
        PROVE  PersistedAtMostOnce' /\ WritersOwnTheKey'
    BY <1>1 DEF Insert, LeaseExpires, CooldownExpires, Archive
  <1>2. ASSUME NEW w \in Dispatchers, Claim(w) \/ Finalize(w)
        PROVE  PersistedAtMostOnce' /\ WritersOwnTheKey'
    BY <1>2 DEF Claim, Finalize
  <1>3. ASSUME NEW w \in Dispatchers, NEW r \in Rows,
               Filtered(w, r) \/ BeginExternal(w, r) \/ FailEarly(w, r)
        PROVE  PersistedAtMostOnce' /\ WritersOwnTheKey'
    BY <1>3 DEF Filtered, BeginExternal, FailEarly
  <1>4. ASSUME NEW w \in Dispatchers, NEW r \in Rows, Begin(w, r)
        PROVE  PersistedAtMostOnce' /\ WritersOwnTheKey'
    BY <1>4 DEF Begin
  <1>5. ASSUME NEW w \in Dispatchers, InsertExternal(w)
        PROVE  PersistedAtMostOnce' /\ WritersOwnTheKey'
    <2>1. checked[w] \in External
      BY <1>5 DEF InsertExternal
    <2> QED BY <1>5, <2>1 DEF InsertExternal
  <1>6. ASSUME NEW w \in Dispatchers, Commit(w)
        PROVE  PersistedAtMostOnce' /\ WritersOwnTheKey'
    <2>1. writing[w] \in Rows /\ writing[w] \in InHand(w)
      BY <1>6 DEF Commit, InHand
    <2>2. writing[w] \notin MayRepeat => persisted[writing[w]] = 0
      BY <2>1 DEF LeasedAlone
    <2>3. PersistedAtMostOnce'
      BY <1>6, <2>1, <2>2 DEF Commit
    <2>4. /\ cooled' = cooled /\ writing' = [writing EXCEPT ![w] = NoRow]
          /\ persisted' = [persisted EXCEPT ![writing[w]] = @ + 1]
      BY <1>6 DEF Commit
    <2>5. \A v \in Dispatchers : writing'[v] \in Rows \ External =>
               v # w /\ writing'[v] = writing[v] /\ writing[v] # writing[w]
      BY <2>1, <2>4, OutboxConstants
    <2>6. \A v \in Dispatchers : writing'[v] \in Rows \ External =>
               persisted'[writing'[v]] = persisted[writing[v]]
      BY <2>1, <2>4, <2>5
    <2>7. WritersOwnTheKey'
      BY <2>4, <2>5, <2>6
    <2> QED BY <2>3, <2>7
  <1>7. ASSUME NEW w \in Dispatchers, FailWriting(w) \/ DispatcherCrash(w)
        PROVE  PersistedAtMostOnce' /\ WritersOwnTheKey'
    <2>1. UNCHANGED <<persisted, cooled, overran>> /\ writing' = [writing EXCEPT ![w] = NoRow]
      BY <1>7 DEF FailWriting, DispatcherCrash
    <2>2. \A v \in Dispatchers : writing'[v] \in Rows \ External => writing'[v] = writing[v]
      BY <2>1, OutboxConstants
    <2> QED BY <2>1, <2>2
  <1>8. CASE UNCHANGED outboxVars
    BY <1>8 DEF outboxVars
  <1> QED
    BY <1>1, <1>2, <1>3, <1>4, <1>5, <1>6, <1>7, <1>8 DEF OutboxNext, Dispatch

\* A row of a contact stays leased to the one worker that has it, or is counted among
\* those whose lease ran out.
LEMMA StepLeased == OutboxInv /\ [OutboxNext]_outboxVars => LeasedAlone'
  <1> SUFFICES ASSUME OutboxInv, [OutboxNext]_outboxVars PROVE LeasedAlone'
    OBVIOUS
  <1>t. OutboxTypeOK /\ OneAtATime /\ LeasedAlone /\ NoRow \notin Rows
    BY OutboxConstants DEF OutboxInv
  <1>h. \A w \in Dispatchers : InHand(w) \subseteq Rows
    BY <1>t, InHandRows
  <1>1. ASSUME NEW r \in Rows, Insert(r) \/ CooldownExpires(r) \/ Archive(r) PROVE LeasedAlone'
    <2>1. UNCHANGED <<persisted, todo, checked, writing, results, overran>>
      BY <1>1 DEF Insert, CooldownExpires, Archive
    <2>2. \A w \in Dispatchers : InHand(w)' = InHand(w)
      BY <2>1 DEF InHand
    <2>3. \A q \in Rows : outbox'[q].leased = outbox[q].leased
      BY <1>1, <1>t DEF Insert, CooldownExpires, Archive, OutboxTypeOK, OutboxRow
    <2> QED BY <1>h, <1>t, <2>1, <2>2, <2>3 DEF LeasedAlone
  <1>2. ASSUME NEW r \in Rows, LeaseExpires(r) PROVE LeasedAlone'
    <2>1. /\ UNCHANGED <<persisted, todo, checked, writing, results>>
          /\ overran' = overran \cup {q \in {r} : \E w \in Dispatchers : q \in InHand(w)}
          /\ outbox' = [outbox EXCEPT ![r].leased = FALSE]
      BY <1>2 DEF LeaseExpires
    <2>2. \A w \in Dispatchers : InHand(w)' = InHand(w)
      BY <2>1 DEF InHand
    <2>3. \A q \in Rows \ {r} : outbox'[q] = outbox[q]
      BY <2>1, <1>t DEF OutboxTypeOK
    <2>4. \A w \in Dispatchers : r \in InHand(w) => r \in overran'
      BY <2>1
    <2>5. overran \subseteq overran'
      BY <2>1
    <2> QED BY <1>h, <1>t, <2>1, <2>2, <2>3, <2>4, <2>5 DEF LeasedAlone
  <1>3. ASSUME NEW w \in Dispatchers, Claim(w) PROVE LeasedAlone'
    <2>1. PICK batch \in SUBSET Claimable :
             /\ todo' = [todo EXCEPT ![w] = batch]
             /\ outbox' = [r \in Rows |-> IF r \in batch
                          THEN [outbox[r] EXCEPT !.attempts = @ + 1, !.leased = TRUE]
                          ELSE outbox[r]]
      BY <1>3 DEF Claim
    <2>2. InHand(w) = {} /\ UNCHANGED <<persisted, checked, writing, results, overran>>
      BY <1>3 DEF Claim
    <2>a. \A r \in batch : /\ r \in Rows /\ ~outbox[r].leased /\ outbox[r] \in OutboxRow
                           /\ outbox'[r] = [outbox[r] EXCEPT !.attempts = @ + 1, !.leased = TRUE]
      BY <2>1, <1>t DEF Claimable, OutboxTypeOK
    <2>3. \A r \in batch : r \in Rows /\ ~outbox[r].leased /\ outbox'[r].leased
      BY <2>a DEF OutboxRow
    <2>4. \A r \in Rows \ batch : outbox'[r] = outbox[r]
      BY <2>1
    <2>5. /\ InHand(w)' = batch
          /\ \A v \in Dispatchers \ {w} : InHand(v)' = InHand(v)
      BY <2>1, <2>2, <1>t DEF InHand, OutboxTypeOK
    <2>6. \A r \in batch \cap (External \ overran) : \A v \in Dispatchers : r \notin InHand(v)
      BY <2>3, <1>t DEF LeasedAlone
    <2>7. \A r \in batch : r \notin {checked[w], writing[w]}
      BY <2>2, <2>3, <1>t DEF InHand
    <2> QED BY <1>h, <1>t, <2>2, <2>3, <2>4, <2>5, <2>6, <2>7 DEF LeasedAlone
  <1>4. ASSUME NEW w \in Dispatchers, UNCHANGED <<outbox, overran>>,
               \A v \in Dispatchers : InHand(v)' \subseteq InHand(v),
               \A v \in Dispatchers \ {w} : checked'[v] = checked[v] /\ writing'[v] = writing[v],
               \A r \in Rows : r \in {checked'[w], writing'[w]} => persisted'[r] = 0,
               \A r \in Rows : persisted'[r] = persisted[r] \/ r \in InHand(w)
        PROVE  LeasedAlone'
    <2> SUFFICES ASSUME NEW v \in Dispatchers, NEW r \in InHand(v)' \cap (External \ overran)'
                 PROVE  /\ outbox[r].leased
                        /\ \A o \in Dispatchers : r \in InHand(o)' => o = v
                        /\ r \in {checked'[v], writing'[v]} => persisted'[r] = 0
      BY <1>4 DEF LeasedAlone
    <2>1. r \in InHand(v) \cap (External \ overran) /\ r \in Rows
      BY <1>4, <1>h
    <2>2. outbox[r].leased /\ \A o \in Dispatchers : r \in InHand(o) => o = v
      BY <2>1, <1>t DEF LeasedAlone
    <2>3. r \in {checked'[v], writing'[v]} => persisted'[r] = 0
      BY <1>4, <1>t, <2>1, <2>2 DEF LeasedAlone
    <2> QED BY <1>4, <2>2, <2>3
  <1>5. ASSUME NEW w \in Dispatchers, NEW r \in Rows,
               Filtered(w, r) \/ Begin(w, r) \/ BeginExternal(w, r) \/ FailEarly(w, r)
        PROVE  LeasedAlone'
    <2>1. \A v \in Dispatchers : InHand(v)' \subseteq InHand(v)
      BY <1>5, <1>t, StepInHand
    <2>2. UNCHANGED <<outbox, overran, persisted>> /\ checked[w] = NoRow /\ writing[w] = NoRow
      BY <1>5 DEF Filtered, Begin, BeginExternal, FailEarly, Take
    <2>3. \A v \in Dispatchers \ {w} : checked'[v] = checked[v] /\ writing'[v] = writing[v]
      BY <1>5, <1>t DEF Filtered, Begin, BeginExternal, FailEarly, OutboxTypeOK
    <2>4. \A q \in Rows : q \in {checked'[w], writing'[w]} => persisted'[q] = 0
      BY <1>5, <1>t, <2>2 DEF Filtered, Begin, BeginExternal, FailEarly, OutboxTypeOK
    <2> QED BY <1>4, <2>1, <2>2, <2>3, <2>4
  <1>6. ASSUME NEW w \in Dispatchers, FailWriting(w) \/ DispatcherCrash(w) PROVE LeasedAlone'
    <2>1. \A v \in Dispatchers : InHand(v)' \subseteq InHand(v)
      BY <1>6, <1>t, StepInHand
    <2>2. /\ UNCHANGED <<outbox, overran, persisted>>
          /\ checked' = [checked EXCEPT ![w] = NoRow] /\ writing' = [writing EXCEPT ![w] = NoRow]
      BY <1>6 DEF FailWriting, DispatcherCrash
    <2>3. /\ checked'[w] = NoRow /\ writing'[w] = NoRow
          /\ \A v \in Dispatchers \ {w} : checked'[v] = checked[v] /\ writing'[v] = writing[v]
      BY <2>2, <1>t DEF OutboxTypeOK
    <2> QED BY <1>4, <1>t, <2>1, <2>2, <2>3
  <1>7. ASSUME NEW w \in Dispatchers, InsertExternal(w) PROVE LeasedAlone'
    <2>1. \A v \in Dispatchers : InHand(v)' \subseteq InHand(v)
      BY <1>7, <1>t, StepInHand
    <2>2. /\ UNCHANGED <<outbox, overran, persisted>> /\ checked[w] # NoRow
          /\ checked' = [checked EXCEPT ![w] = NoRow]
          /\ writing' = [writing EXCEPT ![w] = checked[w]]
      BY <1>7 DEF InsertExternal
    <2> SUFFICES ASSUME NEW v \in Dispatchers, NEW r \in InHand(v)' \cap (External \ overran)'
                 PROVE  /\ outbox[r].leased
                        /\ \A o \in Dispatchers : r \in InHand(o)' => o = v
                        /\ r \in {checked'[v], writing'[v]} => persisted[r] = 0
      BY <2>2 DEF LeasedAlone
    <2>3. r \in InHand(v) \cap (External \ overran) /\ r \in Rows
      BY <2>1, <2>2, <1>h
    <2>4. /\ outbox[r].leased /\ \A o \in Dispatchers : r \in InHand(o) => o = v
          /\ r \in {checked[v], writing[v]} => persisted[r] = 0
      BY <2>3, <1>t DEF LeasedAlone
    <2>5. r \in {checked'[v], writing'[v]} => r \in {checked[v], writing[v]}
      BY <2>2, <2>3, <1>t DEF OutboxTypeOK
    <2> QED BY <2>1, <2>4, <2>5
  <1>8. ASSUME NEW w \in Dispatchers, Commit(w) PROVE LeasedAlone'
    <2>1. \A v \in Dispatchers : InHand(v)' \subseteq InHand(v)
      BY <1>8, <1>t, StepInHand
    <2>2. /\ UNCHANGED <<outbox, overran, checked>> /\ writing[w] # NoRow
          /\ writing' = [writing EXCEPT ![w] = NoRow]
          /\ persisted' = [persisted EXCEPT ![writing[w]] = @ + 1]
      BY <1>8 DEF Commit
    <2>3. checked[w] = NoRow /\ writing[w] \in InHand(w)
      BY <2>2, <1>t DEF OneAtATime, InHand
    <2>4. /\ checked'[w] = NoRow /\ writing'[w] = NoRow
          /\ \A v \in Dispatchers \ {w} : checked'[v] = checked[v] /\ writing'[v] = writing[v]
      BY <2>2, <2>3, <1>t DEF OutboxTypeOK
    <2>5. \A r \in Rows : persisted'[r] = persisted[r] \/ r \in InHand(w)
      BY <2>2, <2>3, <1>t DEF OutboxTypeOK
    <2> QED BY <1>4, <1>t, <2>1, <2>2, <2>4, <2>5
  <1>9. ASSUME NEW w \in Dispatchers, Finalize(w) PROVE LeasedAlone'
    <2>1. \A v \in Dispatchers : InHand(v)' \subseteq InHand(v)
      BY <1>9, <1>t, StepInHand
    <2>2. UNCHANGED <<persisted, checked, writing, overran>> /\ InHand(w)' = {}
      BY <1>9, <1>t DEF Finalize, InHand, NoResults, OutboxTypeOK
    <2>3. \A r \in Rows : outbox'[r] = outbox[r] \/ r \in InHand(w)
      BY <1>9 DEF Finalize, InHand
    <2> SUFFICES ASSUME NEW v \in Dispatchers, NEW r \in InHand(v)' \cap (External \ overran)'
                 PROVE  /\ outbox'[r].leased
                        /\ \A o \in Dispatchers : r \in InHand(o)' => o = v
                        /\ r \in {checked[v], writing[v]} => persisted[r] = 0
      BY <2>2 DEF LeasedAlone
    <2>4. r \in InHand(v) \cap (External \ overran) /\ r \in Rows /\ v # w
      BY <2>1, <2>2, <1>h
    <2>5. /\ outbox[r].leased /\ \A o \in Dispatchers : r \in InHand(o) => o = v
          /\ r \in {checked[v], writing[v]} => persisted[r] = 0
      BY <2>4, <1>t DEF LeasedAlone
    <2>6. outbox'[r] = outbox[r]
      BY <2>3, <2>4, <2>5
    <2> QED BY <2>1, <2>5, <2>6
  <1>10. CASE UNCHANGED outboxVars
    <2>1. UNCHANGED <<outbox, persisted, todo, checked, writing, results, overran>>
      BY <1>10 DEF outboxVars
    <2>2. \A w \in Dispatchers : InHand(w)' = InHand(w)
      BY <2>1 DEF InHand
    <2> QED BY <1>t, <2>1, <2>2 DEF LeasedAlone
  <1> QED
    BY <1>1, <1>2, <1>3, <1>5, <1>6, <1>7, <1>8, <1>9, <1>10 DEF OutboxNext, Dispatch

\* A worker takes rows from the table only by a claim, and no row becomes absent.
LEMMA StepHeld == OutboxInv /\ [OutboxNext]_outboxVars => HeldWereInserted'
  <1> SUFFICES ASSUME OutboxInv, [OutboxNext]_outboxVars PROVE HeldWereInserted'
    OBVIOUS
  <1> DEFINE Inserted(r) == outbox[r].status # "absent"
  <1>1. ASSUME \A w \in Dispatchers : InHand(w)' \subseteq InHand(w),
               \A r \in Rows : Inserted(r) => Inserted(r)'
        PROVE  HeldWereInserted'
    <2>1. \A w \in Dispatchers : InHand(w) \subseteq Rows
      BY InHandRows DEF OutboxInv
    <2> QED BY <1>1, <2>1 DEF OutboxInv, HeldWereInserted
  <1>2. ASSUME UNCHANGED <<todo, checked, writing, results>>
        PROVE  \A w \in Dispatchers : InHand(w)' \subseteq InHand(w)
    BY <1>2 DEF InHand
  <1>3. ASSUME outbox' = outbox
        PROVE  \A r \in Rows : Inserted(r) => Inserted(r)'
    BY <1>3
  <1>4. ASSUME NEW r \in Rows, Insert(r) \/ LeaseExpires(r) \/ CooldownExpires(r) \/ Archive(r)
        PROVE HeldWereInserted'
    <2>1. UNCHANGED <<todo, checked, writing, results>>
      BY <1>4 DEF Insert, LeaseExpires, CooldownExpires, Archive
    <2>2. \A q \in Rows : Inserted(q) => Inserted(q)'
      BY <1>4 DEF Insert, LeaseExpires, CooldownExpires, Archive, OutboxInv, OutboxTypeOK, OutboxRow
    <2> QED BY <1>1, <1>2, <2>1, <2>2
  <1>5. ASSUME NEW w \in Dispatchers, Claim(w) PROVE HeldWereInserted'
    <2>1. PICK batch \in SUBSET Claimable :
             /\ todo' = [todo EXCEPT ![w] = batch]
             /\ outbox' = [r \in Rows |-> IF r \in batch
                          THEN [outbox[r] EXCEPT !.attempts = @ + 1, !.leased = TRUE]
                          ELSE outbox[r]]
      BY <1>5 DEF Claim
    <2>2. \A r \in batch : r \in Rows /\ Inserted(r)
      BY <2>1 DEF Claimable
    <2>3. \A r \in Rows : Inserted(r) => Inserted(r)'
      BY <2>1 DEF OutboxInv, OutboxTypeOK, OutboxRow
    <2>t. todo \in [Dispatchers -> SUBSET Rows] /\ UNCHANGED <<checked, writing, results>>
      BY <1>5 DEF Claim, OutboxInv, OutboxTypeOK
    <2>4. \A v \in Dispatchers : InHand(v)' \subseteq InHand(v) \cup batch
      BY <2>1, <2>t DEF InHand
    <2>5. \A v \in Dispatchers : InHand(v) \subseteq Rows
      BY InHandRows DEF OutboxInv
    <2> QED BY <2>2, <2>3, <2>4, <2>5 DEF OutboxInv, HeldWereInserted
  <1>6. ASSUME NEW w \in Dispatchers, NEW r \in Rows,
               Filtered(w, r) \/ Begin(w, r) \/ BeginExternal(w, r) \/ FailEarly(w, r)
        PROVE  HeldWereInserted'
    <2>1. outbox' = outbox
      BY <1>6 DEF Filtered, Begin, BeginExternal, FailEarly
    <2>2. \A v \in Dispatchers : InHand(v)' \subseteq InHand(v)
      BY <1>6, StepInHand DEF OutboxInv
    <2> QED BY <1>1, <1>3, <2>1, <2>2
  <1>7. ASSUME NEW w \in Dispatchers,
               InsertExternal(w) \/ Commit(w) \/ FailWriting(w) \/ DispatcherCrash(w)
        PROVE  HeldWereInserted'
    <2>1. outbox' = outbox
      BY <1>7 DEF InsertExternal, Commit, FailWriting, DispatcherCrash
    <2>2. \A v \in Dispatchers : InHand(v)' \subseteq InHand(v)
      BY <1>7, StepInHand DEF OutboxInv
    <2> QED BY <1>1, <1>3, <2>1, <2>2
  <1>8. ASSUME NEW w \in Dispatchers, Finalize(w) PROVE HeldWereInserted'
    <2>1. \A r \in Rows : Inserted(r) => Inserted(r)'
      BY <1>8 DEF Finalize, OutboxInv, OutboxTypeOK, OutboxRow
    <2>2. \A v \in Dispatchers : InHand(v)' \subseteq InHand(v)
      BY <1>8, StepInHand DEF OutboxInv
    <2> QED BY <1>1, <2>1, <2>2
  <1>9. CASE UNCHANGED outboxVars
    BY <1>1, <1>2, <1>3, <1>9 DEF outboxVars
  <1> QED
    BY <1>4, <1>5, <1>6, <1>7, <1>8, <1>9 DEF OutboxNext, Dispatch

\* The invariant holds in every reachable state.
THEOREM OutboxInvHolds == OutboxSpec => []OutboxInv
  <1>1. OutboxInv /\ [OutboxNext]_outboxVars => OutboxInv'
    BY OutboxStepTyped, StepWriters, StepOneAtATime, StepLeased, StepHeld DEF OutboxInv
  <1> QED
    BY OutboxInitInv, <1>1, PTL DEF OutboxSpec

\* Rows, keys and what workers hold keep their types; in particular no row is
\* claimed more than MaxAttempts times.
THEOREM OutboxTypeCorrect == OutboxSpec => []OutboxTypeOK
  <1>1. OutboxInv => OutboxTypeOK
    BY DEF OutboxInv
  <1> QED
    BY OutboxInvHolds, <1>1, PTL

\* However workers, leases, crashes and expiring cooldown keys interleave, the
\* notifications of an outbox row are committed at most once; those of a contact as long
\* as no lease runs out in a worker's hands.
THEOREM AtMostOnce == OutboxSpec => []PersistedAtMostOnce
  <1>1. OutboxInv => PersistedAtMostOnce
    BY DEF OutboxInv
  <1> QED
    BY OutboxInvHolds, <1>1, PTL

\* Every step of the outbox is a step of FanoutOnce or a stutter: inserting a row accepts
\* its event, a commit is the one fan-out of an accepted event, a lease that runs out in a
\* worker's hands loosens the event of a contact, and claims, retries, crashes and the
\* archive change nothing.
LEMMA StepImplements ==
    OutboxInv /\ [OutboxNext]_outboxVars =>
        [Promise!Next]_<<{r \in Rows : outbox[r].status # "absent"}, MayRepeat, persisted>>
  <1> SUFFICES ASSUME OutboxInv, [OutboxNext]_outboxVars
               PROVE  [Promise!Next]_<<{r \in Rows : outbox[r].status # "absent"}, MayRepeat, persisted>>
    OBVIOUS
  <1> DEFINE events == {r \in Rows : outbox[r].status # "absent"}
  <1>1. ASSUME events' = events, MayRepeat' = MayRepeat, persisted' = persisted
        PROVE  [Promise!Next]_<<events, MayRepeat, persisted>>
    BY <1>1
  <1>2. ASSUME NEW r \in Rows, Insert(r) PROVE Promise!Next
    <2>1. events' = events \cup {r} /\ MayRepeat' = MayRepeat
      BY <1>2 DEF Insert, MayRepeat, OutboxInv, OutboxTypeOK, OutboxRow
    <2>2. Promise!Accept(r)
      BY <1>2, <2>1 DEF Insert, Promise!Accept
    <2> QED BY <2>2 DEF Promise!Next
  <1>3. ASSUME NEW r \in Rows, CooldownExpires(r) \/ Archive(r)
        PROVE  events' = events /\ MayRepeat' = MayRepeat /\ persisted' = persisted
    <2>1. CASE CooldownExpires(r)
      BY <2>1 DEF CooldownExpires, MayRepeat
    <2>2. CASE Archive(r)
      <3>1. \A q \in Rows : outbox'[q].status = "absent" <=> outbox[q].status = "absent"
        BY <2>2 DEF Archive, OutboxInv, OutboxTypeOK, OutboxRow
      <3> QED BY <2>2, <3>1 DEF Archive, MayRepeat
    <2> QED BY <1>3, <2>1, <2>2
  <1>4. ASSUME NEW r \in Rows, LeaseExpires(r)
        PROVE  \/ Promise!Next
               \/ events' = events /\ MayRepeat' = MayRepeat /\ persisted' = persisted
    <2>1. \A q \in Rows : outbox'[q].status = outbox[q].status
      BY <1>4 DEF LeaseExpires, OutboxInv, OutboxTypeOK, OutboxRow
    <2>2. events' = events /\ persisted' = persisted
      BY <1>4, <2>1 DEF LeaseExpires
    <2>3. overran' = overran \cup {q \in {r} : \E w \in Dispatchers : q \in InHand(w)}
      BY <1>4 DEF LeaseExpires
    <2>4. CASE r \in External /\ \E w \in Dispatchers : r \in InHand(w)
      <3>1. r \in events
        BY <2>4 DEF OutboxInv, HeldWereInserted
      <3>2. MayRepeat' = MayRepeat \cup {r}
        BY <2>3, <2>4 DEF MayRepeat
      <3>3. Promise!Loosen(r)
        BY <2>2, <3>1, <3>2 DEF Promise!Loosen
      <3> QED BY <3>3 DEF Promise!Next
    <2>5. CASE ~(r \in External /\ \E w \in Dispatchers : r \in InHand(w))
      BY <2>2, <2>3, <2>5 DEF MayRepeat
    <2> QED BY <2>4, <2>5
  <1>5. ASSUME NEW w \in Dispatchers, Claim(w) \/ Finalize(w)
        PROVE  events' = events /\ MayRepeat' = MayRepeat /\ persisted' = persisted
    <2>1. CASE Claim(w)
      <3>a. PICK batch \in SUBSET Claimable :
              outbox' = [r \in Rows |-> IF r \in batch
                          THEN [outbox[r] EXCEPT !.attempts = @ + 1, !.leased = TRUE]
                          ELSE outbox[r]]
        BY <2>1 DEF Claim
      <3>1. \A r \in Rows : outbox'[r].status = outbox[r].status
        BY <3>a DEF OutboxInv, OutboxTypeOK, OutboxRow
      <3> QED BY <2>1, <3>1 DEF Claim, MayRepeat
    <2>2. CASE Finalize(w)
      BY <2>2 DEF Finalize, MayRepeat, OutboxInv, OutboxTypeOK, OutboxRow
    <2> QED BY <1>5, <2>1, <2>2
  <1>6. ASSUME NEW w \in Dispatchers, NEW r \in Rows,
               Filtered(w, r) \/ Begin(w, r) \/ BeginExternal(w, r) \/ FailEarly(w, r)
        PROVE  events' = events /\ MayRepeat' = MayRepeat /\ persisted' = persisted
    BY <1>6 DEF Filtered, Begin, BeginExternal, FailEarly, MayRepeat
  <1>7. ASSUME NEW w \in Dispatchers, InsertExternal(w) \/ FailWriting(w) \/ DispatcherCrash(w)
        PROVE  events' = events /\ MayRepeat' = MayRepeat /\ persisted' = persisted
    BY <1>7 DEF InsertExternal, FailWriting, DispatcherCrash, MayRepeat
  <1>8. ASSUME NEW w \in Dispatchers, Commit(w) PROVE Promise!Next
    <2> DEFINE r == writing[w]
    <2>1. r \in Rows /\ r \in InHand(w)
      BY <1>8 DEF Commit, OutboxInv, OutboxTypeOK, InHand
    <2>2. outbox[r].status # "absent"
      BY <2>1 DEF OutboxInv, HeldWereInserted
    <2>3. persisted[r] = 0 \/ r \in MayRepeat
      BY <2>1 DEF OutboxInv, WritersOwnTheKey, LeasedAlone, MayRepeat
    <2>4. persisted' = [persisted EXCEPT ![r] = @ + 1]
      BY <1>8 DEF Commit
    <2>5. events' = events /\ MayRepeat' = MayRepeat
      BY <1>8 DEF Commit, MayRepeat
    <2>6. Promise!FanOut(r)
      BY <2>1, <2>2, <2>3, <2>4, <2>5 DEF Promise!FanOut
    <2> QED BY <2>1, <2>6 DEF Promise!Next
  <1>9. CASE UNCHANGED outboxVars
    <2> events' = events /\ MayRepeat' = MayRepeat /\ persisted' = persisted
      BY <1>9 DEF outboxVars, MayRepeat
    <2> QED BY <1>1
  <1> QED
    BY <1>1, <1>2, <1>3, <1>4, <1>5, <1>6, <1>7, <1>8, <1>9 DEF OutboxNext, Dispatch

\* The outbox implements the promise its callers rely on.
THEOREM OutboxRefinement == OutboxSpec => Implements
  <1>1. OutboxInit => Promise!Init
    BY DEF OutboxInit, MayRepeat, Promise!Init
  <1> QED
    BY OutboxInvHolds, <1>1, StepImplements, PTL DEF Implements, OutboxSpec, Promise!Spec

\* A claim takes pending rows only, a finalize sets a row to dispatched or leaves its
\* status: no step of a worker, however late, reopens a row.
LEMMA StepDispatched ==
    ASSUME OutboxTypeOK, [OutboxNext]_outboxVars, NEW r \in Rows, outbox[r].status = "dispatched"
    PROVE  outbox'[r].status \in {"dispatched", "archived"}
  <1>t. outbox \in [Rows -> OutboxRow]
    BY DEF OutboxTypeOK
  <1>1. ASSUME NEW q \in Rows, Insert(q) \/ LeaseExpires(q) \/ CooldownExpires(q) \/ Archive(q)
        PROVE  outbox'[r].status \in {"dispatched", "archived"}
    BY <1>1, <1>t DEF Insert, LeaseExpires, CooldownExpires, Archive, OutboxRow
  <1>2. ASSUME NEW w \in Dispatchers, Claim(w) PROVE outbox'[r].status = "dispatched"
    <2>1. r \notin Claimable
      BY DEF Claimable
    <2>2. outbox'[r] = outbox[r]
      BY <1>2, <2>1 DEF Claim
    <2> QED BY <2>2
  <1>3. ASSUME NEW w \in Dispatchers, Finalize(w) PROVE outbox'[r].status = "dispatched"
    <2>1. outbox'[r] \in {[outbox[r] EXCEPT !.status = "dispatched", !.leased = FALSE],
                       [outbox[r] EXCEPT !.leased = FALSE], outbox[r]}
      BY <1>3 DEF Finalize
    <2>2. outbox[r] \in OutboxRow
      BY <1>t
    <2> QED BY <2>1, <2>2 DEF OutboxRow
  <1>4. ASSUME NEW w \in Dispatchers,
               \/ \E q \in Rows :
                    Filtered(w, q) \/ Begin(w, q) \/ BeginExternal(w, q) \/ FailEarly(w, q)
               \/ InsertExternal(w) \/ Commit(w) \/ FailWriting(w) \/ DispatcherCrash(w)
        PROVE  outbox' = outbox
    BY <1>4 DEF Filtered, Begin, BeginExternal, FailEarly, InsertExternal, Commit, FailWriting,
                DispatcherCrash
  <1>5. CASE UNCHANGED outboxVars
    BY <1>5 DEF outboxVars
  <1> QED BY <1>1, <1>2, <1>3, <1>4, <1>5 DEF OutboxNext, Dispatch

\* Neither the finalize of a worker whose lease ran out nor a crash puts a dispatched
\* row back in the queue.
THEOREM DispatchedStays == OutboxSpec => DispatchedIsFinal
  <1>1. OutboxTypeOK /\ [OutboxNext]_outboxVars =>
          [\A r \in Rows : outbox[r].status = "dispatched" =>
              outbox'[r].status \in {"dispatched", "archived"}]_outboxVars
    BY StepDispatched
  <1> QED BY <1>1, OutboxTypeCorrect, PTL DEF OutboxSpec, DispatchedIsFinal
=============================================================================
